---------------------------- MODULE OutboxProofs ----------------------------
(* The safety properties of the outbox, for any services, replicas,         *)
(* listeners and options.                                                   *)
EXTENDS Outbox, TLAPS

----------------------------------------------------------------------------
(* What a step does to the passes                                           *)

Ats == {"idle", "read", "next", "publish", "fail", "release", "down"}

\* The pass of r is this, and no other pass changed.
Is(r, at, batch, event, todo) ==
    /\ relay'[r].at = at /\ relay'[r].batch = batch
    /\ relay'[r].event = event /\ relay'[r].todo = todo
    /\ \A q \in Replicas \ {r} : relay'[q] = relay[q]

Nothing == [e \in {} |-> 0]

\* What the type of a pass says of its fields.
LEMMA PassFields ==
    ASSUME TypeOK, NEW r \in Replicas
    PROVE  /\ relay[r].at \in Ats /\ relay[r].event \in 0..N
           /\ relay[r].todo \subseteq 1..Len(Listeners)
           /\ InHand(r) \subseteq Events /\ relay[r].batch \in [InHand(r) -> Nat]
<1>1. InHand(r) \subseteq Events /\ relay[r] \in Passes(InHand(r))
  BY DEF TypeOK, Passing
<1> QED
  BY <1>1 DEF Passes, Ats

\* A pass with well-typed fields, and one that becomes it.
LEMMA IsPass ==
    ASSUME NEW at \in Ats, NEW S \in SUBSET Events, NEW batch \in [S -> Nat],
           NEW event \in 0..N, NEW todo \in SUBSET (1..Len(Listeners))
    PROVE  PassAt(at, batch, event, todo) \in Passes(S)
  BY DEF Passes, Ats, PassAt

\* A replica whose pass becomes another one.
LEMMA Moves ==
    ASSUME TypeOK, NEW r \in Replicas,
           NEW at \in Ats, NEW S \in SUBSET Events, NEW batch \in [S -> Nat],
           NEW event \in 0..N, NEW todo \in SUBSET (1..Len(Listeners)),
           Becomes(r, PassAt(at, batch, event, todo))
    PROVE  /\ Passing'
           /\ Is(r, at, batch, event, todo)
<1>1. PassAt(at, batch, event, todo) \in Passes(S)
  BY IsPass
<1>2. Passing
  BY DEF TypeOK
<1>3. relay' = [relay EXCEPT ![r] = PassAt(at, batch, event, todo)]
  BY DEF Becomes
<1>4. /\ DOMAIN relay' = Replicas /\ relay'[r] = PassAt(at, batch, event, todo)
      /\ \A q \in Replicas \ {r} : relay'[q] = relay[q]
  BY <1>2, <1>3 DEF Passing
<1>5. Is(r, at, batch, event, todo)
  BY <1>4 DEF Is, PassAt
<1>6. InHand(r)' = S /\ \A q \in Replicas \ {r} : InHand(q)' = InHand(q)
  BY <1>4, <1>5 DEF Is, InHand
<1>7. Passing'
  BY <1>1, <1>2, <1>4, <1>6 DEF Passing
<1> QED
  BY <1>5, <1>7

\* Where a Goto, an Advance and the end of a pass leave it.
LEMMA GotoMoves ==
    ASSUME TypeOK, NEW r \in Replicas, NEW at \in Ats, Goto(r, at)
    PROVE  /\ Passing'
           /\ Is(r, at, relay[r].batch, relay[r].event, relay[r].todo)
  BY PassFields, Moves, ZenonT(15) DEF Goto

\* The end of a pass leaves nothing in hand.
LEMMA EmptyMoves ==
    ASSUME TypeOK, NEW r \in Replicas, NEW at \in Ats, Becomes(r, Empty(at))
    PROVE  /\ Passing'
           /\ Is(r, at, Nothing, 0, {})
<1>1. Nothing \in [{} -> Nat] /\ {} \in SUBSET Events /\ 0 \in 0..N
  BY OutboxAssumption DEF Nothing
<1>2. Becomes(r, PassAt(at, Nothing, 0, {}))
  BY DEF Empty, Nothing
<1> QED
  BY <1>1, <1>2, Moves, Zenon

Rest(r) == [e \in InHand(r) \ {relay[r].event} |-> relay[r].batch[e]]

\* An Advance leaves the rest of the batch.
LEMMA AdvanceMoves ==
    ASSUME TypeOK, NEW r \in Replicas, Advance(r)
    PROVE  /\ Passing'
           /\ Is(r, "next", Rest(r), 0, {})
<1>1. \A e \in InHand(r) : relay[r].batch[e] \in Nat
  BY PassFields
<1>2. Rest(r) \in [InHand(r) \ {relay[r].event} -> Nat]
  BY <1>1 DEF Rest
<1>3. InHand(r) \ {relay[r].event} \in SUBSET Events /\ 0 \in 0..N /\ "next" \in Ats
  BY PassFields, OutboxAssumption DEF Ats
<1>4. Becomes(r, PassAt("next", Rest(r), 0, {}))
  BY DEF Advance, Rest
<1> QED
  BY <1>2, <1>3, <1>4, Moves

----------------------------------------------------------------------------
(* Types                                                                    *)

\* What a pass has in hand.
Sound(r) ==
    /\ InHand(r) \subseteq Rows
    /\ At(r, "publish") \/ At(r, "fail") => relay[r].event \in InHand(r)

\* A pass that did not change is sound when no row went away.
LEMMA OthersSound ==
    ASSUME TypeOK, NEW r \in Replicas, NEW at, NEW batch, NEW event, NEW todo,
           Is(r, at, batch, event, todo), units' = units,
           DOMAIN batch \subseteq Rows, at \in {"publish", "fail"} => event \in DOMAIN batch
    PROVE  \A q \in Replicas : Sound(q)'
<1> SUFFICES ASSUME NEW q \in Replicas PROVE Sound(q)'
  OBVIOUS
<1>1. Rows' = Rows
  BY DEF Rows
<1>2. CASE q = r
  BY <1>1, <1>2 DEF Sound, InHand, At, Is
<1>3. CASE q # r
  <2>1. Sound(q)
    BY DEF TypeOK, Sound
  <2>2. relay'[q] = relay[q]
    BY <1>3 DEF Is
  <2> QED
    BY <1>1, <2>1, <2>2 DEF Sound, InHand, At
<1> QED
  BY <1>2, <1>3

\* Only commits touch the rows that exist, and they add some.
LEMMA SoundKept ==
    ASSUME TypeOK, relay' = relay, units \subseteq units'
    PROVE  Passing' /\ \A q \in Replicas : Sound(q)'
<1>1. Rows \subseteq Rows'
  BY DEF Rows
<1>2. Passing'
  <2>1. Passing
    BY DEF TypeOK
  <2> QED
    BY <2>1 DEF Passing, InHand
<1>3. ASSUME NEW q \in Replicas PROVE Sound(q)'
  <2>1. Sound(q)
    BY DEF TypeOK, Sound
  <2> QED
    BY <1>1, <2>1 DEF Sound, InHand, At
<1> QED
  BY <1>2, <1>3

\* Relays start idle, over an empty table.
LEMMA InitTypes == Init => TypeOK
<1> SUFFICES ASSUME Init PROVE TypeOK
  OBVIOUS
<1> USE OutboxAssumption
<1>1. Empty("idle") \in Passes({}) /\ DOMAIN Empty("idle").batch = {}
  <2>1. /\ [e \in {} |-> 0] \in [{} -> Nat] /\ {} \in SUBSET Events
        /\ 0 \in 0..N /\ "idle" \in Ats
    BY DEF Ats
  <2>2. Empty("idle") \in Passes({})
    BY <2>1, IsPass, Zenon DEF Empty
  <2>3. DOMAIN Empty("idle").batch = {}
    BY DEF Empty, PassAt
  <2> QED
    BY <2>2, <2>3
<1>2. Passing
  <2>1. DOMAIN relay = Replicas /\ \A r \in Replicas : relay[r] = Empty("idle")
    BY DEF Init
  <2> QED
    BY <1>1, <2>1, Zenon DEF Passing, InHand
<1>3. \A r \in Replicas : relay[r] = PassAt("idle", [e \in {} |-> 0], 0, {})
  BY DEF Init, Empty
<1>4. \A r \in Replicas : Sound(r)
  BY <1>3 DEF Sound, InHand, At, PassAt
<1>5. lock \in Entries(Replicas, LockTtl)
  BY DEF Init, Absent, Entries
<1>6. spent \in [incidents: 0..setup.incidents, retries: 0..setup.retries]
  BY DEF Init, SetupType
<1>7. got \in [Events -> [1..Len(Listeners) -> 0..Often]]
  BY DEF Init, Often
<1>8. row \in [Events -> [published: BOOLEAN, failed: BOOLEAN, attempts: Nat]]
  BY DEF Init
<1>9. /\ setup \in Setups /\ issued \in 0..N /\ occurred \in [Events -> Nat] /\ tx \in [Services -> SUBSET Events]
      /\ units \subseteq SUBSET Events /\ stop \subseteq Replicas
      /\ past \in [Events -> {"clean", "failed", "recorded"}] /\ excused \subseteq Events
  BY DEF Init
<1> QED
  BY <1>2, <1>4, <1>5, <1>6, <1>7, <1>8, <1>9 DEF TypeOK, Sound

\* A row with its attempts counted or reset, or with a mark.
RowType == [published: BOOLEAN, failed: BOOLEAN, attempts: Nat]

\* Services and the operator.
LEMMA ServiceTypes ==
    ASSUME TypeOK, NEW s \in Services, Store(s) \/ Commit(s) \/ Rollback(s)
    PROVE  TypeOK'
<1> USE OutboxAssumption
<1>1. relay' = relay /\ units \subseteq units'
  BY DEF Store, Commit, Rollback
<1>2. Passing' /\ \A q \in Replicas : Sound(q)'
  BY <1>1, SoundKept
<1>3. issued' \in 0..N /\ tx' \in [Services -> SUBSET Events] /\ units' \subseteq SUBSET Events
  <2>1. tx \in [Services -> SUBSET Events] /\ units \subseteq SUBSET Events /\ issued \in 0..N
    BY DEF TypeOK
  <2>2. CASE Store(s)
    <3>1. issued + 1 \in Events /\ issued' \in 0..N /\ units' = units
      BY <2>1, <2>2 DEF Store, Events
    <3>2. tx' \in [Services -> SUBSET Events]
      BY <2>1, <2>2, <3>1 DEF Store
    <3> QED
      BY <2>1, <3>1, <3>2
  <2>3. CASE Commit(s)
    BY <2>1, <2>3 DEF Commit
  <2>4. CASE Rollback(s)
    BY <2>1, <2>4 DEF Rollback
  <2> QED
    BY <2>2, <2>3, <2>4
<1>4. occurred' \in [Events -> Nat]
  <2>1. CASE Store(s)
    <3>1. setup.stamps[issued + 1] \subseteq Nat
      <4>1. issued + 1 \in Events /\ setup \in SetupType
        BY <2>1 DEF Store, Events, TypeOK
      <4> QED
        BY <4>1 DEF SetupType
    <3>2. PICK at \in Nat : occurred' = [occurred EXCEPT ![issued + 1] = at]
      BY <2>1, <3>1, ZenonT(30) DEF Store
    <3> QED
      BY <3>2, ZenonT(30) DEF TypeOK
  <2>2. CASE Commit(s) \/ Rollback(s)
    BY <2>2 DEF Commit, Rollback, TypeOK
  <2> QED
    BY <2>1, <2>2
<1> QED
  BY <1>1, <1>2, <1>3, <1>4 DEF TypeOK, Sound, Store, Commit, Rollback

\* Retry writes one row.
LEMMA RetryTypes ==
    ASSUME TypeOK, NEW e \in Events, Retry(e)
    PROVE  TypeOK'
<1>1. Passing' /\ \A q \in Replicas : Sound(q)'
  BY SoundKept DEF Retry
<1>2. row' \in [Events -> RowType]
  BY ZenonT(20) DEF TypeOK, Retry, RowType
<1>3. spent' \in [incidents: 0..setup.incidents, retries: 0..setup.retries]
  <2>1. setup.retries \in Nat /\ setup.incidents \in Nat
    BY OutboxAssumption DEF TypeOK, SetupType
  <2>2. spent \in [incidents: 0..setup.incidents, retries: 0..setup.retries]
    BY DEF TypeOK
  <2>3. spent.retries < setup.retries /\ spent' = [spent EXCEPT !.retries = @ + 1]
    BY DEF Retry
  <2> QED
    BY <2>1, <2>2, <2>3
<1> QED
  BY <1>1, <1>2, <1>3 DEF TypeOK, Sound, Retry, RowType

\* Incidents stay within their bound.
LEMMA IncidentTypes ==
    ASSUME TypeOK, Incident
    PROVE  spent' \in [incidents: 0..setup.incidents, retries: 0..setup.retries]
<1>1. setup.retries \in Nat /\ setup.incidents \in Nat
  BY OutboxAssumption DEF TypeOK, SetupType
<1>2. spent \in [incidents: 0..setup.incidents, retries: 0..setup.retries]
  BY DEF TypeOK
<1> QED
  BY <1>1, <1>2 DEF Incident

\* A step of the relay that writes neither rows nor what listeners received.
LEMMA PassTypes ==
    ASSUME TypeOK, NEW r \in Replicas, Pass(r) \/ Release(r) \/ Stopped(r) \/ Start(r)
    PROVE  TypeOK'
<1> USE OutboxAssumption
<1>1. ASSUME Pass(r) PROVE TypeOK'
  <2>1. /\ Passing'
        /\ Is(r, "read", relay[r].batch, relay[r].event, relay[r].todo)
    BY <1>1, GotoMoves DEF Pass, Ats
  <2>2. \A q \in Replicas : Sound(q)'
    BY <1>1, <2>1, OthersSound, ZenonT(15) DEF Pass, TypeOK, InHand
  <2>3. lock' \in Entries(Replicas, LockTtl)
    BY <1>1 DEF Pass, TypeOK, Entries, Taken
  <2> QED
    BY <1>1, <2>1, <2>2, <2>3 DEF Pass, TypeOK, Sound
<1>2. ASSUME Release(r) PROVE TypeOK'
  <2>1. /\ Passing'
        /\ Is(r, "idle", relay[r].batch, relay[r].event, relay[r].todo)
    BY <1>2, GotoMoves DEF Release, Ats
  <2>2. \A q \in Replicas : Sound(q)'
    BY <1>2, <2>1, OthersSound, ZenonT(15) DEF Release, TypeOK, InHand
  <2>3. lock' \in Entries(Replicas, LockTtl)
    BY <1>2, SMTT(30) DEF Release, TypeOK, Entries, ReleasedBy, Absent
  <2> QED
    BY <1>2, <2>1, <2>2, <2>3 DEF Release, TypeOK, Sound
<1>3. ASSUME Stopped(r) \/ Start(r) PROVE TypeOK'
  <2>1. PICK at \in {"idle", "down"} : Becomes(r, Empty(at))
    BY <1>3 DEF Stopped, Start
  <2>2. Passing' /\ Is(r, at, Nothing, 0, {})
    BY <2>1, EmptyMoves DEF Ats
  <2>3. \A q \in Replicas : Sound(q)'
    BY <1>3, <2>2, OthersSound DEF Stopped, Start, Nothing
  <2> QED
    BY <1>3, <2>2, <2>3 DEF Stopped, Start, TypeOK, Sound
<1> QED
  BY <1>1, <1>2, <1>3

\* What Read puts in hand.
LEMMA ReadMoves ==
    ASSUME TypeOK, NEW r \in Replicas, Read(r)
    PROVE  \E pending \in SUBSET Rows :
             /\ pending \subseteq Events
             /\ r \in stop => pending = {}
             /\ r \notin stop => pending \in PendingAll(setup.batch)
             /\ Passing'
             /\ Is(r, "next", [e \in pending |-> row[e].attempts], 0, {})
             /\ excused' = IF Holder(lock) = r THEN excused ELSE excused \union pending
<1>1. PICK pending \in IF r \in stop THEN {{}} ELSE PendingAll(setup.batch) :
        /\ Becomes(r, PassAt("next", [e \in pending |-> row[e].attempts], 0, {}))
        /\ excused' = IF Holder(lock) = r THEN excused ELSE excused \union pending
  BY Zenon DEF Read
<1>2. Rows \subseteq Events
  BY DEF TypeOK, Rows
<1>3. /\ pending \subseteq Rows
      /\ r \in stop => pending = {}
      /\ r \notin stop => pending \in PendingAll(setup.batch)
  BY <1>1 DEF PendingAll, Pending
<1>4. [e \in pending |-> row[e].attempts] \in [pending -> Nat]
  BY <1>2, <1>3 DEF TypeOK
<1>5. pending \in SUBSET Events /\ 0 \in 0..N /\ "next" \in Ats
  BY <1>2, <1>3, OutboxAssumption DEF Ats
<1>6. /\ Passing'
      /\ Is(r, "next", [e \in pending |-> row[e].attempts], 0, {})
  BY <1>1, <1>4, <1>5, Moves
<1> QED
  BY <1>1, <1>3, <1>5, <1>6, Zenon

\* What the head of the loop takes from the batch.
LEMMA NextMoves ==
    ASSUME TypeOK, NEW r \in Replicas, NextEvent(r)
    PROVE  /\ Passing'
           /\ \/ Is(r, "release", Nothing, 0, {})
              \/ \E e \in Events : Oldest(InHand(r), e) /\ Is(r, "publish", relay[r].batch, e, Answering(e))
<1>1. CASE Abandon(r)
  BY <1>1, EmptyMoves DEF Abandon, Ats
<1>2. CASE ~Abandon(r)
  <2>1. PICK e \in Events : /\ Oldest(InHand(r), e)
                            /\ Becomes(r, PassAt("publish", relay[r].batch, e, Answering(e)))
    BY <1>2 DEF NextEvent
  <2>2. e \in 0..N /\ "publish" \in Ats /\ Answering(e) \in SUBSET (1..Len(Listeners))
    BY OutboxAssumption DEF Events, Ats, Answering
  <2>3. Passing' /\ Is(r, "publish", relay[r].batch, e, Answering(e))
    BY <2>1, <2>2, PassFields, Moves, ZenonT(15)
  <2> QED
    BY <2>1, <2>3
<1> QED
  BY <1>1, <1>2

\* What one listener takes.
LEMMA PublishMoves ==
    ASSUME TypeOK, NEW r \in Replicas, Publish(r)
    PROVE  \E l \in relay[r].todo :
             /\ Passing'
             /\ Is(r, "publish", relay[r].batch, relay[r].event, relay[r].todo \ {l})
             /\ got' = [got EXCEPT ![relay[r].event][l] = IF @ < Often THEN @ + 1 ELSE @]
<1>1. PICK l \in 1..Len(Listeners) :
        /\ First(relay[r].todo, l)
        /\ got' = [got EXCEPT ![relay[r].event][l] = IF @ < Often THEN @ + 1 ELSE @]
        /\ Becomes(r, PassAt("publish", relay[r].batch, relay[r].event, relay[r].todo \ {l}))
  BY Zenon DEF Publish
<1>2. l \in relay[r].todo /\ "publish" \in Ats
  BY <1>1 DEF First, Ats
<1>3. relay[r].todo \ {l} \in SUBSET (1..Len(Listeners))
  BY PassFields
<1>4. Passing' /\ Is(r, "publish", relay[r].batch, relay[r].event, relay[r].todo \ {l})
  BY <1>1, <1>2, <1>3, PassFields, Moves, Zenon
<1> QED
  BY <1>1, <1>2, <1>4, Zenon

\* One more receipt, up to Often.
LEMMA GotMoves ==
    ASSUME TypeOK, NEW e \in Events, NEW l \in 1..Len(Listeners),
           got' = [got EXCEPT ![e][l] = IF @ < Often THEN @ + 1 ELSE @]
    PROVE  /\ got' \in [Events -> [1..Len(Listeners) -> 0..Often]]
           /\ got'[e][l] = IF got[e][l] < Often THEN got[e][l] + 1 ELSE got[e][l]
           /\ \A f \in Events, m \in 1..Len(Listeners) : f # e \/ m # l => got'[f][m] = got[f][m]
<1>1. got \in [Events -> [1..Len(Listeners) -> 0..2]]
  BY DEF TypeOK, Often
<1> QED
  BY <1>1, SMTT(30) DEF Often

\* The event in hand.
LEMMA InHandEvent ==
    ASSUME TypeOK, NEW r \in Replicas, At(r, "publish") \/ At(r, "fail")
    PROVE  /\ relay[r].event \in InHand(r) /\ relay[r].event \in Events
           /\ relay[r].batch[relay[r].event] \in Nat
<1>1. relay[r].event \in InHand(r)
  BY DEF TypeOK
<1> QED
  BY <1>1, PassFields

\* A read takes committed rows only, and the loop picks one of them.
LEMMA ReadTypes ==
    ASSUME TypeOK, NEW r \in Replicas, Read(r) \/ NextEvent(r)
    PROVE  TypeOK'
<1>1. ASSUME Read(r) PROVE TypeOK'
  <2>1. PICK pending \in SUBSET Rows :
          /\ pending \subseteq Events
          /\ Passing'
          /\ Is(r, "next", [e \in pending |-> row[e].attempts], 0, {})
          /\ excused' = IF Holder(lock) = r THEN excused ELSE excused \union pending
    BY <1>1, ReadMoves
  <2>2. \A q \in Replicas : Sound(q)'
    BY <1>1, <2>1, OthersSound DEF Read
  <2>3. excused' \subseteq Events
    BY <2>1, ZenonT(15) DEF TypeOK
  <2> QED
    BY <1>1, <2>1, <2>2, <2>3 DEF Read, TypeOK, Sound
<1>2. ASSUME NextEvent(r) PROVE TypeOK'
  <2>1. Passing'
    BY <1>2, NextMoves
  <2>2. units' = units /\ InHand(r) \subseteq Rows
    BY <1>2 DEF NextEvent, TypeOK
  <2>3. \A q \in Replicas : Sound(q)'
    <3>1. CASE Is(r, "release", Nothing, 0, {})
      BY <2>2, <3>1, OthersSound DEF Nothing
    <3>2. CASE \E e \in Events : Oldest(InHand(r), e) /\ Is(r, "publish", relay[r].batch, e, Answering(e))
      <4>1. PICK e \in Events : Oldest(InHand(r), e) /\ Is(r, "publish", relay[r].batch, e, Answering(e))
        BY <3>2
      <4>2. e \in DOMAIN relay[r].batch /\ DOMAIN relay[r].batch \subseteq Rows
        BY <2>2, <4>1 DEF Oldest, InHand
      <4> QED
        BY <2>2, <4>1, <4>2, OthersSound
    <3> QED
      BY <1>2, NextMoves, <3>1, <3>2
  <2> QED
    BY <1>2, <2>1, <2>3 DEF NextEvent, TypeOK, Sound
<1> QED
  BY <1>1, <1>2, SMTT(30)

\* A delivery counts one receipt, or notes a failure.
LEMMA PublishTypes ==
    ASSUME TypeOK, NEW r \in Replicas, Publish(r) \/ PublishFails(r)
    PROVE  TypeOK'
<1>1. At(r, "publish")
  BY DEF Publish, PublishFails
<1>2. relay[r].event \in InHand(r) /\ relay[r].event \in Events
  BY <1>1, InHandEvent, ZenonT(15)
<1>3. DOMAIN relay[r].batch \subseteq Rows /\ relay[r].event \in DOMAIN relay[r].batch
  BY <1>2, ZenonT(15) DEF TypeOK, InHand
<1>4. ASSUME Publish(r) PROVE TypeOK'
  <2>1. PICK l \in relay[r].todo :
          /\ Passing'
          /\ Is(r, "publish", relay[r].batch, relay[r].event, relay[r].todo \ {l})
          /\ got' = [got EXCEPT ![relay[r].event][l] = IF @ < Often THEN @ + 1 ELSE @]
    BY <1>4, PublishMoves, ZenonT(30)
  <2>2. l \in 1..Len(Listeners)
    BY PassFields
  <2>3. got' \in [Events -> [1..Len(Listeners) -> 0..Often]]
    BY <1>2, <2>1, <2>2, GotMoves, Zenon
  <2>4. \A q \in Replicas : Sound(q)'
    BY <1>3, <1>4, <2>1, OthersSound, ZenonT(15) DEF Publish
  <2> QED
    BY <1>4, <2>1, <2>3, <2>4, Zenon DEF Publish, TypeOK, Sound
<1>5. ASSUME PublishFails(r) PROVE TypeOK'
  <2>1. /\ Passing'
        /\ Is(r, "fail", relay[r].batch, relay[r].event, relay[r].todo)
    BY <1>5, GotoMoves, ZenonT(15) DEF PublishFails, Ats
  <2>2. past' \in [Events -> {"clean", "failed", "recorded"}]
    BY <1>2, <1>5, ZenonT(15) DEF PublishFails, TypeOK
  <2>3. \A q \in Replicas : Sound(q)'
    BY <1>3, <1>5, <2>1, OthersSound, ZenonT(15) DEF PublishFails
  <2> QED
    BY <1>5, <2>1, <2>2, <2>3, ZenonT(15) DEF PublishFails, TypeOK, Sound
<1> QED
  BY <1>4, <1>5, ZenonT(15)

\* What is left of a batch was in it.
LEMMA RestSound ==
    ASSUME TypeOK, NEW r \in Replicas
    PROVE  DOMAIN Rest(r) = InHand(r) \ {relay[r].event} /\ DOMAIN Rest(r) \subseteq Rows
  BY ZenonT(15) DEF Rest, TypeOK

\* The rows of a failure and of a mark.
LEMMA FailureRow ==
    ASSUME TypeOK, NEW r \in Replicas, RecordFailure(r), r \notin stop
    PROVE  LET e == relay[r].event IN
           /\ e \in Events /\ e \in InHand(r)
           /\ row' \in [Events -> RowType]
           /\ row'[e].published = row[e].published /\ row'[e].attempts = row[e].attempts + 1
           /\ row'[e].failed = (row[e].failed \/ LastAttempt(relay[r].batch[e]))
           /\ \A f \in Events \ {e} : row'[f] = row[f]
           /\ past'[e] = "recorded"
           /\ \A f \in Events \ {e} : past'[f] = past[f]
           /\ past' \in [Events -> {"clean", "failed", "recorded"}]
<1> DEFINE e == relay[r].event
<1>1. e \in Events /\ e \in InHand(r)
  BY InHandEvent DEF RecordFailure
<1>2. row' = [row EXCEPT ![e] =
          [published |-> row[e].published, attempts |-> row[e].attempts + 1,
           failed |-> row[e].failed \/ LastAttempt(relay[r].batch[e])]]
  BY DEF RecordFailure
<1>3. past' = [past EXCEPT ![e] = "recorded"]
  BY DEF RecordFailure
<1>4. row \in [Events -> RowType] /\ past \in [Events -> {"clean", "failed", "recorded"}]
  BY DEF TypeOK, RowType
<1>5. (row[e].failed \/ LastAttempt(relay[r].batch[e])) \in BOOLEAN
  OBVIOUS
<1> HIDE DEF e
<1>6. [published |-> row[e].published, attempts |-> row[e].attempts + 1,
       failed |-> row[e].failed \/ LastAttempt(relay[r].batch[e])] \in RowType
  BY <1>1, <1>4, <1>5 DEF RowType
<1>7. row' \in [Events -> RowType] /\ \A f \in Events \ {e} : row'[f] = row[f]
  BY <1>1, <1>2, <1>4, <1>6
<1>8. row'[e] = [published |-> row[e].published, attempts |-> row[e].attempts + 1,
                 failed |-> row[e].failed \/ LastAttempt(relay[r].batch[e])]
  BY <1>1, <1>2, <1>4
<1>9. /\ past'[e] = "recorded" /\ \A f \in Events \ {e} : past'[f] = past[f]
      /\ past' \in [Events -> {"clean", "failed", "recorded"}]
  BY <1>1, <1>3, <1>4, ZenonT(15)
<1>10. /\ row'[e].published = row[e].published /\ row'[e].attempts = row[e].attempts + 1
       /\ row'[e].failed = (row[e].failed \/ LastAttempt(relay[r].batch[e]))
  BY <1>8, SMTT(20)
<1> QED
  BY <1>1, <1>7, <1>9, <1>10 DEF e

\* The row of a mark.
LEMMA MarkRow ==
    ASSUME TypeOK, NEW r \in Replicas, MarkPublished(r)
    PROVE  LET e == relay[r].event IN
           /\ e \in Events /\ e \in InHand(r)
           /\ row' \in [Events -> RowType]
           /\ row'[e].published /\ row'[e].failed = row[e].failed /\ row'[e].attempts = row[e].attempts
           /\ \A f \in Events \ {e} : row'[f] = row[f]
<1>1. relay[r].event \in Events /\ relay[r].event \in InHand(r)
  BY InHandEvent DEF MarkPublished
<1>2. row \in [Events -> RowType]
  BY DEF TypeOK, RowType
<1>3. row' = [row EXCEPT ![relay[r].event].published = TRUE]
  BY DEF MarkPublished
<1> QED
  BY <1>1, <1>2, <1>3, Zenon DEF RowType

\* Recording a failure and marking write one row.
LEMMA WriteTypes ==
    ASSUME TypeOK, NEW r \in Replicas, RecordFailure(r) \/ MarkPublished(r)
    PROVE  TypeOK'
<1>1. DOMAIN Rest(r) \subseteq Rows /\ DOMAIN Nothing \subseteq Rows
  BY RestSound, Zenon DEF Nothing
<1>2. ASSUME RecordFailure(r), r \in stop PROVE TypeOK'
  <2>1. Passing' /\ Is(r, "release", Nothing, 0, {})
    BY <1>2, EmptyMoves DEF RecordFailure, Abandon, Ats
  <2>2. \A q \in Replicas : Sound(q)'
    BY <1>1, <1>2, <2>1, OthersSound, ZenonT(15) DEF RecordFailure
  <2> QED
    BY <1>2, <2>1, <2>2, Zenon DEF RecordFailure, TypeOK, Sound
<1>3. ASSUME RecordFailure(r), r \notin stop PROVE TypeOK'
  <2>1. Passing' /\ Is(r, "next", Rest(r), 0, {})
    BY <1>3, AdvanceMoves DEF RecordFailure
  <2>2. \A q \in Replicas : Sound(q)'
    BY <1>1, <1>3, <2>1, OthersSound, ZenonT(15) DEF RecordFailure
  <2>3. row' \in [Events -> RowType] /\ past' \in [Events -> {"clean", "failed", "recorded"}]
    BY <1>3, FailureRow
  <2>4. UNCHANGED <<setup, issued, occurred, tx, units, lock, stop, got, excused, spent>>
    BY <1>3, ZenonT(15) DEF RecordFailure
  <2> QED
    BY <2>1, <2>2, <2>3, <2>4, ZenonT(15) DEF TypeOK, Sound, RowType
<1>4. ASSUME MarkPublished(r) PROVE TypeOK'
  <2>1. Passing' /\ Is(r, "next", Rest(r), 0, {})
    BY <1>4, AdvanceMoves DEF MarkPublished
  <2>2. \A q \in Replicas : Sound(q)'
    BY <1>1, <1>4, <2>1, OthersSound, ZenonT(15) DEF MarkPublished
  <2>3. row' \in [Events -> RowType]
    BY <1>4, MarkRow
  <2>4. UNCHANGED <<setup, issued, occurred, tx, units, lock, stop, got, past, excused, spent>>
    BY <1>4, ZenonT(15) DEF MarkPublished
  <2> QED
    BY <2>1, <2>2, <2>3, <2>4, Zenon DEF TypeOK, Sound, RowType
<1> QED
  BY <1>2, <1>3, <1>4

\* A statement that fails and a crash end the pass, or its release.
LEMMA FaultMoves ==
    ASSUME TypeOK, NEW r \in Replicas, StatementFails(r) \/ Crash(r)
    PROVE  /\ Passing'
           /\ \/ \E at \in {"release", "down"} : Is(r, at, Nothing, 0, {})
              \/ At(r, "release") /\ Is(r, "idle", relay[r].batch, relay[r].event, relay[r].todo)
           /\ excused \subseteq excused' /\ excused' \subseteq Events
           /\ At(r, "publish") => relay[r].event \in excused'
<1>1. At(r, "publish") => relay[r].event \in Events
  BY InHandEvent, ZenonT(15)
<1>2. /\ excused \subseteq excused' /\ excused' \subseteq Events
      /\ At(r, "publish") => relay[r].event \in excused'
  BY <1>1 DEF StatementFails, Crash, TypeOK, At
<1>3. CASE Abandon(r)
  BY <1>2, <1>3, EmptyMoves, ZenonT(15) DEF Abandon, Ats
<1>4. CASE Crash(r)
  BY <1>2, <1>4, EmptyMoves, ZenonT(15) DEF Crash, Ats
<1>5. CASE At(r, "release") /\ Goto(r, "idle")
  BY <1>2, <1>5, GotoMoves DEF Ats
<1>6. Abandon(r) \/ Crash(r) \/ (At(r, "release") /\ Goto(r, "idle"))
  BY DEF StatementFails
<1> QED
  BY <1>3, <1>4, <1>5, <1>6, ZenonT(15)

\* Accidents and Close end passes, they write no row.
LEMMA FaultTypes ==
    ASSUME TypeOK, NEW r \in Replicas, StatementFails(r) \/ Crash(r) \/ Close(r)
    PROVE  TypeOK'
<1>1. spent' \in [incidents: 0..setup.incidents, retries: 0..setup.retries]
  BY IncidentTypes, ZenonT(15) DEF StatementFails, Crash, Close
<1>2. ASSUME StatementFails(r) \/ Crash(r) PROVE TypeOK'
  <2>1. Passing' /\ excused' \subseteq Events
    BY <1>2, FaultMoves, ZenonT(15)
  <2>2. units' = units /\ InHand(r) \subseteq Rows
    BY <1>2, ZenonT(15) DEF StatementFails, Crash, TypeOK
  <2>3. \A q \in Replicas : Sound(q)'
    <3>1. CASE \E at \in {"release", "down"} : Is(r, at, Nothing, 0, {})
      BY <2>2, <3>1, OthersSound DEF Nothing
    <3>2. CASE Is(r, "idle", relay[r].batch, relay[r].event, relay[r].todo)
      BY <2>2, <3>2, OthersSound, ZenonT(15) DEF InHand
    <3> QED
      BY <1>2, FaultMoves, <3>1, <3>2
  <2>4. UNCHANGED <<setup, issued, occurred, tx, units, row, lock, stop, got, past>>
    BY <1>2 DEF StatementFails, Crash
  <2> QED
    BY <1>1, <2>1, <2>3, <2>4, ZenonT(15) DEF TypeOK, Sound
<1>3. ASSUME Close(r) PROVE TypeOK'
  <2>1. Passing' /\ \A q \in Replicas : Sound(q)'
    BY <1>3, SoundKept DEF Close
  <2> QED
    BY <1>1, <1>3, <2>1 DEF Close, TypeOK, Sound
<1> QED
  BY <1>2, <1>3, ZenonT(15)

\* Time only touches the lock.
LEMMA TimeTypes ==
    ASSUME TypeOK, Elapse \/ Overrun
    PROVE  TypeOK'
<1>1. Passing' /\ \A q \in Replicas : Sound(q)'
  BY SoundKept DEF Elapse, Overrun
<1>2. lock' \in Entries(Replicas, LockTtl)
  <2>1. lock \in [owner: Replicas \union {None}, left: 0..LockTtl] /\ LockTtl \in Nat
    BY OutboxAssumption DEF TypeOK, Entries
  <2>2. lock' = [lock EXCEPT !.left = IF @ > 0 THEN @ - 1 ELSE 0]
    BY ZenonT(15) DEF Elapse, Overrun, Elapsed
  <2> QED
    BY <2>1, <2>2 DEF Entries
<1>3. ASSUME Elapse PROVE TypeOK'
  BY <1>1, <1>2, <1>3, ZenonT(15) DEF Elapse, TypeOK, Sound
<1>4. ASSUME Overrun PROVE TypeOK'
  <2>1. lock.owner \in Replicas
    BY <1>4, ZenonT(15) DEF Overrun, Live, Present, TypeOK, Entries
  <2>2. excused' \subseteq Events
    BY <1>4, <2>1, PassFields DEF Overrun, TypeOK
  <2>3. spent' \in [incidents: 0..setup.incidents, retries: 0..setup.retries]
    BY <1>4, IncidentTypes DEF Overrun
  <2> QED
    BY <1>1, <1>2, <1>4, <2>2, <2>3 DEF Overrun, TypeOK, Sound
<1> QED
  BY <1>3, <1>4

\* Nothing happens.
LEMMA StillTypes ==
    ASSUME TypeOK, UNCHANGED vars
    PROVE  TypeOK'
<1>1. Passing' /\ \A q \in Replicas : Sound(q)'
  BY SoundKept DEF vars
<1> QED
  BY <1>1 DEF vars, TypeOK, Sound

\* Every variable of the services, the relays and the lock keeps its type, what
\* a pass has in hand was committed, and the event it delivers is in its batch.
THEOREM OutboxTypes == Spec => []TypeOK
<1>1. TypeOK /\ [Next]_vars => TypeOK'
  BY ServiceTypes, RetryTypes, PassTypes, ReadTypes, PublishTypes, WriteTypes, FaultTypes, ZenonT(15),
     TimeTypes, StillTypes DEF Next, Step
<1> QED
  BY InitTypes, <1>1, PTL DEF Spec

----------------------------------------------------------------------------
(* What listeners received, and in which order                              *)

Received(e) == \A l \in 1..Len(Listeners) : e \in Listeners[l] => got[e][l] > 0
Passed(e) == past[e] = "recorded" \/ Received(e)

\* Ids are given out once: what a transaction holds is nobody else's.
Issued ==
    /\ \A s \in Services : tx[s] \subseteq 1..issued
    /\ \A u \in units : u \subseteq 1..issued
    /\ \A s \in Services, u \in units : tx[s] \intersect u = {}
    /\ \A s, t \in Services : s # t => tx[s] \intersect tx[t] = {}

\* A pass serves its batch from the oldest event on: whoever answers the event
\* in hand is still to get it or has it, it is the oldest of the batch, and what
\* comes before an event of the batch is in the batch too or got past.
Serves(r) ==
    /\ At(r, "publish") =>
         \A l \in 1..Len(Listeners) :
            relay[r].event \in Listeners[l] => l \in relay[r].todo \/ got[relay[r].event][l] > 0
    /\ At(r, "publish") \/ At(r, "fail") => Oldest(InHand(r), relay[r].event)
    /\ \A u \in units : \A e, f \in u :
         f \in InHand(r) /\ Before(e, f) => e \in InHand(r) \/ Passed(e)

\* The rows and the receipts.
Settles ==
    /\ \A e \in Events : row[e].published => Received(e)
    /\ \A e \in Events : row[e].failed => past[e] = "recorded"
    /\ \A e \in Events, l \in 1..Len(Listeners) : got[e][l] > 0 => e \in Rows
    /\ \A u \in units : \A e, f \in u :
         Before(e, f) /\ (\E l \in 1..Len(Listeners) : got[f][l] > 0) => Passed(e)

StreamInv == Issued /\ Settles /\ \A r \in Replicas : Serves(r)

\* The strengthening contains both properties.
LEMMA StreamInvImplies == StreamInv => PublishedMeansReceived /\ OldestFirst
  BY DEF StreamInv, Settles, PublishedMeansReceived, OldestFirst, LeavesBefore, Received, Passed

\* Nothing is stored, in hand or received at first.
LEMMA InitStream == Init => StreamInv
<1> SUFFICES ASSUME Init PROVE StreamInv
  OBVIOUS
<1>1. \A r \in Replicas : relay[r].at = "idle"
  BY DEF Init, Empty, PassAt
<1>2. units = {} /\ \A s \in Services : tx[s] = {}
  BY DEF Init
<1>3. Issued
  BY <1>2 DEF Issued
<1>4. \A e \in Events : ~row[e].published /\ ~row[e].failed
  BY DEF Init
<1>5. \A e \in Events, l \in 1..Len(Listeners) : got[e][l] = 0
  BY DEF Init
<1>6. Settles
  BY <1>2, <1>4, <1>5 DEF Settles
<1>7. \A r \in Replicas : Serves(r)
  BY <1>1, <1>2 DEF Serves, At
<1> QED
  BY <1>3, <1>6, <1>7 DEF StreamInv

\* Receipts and recorded failures are never taken back.
Grows ==
    \A e \in Events :
        /\ \A l \in 1..Len(Listeners) : got'[e][l] >= got[e][l]
        /\ past[e] = "recorded" => past'[e] = "recorded"

\* Receipts stay, and so do recorded failures.
LEMMA PastGrows ==
    ASSUME TypeOK, got' = got, \A e \in Events : past[e] = "recorded" => past'[e] = "recorded"
    PROVE  Grows
<1>1. got \in [Events -> [1..Len(Listeners) -> 0..2]]
  BY DEF TypeOK, Often
<1>2. \A e \in Events, l \in 1..Len(Listeners) : got[e][l] \in 0..2
  BY <1>1
<1> QED
  BY <1>2 DEF Grows

\* A step that delivers and records nothing.
LEMMA StillGrows ==
    ASSUME TypeOK, got' = got, past' = past
    PROVE  Grows
  BY PastGrows

\* A receipt count never falls.
LEMMA Receipts ==
    ASSUME TypeOK, TypeOK', Grows, NEW e \in Events, NEW l \in 1..Len(Listeners)
    PROVE  got[e][l] \in Nat /\ got'[e][l] \in Nat /\ got'[e][l] >= got[e][l]
<1>1. got \in [Events -> [1..Len(Listeners) -> 0..2]]
  BY ZenonT(15) DEF TypeOK, Often
<1>2. got' \in [Events -> [1..Len(Listeners) -> 0..2]]
  BY DEF TypeOK, Often
<1>3. got'[e][l] >= got[e][l]
  BY DEF Grows
<1> QED
  BY <1>1, <1>2, <1>3, SMTT(30)

\* What everybody received, or was recorded as failed, stays so.
LEMMA ReceivedKept ==
    ASSUME TypeOK, TypeOK', Grows, NEW e \in Events
    PROVE  /\ Received(e) => Received(e)'
           /\ Passed(e) => Passed(e)'
<1>1. \A l \in 1..Len(Listeners) : got[e][l] \in Nat /\ got'[e][l] \in Nat /\ got'[e][l] >= got[e][l]
  BY Receipts
<1>2. Received(e) => Received(e)'
  BY <1>1 DEF Received
<1> QED
  BY <1>2 DEF Passed, Grows

\* Committed transactions consist of events.
LEMMA UnitEvents ==
    ASSUME TypeOK
    PROVE  /\ \A u \in units : u \subseteq Events /\ u \subseteq Rows
           /\ Rows \subseteq Events
  BY ZenonT(15) DEF TypeOK, Rows

\* The order of the rows is strict: none comes before itself, and no two before
\* each other.
LEMMA InOrder ==
    ASSUME TypeOK, NEW e \in Events, NEW f \in Events, Before(e, f)
    PROVE  e # f /\ ~Before(f, e)
<1>1. occurred[e] \in Nat /\ occurred[f] \in Nat /\ e \in Nat /\ f \in Nat
  BY OutboxAssumption DEF TypeOK, Events
<1> QED
  BY <1>1 DEF Before

\* The rows there are keep their order.
SameOrder == \A e, f \in Rows : Before(e, f)' <=> Before(e, f)

\* No statement writes the occurred_at of a row.
LEMMA OrderKept ==
    ASSUME occurred' = occurred
    PROVE  \A e, f : Before(e, f)' <=> Before(e, f)
  BY Zenon DEF Before

\* A pass that did not change.
LEMMA ServesKept ==
    ASSUME TypeOK, TypeOK', Grows, units' = units, SameOrder, NEW q \in Replicas, Serves(q), relay'[q] = relay[q]
    PROVE  Serves(q)'
<1>1. ASSUME At(q, "publish")', NEW l \in 1..Len(Listeners), relay'[q].event \in Listeners[l]
      PROVE  l \in relay'[q].todo \/ got'[relay'[q].event][l] > 0
  <2>1. At(q, "publish") /\ relay[q].event \in Listeners[l]
    BY <1>1 DEF At
  <2>2. relay[q].event \in Events
    BY <2>1, InHandEvent, ZenonT(15)
  <2>3. l \in relay[q].todo \/ got[relay[q].event][l] > 0
    BY <2>1, ZenonT(15) DEF Serves
  <2>4. /\ got'[relay[q].event][l] >= got[relay[q].event][l]
        /\ got[relay[q].event][l] \in Nat /\ got'[relay[q].event][l] \in Nat
    BY <2>2, Receipts
  <2> QED
    BY <2>3, <2>4
<1>2. (At(q, "publish") \/ At(q, "fail") => Oldest(InHand(q), relay[q].event))'
  <2>1. InHand(q) \subseteq Rows
    BY ZenonT(15) DEF TypeOK
  <2> QED
    BY <2>1, ZenonT(15) DEF Serves, At, InHand, Oldest, SameOrder
<1>3. ASSUME NEW u \in units, NEW e \in u, NEW f \in u, f \in InHand(q)', Before(e, f)'
      PROVE  e \in InHand(q)' \/ Passed(e)'
  <2>0. Before(e, f)
    BY <1>3, UnitEvents, ZenonT(15) DEF SameOrder
  <2>1. e \in InHand(q) \/ Passed(e)
    BY <1>3, <2>0, ZenonT(15) DEF Serves, InHand
  <2>2. e \in Events
    BY UnitEvents, ZenonT(15)
  <2> QED
    BY <2>1, <2>2, ReceivedKept, ZenonT(15) DEF InHand
<1> QED
  BY <1>1, <1>2, <1>3, ZenonT(15) DEF Serves

\* A step that publishes nothing, records no failure and parks nothing.
LEMMA SettlesKept ==
    ASSUME TypeOK, TypeOK', Settles, got' = got, past' = past, units' = units, SameOrder,
           \A e \in Events : (row'[e].published => row[e].published) /\ (row'[e].failed => row[e].failed)
    PROVE  Settles'
<1>1. Rows' = Rows
  BY ZenonT(15) DEF Rows
<1>2. \A e : Received(e)' = Received(e) /\ Passed(e)' = Passed(e)
  BY ZenonT(15) DEF Received, Passed
<1>3. \A e \in Events : row'[e].published => Received(e)'
  BY <1>2, ZenonT(15) DEF Settles
<1>4. \A e \in Events : row'[e].failed => past'[e] = "recorded"
  BY DEF Settles
<1>5. \A e \in Events, l \in 1..Len(Listeners) : got'[e][l] > 0 => e \in Rows'
  BY <1>1, ZenonT(15) DEF Settles
<1>6. \A u \in units' : \A e, f \in u :
         Before(e, f)' /\ (\E l \in 1..Len(Listeners) : got'[f][l] > 0) => Passed(e)'
  <2>1. \A u \in units : \A e, f \in u : Before(e, f)' <=> Before(e, f)
    BY UnitEvents, ZenonT(15) DEF SameOrder
  <2> QED
    BY <1>2, <2>1 DEF Settles
<1> QED
  BY <1>3, <1>4, <1>5, <1>6 DEF Settles

\* A pass that goes on without an event in hand, or ends.
LEMMA QuietStream ==
    ASSUME TypeOK, TypeOK', StreamInv, UNCHANGED <<tx, issued, occurred, units, row, got, past>>,
           NEW r \in Replicas, NEW at, NEW batch, NEW event, NEW todo,
           Is(r, at, batch, event, todo), at \notin {"publish", "fail"},
           batch = relay[r].batch \/ batch = Nothing
    PROVE  StreamInv'
<1>0. SameOrder /\ \A e, f : Before(e, f)' <=> Before(e, f)
  BY OrderKept, Zenon DEF SameOrder
<1>1. Grows
  BY StillGrows, ZenonT(15)
<1>2. \A q \in Replicas \ {r} : Serves(q)'
  BY <1>0, <1>1, ServesKept, ZenonT(15) DEF StreamInv, Is
<1>3. Serves(r)'
  <2>1. ~At(r, "publish")' /\ ~At(r, "fail")'
    BY ZenonT(15) DEF Is, At
  <2>2. ASSUME NEW u \in units, NEW e \in u, NEW f \in u, f \in InHand(r)', Before(e, f)
        PROVE  e \in InHand(r)' \/ Passed(e)'
    <3>1. InHand(r)' = DOMAIN batch
      BY ZenonT(15) DEF Is, InHand
    <3>2. batch = relay[r].batch
      BY <2>2, <3>1, ZenonT(15) DEF Nothing
    <3>3. e \in InHand(r) \/ Passed(e)
      BY <2>2, <3>1, <3>2 DEF StreamInv, Serves, InHand
    <3>4. e \in Events
      BY UnitEvents
    <3> QED
      BY <1>1, <3>1, <3>2, <3>3, <3>4, ReceivedKept, ZenonT(15) DEF InHand
  <2> QED
    BY <1>0, <2>1, <2>2, ZenonT(30) DEF Serves
<1>4. Settles'
  BY <1>0, SettlesKept, ZenonT(15) DEF StreamInv
<1>5. Issued'
  BY DEF StreamInv, Issued
<1> QED
  BY <1>2, <1>3, <1>4, <1>5 DEF StreamInv

\* A step that leaves the passes alone and puts at most an event back in line.
LEMMA AsideStream ==
    ASSUME TypeOK, TypeOK', StreamInv, UNCHANGED <<tx, issued, occurred, units, got, past, relay>>,
           \A e \in Events : (row'[e].published => row[e].published) /\ (row'[e].failed => row[e].failed)
    PROVE  StreamInv'
<1>0. SameOrder
  BY OrderKept, Zenon DEF SameOrder
<1>1. Grows
  BY StillGrows
<1>2. \A q \in Replicas : Serves(q)'
  BY <1>0, <1>1, ServesKept DEF StreamInv
<1>3. Settles'
  BY <1>0, SettlesKept DEF StreamInv
<1>4. Issued'
  BY DEF StreamInv, Issued
<1> QED
  BY <1>2, <1>3, <1>4 DEF StreamInv

\* Events of an open transaction are in nobody's hand.
LEMMA StoreStream ==
    ASSUME TypeOK, TypeOK', StreamInv, NEW s \in Services, Store(s) \/ Rollback(s)
    PROVE  StreamInv'
<1>1. UNCHANGED <<units, row, got, past, relay>>
  BY DEF Store, Rollback
<1>2. Grows
  BY <1>1, StillGrows
<1>0. SameOrder
  <2>1. occurred \in [Events -> Nat] /\ issued \in Nat /\ Rows \subseteq 1..issued /\ Rows \subseteq Events
    BY OutboxAssumption, UnitEvents, SMTT(20) DEF TypeOK, StreamInv, Issued, Rows
  <2>2. \A e \in Rows : occurred'[e] = occurred[e]
    <3>1. CASE Store(s)
      <4>1. PICK at : occurred' = [occurred EXCEPT ![issued + 1] = at]
        BY <3>1, ZenonT(30) DEF Store
      <4>2. issued + 1 \notin Rows
        BY <2>1
      <4> QED
        BY <2>1, <4>1, <4>2
    <3>2. CASE Rollback(s)
      BY <3>2 DEF Rollback
    <3> QED
      BY <3>1, <3>2
  <2> QED
    BY <2>2, Zenon DEF SameOrder, Before
<1>3. \A q \in Replicas : Serves(q)'
  BY <1>0, <1>1, <1>2, ServesKept DEF StreamInv
<1>4. Settles'
  BY <1>0, <1>1, SettlesKept DEF StreamInv
<1>5. Issued'
  <2>0. tx \in [Services -> SUBSET Events] /\ issued \in 0..N /\ Issued
    BY ZenonT(15) DEF TypeOK, StreamInv
  <2>1. tx \in [Services -> SUBSET Events] /\ issued \in Nat /\ Issued
    BY <2>0, OutboxAssumption
  <2>2. CASE Store(s)
    <3>1. issued' = issued + 1 /\ tx'[s] = tx[s] \union {issued + 1} /\ \A t \in Services \ {s} : tx'[t] = tx[t]
      BY <2>1, <2>2 DEF Store
    <3>2. issued + 1 \notin 1..issued /\ 1..issued \subseteq 1..(issued + 1) /\ issued + 1 \in 1..(issued + 1)
      BY <2>1
    <3> QED
      BY <1>1, <2>1, <3>1, <3>2, SMTT(20) DEF Issued
  <2>3. CASE Rollback(s)
    <3>1. issued' = issued /\ tx'[s] = {} /\ \A t \in Services \ {s} : tx'[t] = tx[t]
      BY <2>1, <2>3 DEF Rollback
    <3> QED
      BY <1>1, <2>1, <3>1 DEF Issued
  <2> QED
    BY <2>2, <2>3, ZenonT(15)
<1> QED
  BY <1>3, <1>4, <1>5 DEF StreamInv

\* A new unit holds events that nobody has in hand or received.
LEMMA CommitStream ==
    ASSUME TypeOK, TypeOK', StreamInv, NEW s \in Services, Commit(s)
    PROVE  StreamInv'
<1>1. UNCHANGED <<issued, occurred, row, got, past, relay>> /\ units' = units \union {tx[s]}
  BY ZenonT(15) DEF Commit
<1>0. \A e, f : Before(e, f)' <=> Before(e, f)
  BY <1>1, OrderKept, Zenon
<1>2. tx[s] \subseteq Events /\ tx[s] \intersect Rows = {}
  BY DEF StreamInv, Issued, Rows, TypeOK
<1>3. Rows \subseteq Rows'
  BY <1>1 DEF Rows
<1>4. \A e : Received(e)' = Received(e) /\ Passed(e)' = Passed(e)
  BY <1>1, ZenonT(15) DEF Received, Passed
<1>5. ASSUME NEW r \in Replicas PROVE Serves(r)'
  <2>1. Serves(r) /\ InHand(r) \subseteq Rows
    BY DEF StreamInv, TypeOK
  <2>2. InHand(r)' = InHand(r)
    BY <1>1, ZenonT(15) DEF InHand
  <2>3. ASSUME NEW u \in units', NEW e \in u, NEW f \in u, f \in InHand(r), Before(e, f)
        PROVE  e \in InHand(r) \/ Passed(e)
    <3>1. u \in units
      BY <1>1, <1>2, <2>1, <2>3, ZenonT(15)
    <3> QED
      BY <2>1, <2>3, <3>1, Zenon DEF Serves
  <2>4. (At(r, "publish") \/ At(r, "fail") => Oldest(InHand(r), relay[r].event))'
    BY <1>0, <1>1, <2>1, ZenonT(15) DEF Serves, At, InHand, Oldest
  <2>5. (At(r, "publish") =>
           \A l \in 1..Len(Listeners) :
              relay[r].event \in Listeners[l] => l \in relay[r].todo \/ got[relay[r].event][l] > 0)'
    BY <1>1, <2>1, ZenonT(15) DEF Serves, At
  <2> QED
    BY <1>0, <1>4, <2>2, <2>3, <2>4, <2>5, ZenonT(15) DEF Serves
<1>6. Settles'
  <2>1. Settles
    BY SMTT(30) DEF StreamInv
  <2>2. ASSUME NEW u \in units', NEW e \in u, NEW f \in u, Before(e, f),
               NEW l \in 1..Len(Listeners), got[f][l] > 0
        PROVE  Passed(e)
    <3>1. f \in Events
      BY <1>1, <1>2, <2>2, UnitEvents, ZenonT(15)
    <3>2. f \in Rows
      BY <2>1, <2>2, <3>1 DEF Settles
    <3>3. u \in units
      BY <1>1, <1>2, <2>2, <3>2, ZenonT(15)
    <3> QED
      BY <2>1, <2>2, <3>3 DEF Settles
  <2> QED
    BY <1>0, <1>1, <1>3, <1>4, <2>1, <2>2, Zenon DEF Settles
<1>7. Issued'
  <2>1. tx \in [Services -> SUBSET Events] /\ Issued
    BY Zenon DEF TypeOK, StreamInv
  <2>2. tx'[s] = {} /\ \A t \in Services \ {s} : tx'[t] = tx[t]
    BY <2>1 DEF Commit
  <2>3. \A t \in Services \ {s} : tx[t] \intersect tx[s] = {}
    BY <2>1 DEF Issued
  <2> QED
    BY <1>1, <2>1, <2>2, <2>3 DEF Issued
<1> QED
  BY <1>5, <1>6, <1>7 DEF StreamInv

\* The query answers the oldest pending events: what is older and not among them
\* is settled.
LEMMA ReadStream ==
    ASSUME TypeOK, TypeOK', StreamInv, NEW r \in Replicas, Read(r)
    PROVE  StreamInv'
<1>1. UNCHANGED <<tx, issued, occurred, units, row, got, past>>
  BY DEF Read
<1>0. SameOrder /\ \A e, f : Before(e, f)' <=> Before(e, f)
  BY <1>1, OrderKept, Zenon DEF SameOrder
<1>2. PICK pending \in SUBSET Rows :
        /\ r \in stop => pending = {}
        /\ r \notin stop => pending \in PendingAll(setup.batch)
        /\ Is(r, "next", [e \in pending |-> row[e].attempts], 0, {})
  BY ReadMoves, Zenon
<1>3. Grows
  BY <1>1, StillGrows, SMTT(30)
<1>4. \A q \in Replicas \ {r} : Serves(q)'
  BY <1>0, <1>1, <1>2, <1>3, ServesKept, SMTT(30) DEF StreamInv, Is
<1>5. Serves(r)'
  <2>1. ~At(r, "publish")' /\ ~At(r, "fail")' /\ InHand(r)' = pending
    BY <1>2 DEF Is, At, InHand
  <2>2. ASSUME NEW u \in units, NEW e \in u, NEW f \in u, f \in pending, Before(e, f)
        PROVE  e \in pending \/ Passed(e)
    <3>1. e \in Rows /\ e \in Events /\ f \in Events
      BY UnitEvents
    <3>2. pending \in PendingAll(setup.batch)
      BY <1>2, <2>2
    <3>3. CASE e \in Pending
      <4>1. e \notin pending => Before(f, e)
        BY <2>2, <3>2, <3>3, ZenonT(15) DEF PendingAll
      <4> QED
        BY <2>2, <3>1, <4>1, InOrder, ZenonT(15)
    <3>4. CASE e \notin Pending
      <4>1. row[e].published \/ row[e].failed
        BY <3>1, <3>4 DEF Pending
      <4> QED
        BY <3>1, <4>1 DEF StreamInv, Settles, Passed
    <3> QED
      BY <3>3, <3>4
  <2>3. \A e : Passed(e)' = Passed(e)
    BY <1>1 DEF Received, Passed
  <2> QED
    BY <1>0, <1>1, <2>1, <2>2, <2>3, SMTT(30) DEF Serves
<1>6. Settles'
  BY <1>0, <1>1, SettlesKept, ZenonT(15) DEF StreamInv
<1>7. Issued'
  BY <1>1 DEF StreamInv, Issued
<1> QED
  BY <1>4, <1>5, <1>6, <1>7 DEF StreamInv

\* The head of the loop takes the first event of the batch, for all who answer.
LEMMA NextStream ==
    ASSUME TypeOK, TypeOK', StreamInv, NEW r \in Replicas, NextEvent(r)
    PROVE  StreamInv'
<1>1. UNCHANGED <<tx, issued, occurred, units, row, got, past>>
  BY DEF NextEvent
<1>0. SameOrder /\ \A e, f : Before(e, f)' <=> Before(e, f)
  BY <1>1, OrderKept, Zenon DEF SameOrder
<1>2. CASE Is(r, "release", Nothing, 0, {})
  BY <1>1, <1>2, QuietStream
<1>3. CASE \E e \in Events : Oldest(InHand(r), e) /\ Is(r, "publish", relay[r].batch, e, Answering(e))
  <2>1. PICK e \in Events : Oldest(InHand(r), e) /\ Is(r, "publish", relay[r].batch, e, Answering(e))
    BY <1>3
  <2>2. Grows
    BY <1>1, StillGrows, ZenonT(15)
  <2>3. \A q \in Replicas \ {r} : Serves(q)'
    BY <1>0, <1>1, <2>1, <2>2, ServesKept, ZenonT(15) DEF StreamInv, Is
  <2>4. Serves(r)'
    <3>1. InHand(r)' = InHand(r) /\ relay'[r].event = e /\ relay'[r].todo = Answering(e)
      BY <2>1 DEF Is, InHand
    <3>2. \A f : Passed(f)' = Passed(f)
      BY <1>1, SMTT(30) DEF Received, Passed
    <3>3. \A u \in units : \A f, g \in u : g \in InHand(r) /\ Before(f, g) => f \in InHand(r) \/ Passed(f)
      BY DEF StreamInv, Serves
    <3>4. \A l \in 1..Len(Listeners) : e \in Listeners[l] => l \in Answering(e)
      BY DEF Answering
    <3> QED
      BY <1>0, <1>1, <2>1, <3>1, <3>2, <3>3, <3>4, ZenonT(15) DEF Serves, Oldest
  <2>5. Settles'
    BY <1>0, <1>1, SettlesKept DEF StreamInv
  <2>6. Issued'
    BY <1>1 DEF StreamInv, Issued
  <2> QED
    BY <2>3, <2>4, <2>5, <2>6 DEF StreamInv
<1> QED
  BY <1>2, <1>3, NextMoves

\* A receipt of the event in hand: everything older was settled before.
LEMMA PublishStream ==
    ASSUME TypeOK, TypeOK', StreamInv, NEW r \in Replicas, Publish(r)
    PROVE  StreamInv'
<1> DEFINE e == relay[r].event
<1>1. UNCHANGED <<tx, issued, occurred, units, row, past>> /\ At(r, "publish")
  BY DEF Publish
<1>0. SameOrder /\ \A f, g : Before(f, g)' <=> Before(f, g)
  BY <1>1, OrderKept, Zenon DEF SameOrder
<1>2. PICK l \in relay[r].todo :
        /\ Is(r, "publish", relay[r].batch, e, relay[r].todo \ {l})
        /\ got' = [got EXCEPT ![e][l] = IF @ < Often THEN @ + 1 ELSE @]
  BY PublishMoves, ZenonT(30)
<1>3. l \in 1..Len(Listeners)
  BY PassFields
<1>4. e \in Events /\ e \in InHand(r)
  BY <1>1, InHandEvent
<1> HIDE DEF e
<1>5. /\ got'[e][l] = IF got[e][l] < Often THEN got[e][l] + 1 ELSE got[e][l]
      /\ \A f \in Events, m \in 1..Len(Listeners) : f # e \/ m # l => got'[f][m] = got[f][m]
  BY <1>2, <1>3, <1>4, GotMoves, ZenonT(20)
<1>6. \A f \in Events, m \in 1..Len(Listeners) : got[f][m] \in 0..2
  <2>1. got \in [Events -> [1..Len(Listeners) -> 0..2]]
    BY Zenon DEF TypeOK, Often
  <2>2. \A f \in Events : got[f] \in [1..Len(Listeners) -> 0..2]
    BY <2>1, ZenonT(15)
  <2> QED
    BY <2>2
<1>7. got'[e][l] > 0 /\ got'[e][l] >= got[e][l]
  BY <1>3, <1>4, <1>5, <1>6, SMTT(30) DEF Often
<1>8. Grows
  BY <1>1, <1>5, <1>6, <1>7, SMTT(20) DEF Grows
<1>9. \A q \in Replicas \ {r} : Serves(q)'
  BY <1>0, <1>1, <1>2, <1>8, ServesKept, ZenonT(15) DEF StreamInv, Is
<1>10. Serves(r) /\ Oldest(InHand(r), e)
  BY <1>1, Zenon DEF StreamInv, Serves, e
<1>11. Serves(r)'
  <2>1. InHand(r)' = InHand(r) /\ relay'[r].event = e /\ relay'[r].todo = relay[r].todo \ {l}
    BY <1>2 DEF Is, InHand
  <2>2. ASSUME NEW m \in 1..Len(Listeners), e \in Listeners[m]
        PROVE  m \in relay[r].todo \ {l} \/ got'[e][m] > 0
    <3>1. m \in relay[r].todo \/ got[e][m] > 0
      BY <1>1, <1>10, <2>2 DEF Serves, e
    <3> QED
      BY <1>4, <1>5, <1>7, <3>1, ZenonT(15)
  <2>3. ASSUME NEW u \in units, NEW f \in u, NEW g \in u, g \in InHand(r), Before(f, g)
        PROVE  f \in InHand(r) \/ Passed(f)'
    <3>1. f \in InHand(r) \/ Passed(f)
      BY <1>10, <2>3 DEF Serves
    <3>2. f \in Events
      BY UnitEvents, ZenonT(15)
    <3> QED
      BY <1>8, <3>1, <3>2, ReceivedKept, ZenonT(15)
  <2> QED
    BY <1>0, <1>1, <1>10, <2>1, <2>2, <2>3, Zenon DEF Serves, Oldest
<1>12. Settles'
  <2>1. Settles /\ Rows' = Rows
    BY <1>1, ZenonT(15) DEF StreamInv, Rows
  <2>2. \A f \in Events : row'[f].published => Received(f)'
    BY <1>1, <1>8, <2>1, ReceivedKept, ZenonT(15) DEF Settles
  <2>3. \A f \in Events : row'[f].failed => past'[f] = "recorded"
    BY <1>1, <2>1, ZenonT(15) DEF Settles
  <2>4. \A f \in Events, m \in 1..Len(Listeners) : got'[f][m] > 0 => f \in Rows
    <3>1. e \in Rows
      BY <1>4, Zenon DEF TypeOK
    <3> QED
      BY <1>5, <2>1, <3>1, ZenonT(15) DEF Settles
  <2>5. ASSUME NEW u \in units, NEW f \in u, NEW g \in u, Before(f, g),
               NEW m \in 1..Len(Listeners), got'[g][m] > 0
        PROVE  Passed(f)'
    <3>1. f \in Events /\ g \in Events
      BY UnitEvents, ZenonT(15)
    <3>2. CASE g = e
      <4>1. f \notin InHand(r)
        BY <1>10, <2>5, <3>1, <3>2, InOrder, ZenonT(15) DEF Oldest
      <4>2. Passed(f)
        BY <1>4, <1>10, <2>5, <3>2, <4>1, ZenonT(15) DEF Serves
      <4> QED
        BY <1>8, <3>1, <4>2, ReceivedKept, ZenonT(15)
    <3>3. CASE g # e
      <4>1. got[g][m] > 0
        BY <1>5, <2>5, <3>1, <3>3, ZenonT(15)
      <4>2. Passed(f)
        <5>1. \A v \in units : \A x, y \in v :
                Before(x, y) /\ (\E k \in 1..Len(Listeners) : got[y][k] > 0) => Passed(x)
          BY <2>1, Zenon DEF Settles
        <5> QED
          BY <2>5, <4>1, <5>1, ZenonT(15)
      <4> QED
        BY <1>8, <3>1, <4>2, ReceivedKept, ZenonT(15)
    <3> QED
      BY <3>2, <3>3
  <2> QED
    BY <1>0, <1>1, <2>1, <2>2, <2>3, <2>4, <2>5 DEF Settles
<1>13. Issued'
  BY <1>1 DEF StreamInv, Issued
<1> QED
  BY <1>9, <1>11, <1>12, <1>13 DEF StreamInv

\* A failure that is not recorded yet changes nothing of what is kept.
LEMMA FailsStream ==
    ASSUME TypeOK, TypeOK', StreamInv, NEW r \in Replicas, PublishFails(r)
    PROVE  StreamInv'
<1> DEFINE e == relay[r].event
<1>1. UNCHANGED <<tx, issued, occurred, units, row, got>> /\ At(r, "publish")
  BY ZenonT(15) DEF PublishFails
<1>0. SameOrder /\ \A f, g : Before(f, g)' <=> Before(f, g)
  BY <1>1, OrderKept, Zenon DEF SameOrder
<1>2. Is(r, "fail", relay[r].batch, e, relay[r].todo)
  BY GotoMoves DEF PublishFails, Ats
<1>3. e \in Events
  BY <1>1, InHandEvent, ZenonT(15)
<1>4. past' = [past EXCEPT ![e] = IF @ = "clean" THEN "failed" ELSE @]
  BY ZenonT(15) DEF PublishFails
<1> HIDE DEF e
<1>5. \A f \in Events : past'[f] = "recorded" <=> past[f] = "recorded"
  BY <1>3, <1>4, Zenon DEF TypeOK
<1>6. Grows
  BY <1>1, <1>5, PastGrows, ZenonT(15)
<1>7. \A f \in Events : Received(f)' = Received(f) /\ (Passed(f) <=> Passed(f)')
  BY <1>1, <1>5, ZenonT(30) DEF Received, Passed
<1>8. \A q \in Replicas \ {r} : Serves(q)'
  BY <1>0, <1>1, <1>2, <1>6, ServesKept, ZenonT(30) DEF StreamInv, Is
<1>9. Serves(r)'
  <2>1. Serves(r) /\ Oldest(InHand(r), e)
    BY <1>1, Zenon DEF StreamInv, Serves, e
  <2>2. InHand(r)' = InHand(r) /\ relay'[r].event = e /\ ~At(r, "publish")'
    BY <1>2 DEF Is, InHand, At
  <2>3. \A u \in units : u \subseteq Events
    BY UnitEvents, ZenonT(15)
  <2> QED
    BY <1>0, <1>1, <1>7, <2>1, <2>2, <2>3, ZenonT(30) DEF Serves, Oldest
<1>10. Settles'
  <2>1. Settles /\ Rows' = Rows /\ \A u \in units : u \subseteq Events
    BY <1>1, UnitEvents DEF StreamInv, Rows
  <2> QED
    BY <1>0, <1>1, <1>5, <1>7, <2>1 DEF Settles
<1>11. Issued'
  BY <1>1 DEF StreamInv, Issued
<1> QED
  BY <1>8, <1>9, <1>10, <1>11, ZenonT(15) DEF StreamInv

\* The pass goes on behind an event that got past.
LEMMA AdvanceStream ==
    ASSUME TypeOK, TypeOK', StreamInv, NEW r \in Replicas, UNCHANGED <<tx, issued, occurred, units, got>>,
           Is(r, "next", Rest(r), 0, {}), Grows, Settles',
           NEW g \in Events, g = relay[r].event, Passed(g)'
    PROVE  StreamInv'
<1>0. SameOrder /\ \A e, f : Before(e, f)' <=> Before(e, f)
  BY OrderKept, Zenon DEF SameOrder
<1>1. \A q \in Replicas \ {r} : Serves(q)'
  BY <1>0, ServesKept, ZenonT(15) DEF StreamInv, Is
<1>2. Serves(r)'
  <2>1. /\ InHand(r)' = InHand(r) \ {relay[r].event}
        /\ ~At(r, "publish")' /\ ~At(r, "fail")'
    BY RestSound, Zenon DEF Is, InHand, At
  <2>2. ASSUME NEW u \in units, NEW e \in u, NEW f \in u, f \in InHand(r)', Before(e, f)
        PROVE  e \in InHand(r)' \/ Passed(e)'
    <3>1. e \in InHand(r) \/ Passed(e)
      BY <2>1, <2>2 DEF StreamInv, Serves
    <3>2. e \in Events
      BY UnitEvents, ZenonT(15)
    <3> QED
      BY <2>1, <3>1, <3>2, ReceivedKept, SMTT(30)
  <2> QED
    BY <1>0, <2>1, <2>2 DEF Serves
<1>3. Issued'
  BY DEF StreamInv, Issued
<1> QED
  BY <1>1, <1>2, <1>3, ZenonT(15) DEF StreamInv

\* A recorded failure lets the later events of the transaction pass.
LEMMA FailureStream ==
    ASSUME TypeOK, TypeOK', StreamInv, NEW r \in Replicas, RecordFailure(r), r \notin stop
    PROVE  StreamInv'
<1>0. PICK e \in Events : e = relay[r].event
  BY InHandEvent, SMTT(30) DEF RecordFailure
<1>1. UNCHANGED <<tx, issued, occurred, units, got>>
  BY DEF RecordFailure
<1>a. \A f, g : Before(f, g)' <=> Before(f, g)
  BY <1>1, OrderKept, Zenon
<1>2. Is(r, "next", Rest(r), 0, {})
  BY AdvanceMoves, ZenonT(15) DEF RecordFailure
<1>3. /\ row'[e].published = row[e].published
      /\ \A f \in Events \ {e} : row'[f] = row[f]
      /\ past'[e] = "recorded"
      /\ \A f \in Events \ {e} : past'[f] = past[f]
  BY <1>0, FailureRow, SMTT(30)
<1>4. Passed(e)'
  BY <1>3 DEF Passed
<1>5. Grows
  BY <1>1, <1>3, PastGrows, ZenonT(15)
<1>6. Settles'
  <2>1. Settles /\ Rows' = Rows /\ \A u \in units : u \subseteq Events
    BY <1>1, UnitEvents, ZenonT(15) DEF StreamInv, Rows
  <2>2. \A f \in Events : row'[f].published => Received(f)'
    BY <1>3, <1>5, <2>1, ReceivedKept, Zenon DEF Settles
  <2>3. \A f \in Events : row'[f].failed => past'[f] = "recorded"
    BY <1>3, <2>1, ZenonT(15) DEF Settles
  <2>4. \A u \in units : \A f, g \in u :
          Before(f, g) /\ (\E l \in 1..Len(Listeners) : got[g][l] > 0) => Passed(f)'
    BY <1>5, <2>1, ReceivedKept, ZenonT(15) DEF Settles
  <2> QED
    BY <1>1, <1>a, <2>1, <2>2, <2>3, <2>4, Zenon DEF Settles
<1> QED
  BY <1>0, <1>1, <1>2, <1>4, <1>5, <1>6, AdvanceStream, ZenonT(15)

\* A mark comes when every listener has the event.
LEMMA MarkStream ==
    ASSUME TypeOK, TypeOK', StreamInv, NEW r \in Replicas, MarkPublished(r)
    PROVE  StreamInv'
<1>0. PICK e \in Events : e = relay[r].event
  BY InHandEvent DEF MarkPublished
<1>1. UNCHANGED <<tx, issued, occurred, units, got, past>> /\ At(r, "publish") /\ relay[r].todo = {}
  BY DEF MarkPublished
<1>a. \A f, g : Before(f, g)' <=> Before(f, g)
  BY <1>1, OrderKept, Zenon
<1>2. Is(r, "next", Rest(r), 0, {})
  BY AdvanceMoves, ZenonT(15) DEF MarkPublished
<1>3. /\ row'[e].failed = row[e].failed
      /\ \A f \in Events \ {e} : row'[f] = row[f]
  BY <1>0, MarkRow, ZenonT(15)
<1>4. Received(e)'
  BY <1>0, <1>1, ZenonT(30) DEF StreamInv, Serves, Received
<1>5. Grows
  BY <1>1, StillGrows, ZenonT(15)
<1>6. Settles'
  <2>1. Settles /\ Rows' = Rows /\ \A f : Received(f)' = Received(f) /\ Passed(f)' = Passed(f)
    BY <1>1, ZenonT(30) DEF StreamInv, Rows, Received, Passed
  <2>2. \A f \in Events : row'[f].published => Received(f)'
    BY <1>3, <1>4, <2>1, ZenonT(15) DEF Settles
  <2>3. \A f \in Events : row'[f].failed => past'[f] = "recorded"
    BY <1>1, <1>3, <2>1, ZenonT(15) DEF Settles
  <2> QED
    BY <1>1, <1>a, <2>1, <2>2, <2>3, ZenonT(15) DEF Settles
<1>7. Passed(e)'
  BY <1>4 DEF Passed
<1> QED
  BY <1>0, <1>1, <1>2, <1>5, <1>6, <1>7, AdvanceStream, ZenonT(30)

\* Passes that start, stop, fail or crash.
LEMMA PassStream ==
    ASSUME TypeOK, TypeOK', StreamInv, NEW r \in Replicas,
           \/ Pass(r) \/ Release(r) \/ Stopped(r) \/ Start(r) \/ StatementFails(r) \/ Crash(r)
           \/ RecordFailure(r) /\ r \in stop
    PROVE  StreamInv'
<1>1. UNCHANGED <<tx, issued, occurred, units, row, got, past>>
  BY DEF Pass, Release, Stopped, Start, StatementFails, Crash, RecordFailure
<1>2. CASE Pass(r)
  <2>1. Is(r, "read", relay[r].batch, relay[r].event, relay[r].todo)
    BY <1>2, GotoMoves DEF Pass, Ats
  <2> QED
    BY <1>1, <2>1, QuietStream, SMTT(30)
<1>3. CASE Release(r)
  <2>1. Is(r, "idle", relay[r].batch, relay[r].event, relay[r].todo)
    BY <1>3, GotoMoves DEF Release, Ats
  <2> QED
    BY <1>1, <2>1, QuietStream, SMTT(30)
<1>4. CASE Stopped(r) \/ Start(r) \/ (RecordFailure(r) /\ r \in stop)
  <2>1. PICK at \in {"idle", "down", "release"} : Becomes(r, Empty(at))
    BY <1>4 DEF Stopped, Start, RecordFailure, Abandon
  <2>2. Is(r, at, Nothing, 0, {})
    BY <2>1, EmptyMoves, ZenonT(15) DEF Ats
  <2> QED
    BY <1>1, <2>2, QuietStream, ZenonT(15)
<1>5. CASE StatementFails(r) \/ Crash(r)
  <2>1. CASE \E at \in {"release", "down"} : Is(r, at, Nothing, 0, {})
    BY <1>1, <2>1, QuietStream
  <2>2. CASE Is(r, "idle", relay[r].batch, relay[r].event, relay[r].todo)
    BY <1>1, <2>2, QuietStream, SMTT(30)
  <2> QED
    BY <1>5, <2>1, <2>2, FaultMoves, Zenon
<1> QED
  BY <1>2, <1>3, <1>4, <1>5, ZenonT(15)

\* Steps that leave the passes alone.
LEMMA StillStream ==
    ASSUME TypeOK, TypeOK', StreamInv,
           (\E e \in Events : Retry(e)) \/ (\E r \in Replicas : Close(r)) \/ Elapse \/ Overrun \/ UNCHANGED vars
    PROVE  StreamInv'
<1>1. UNCHANGED <<tx, issued, occurred, units, got, past, relay>>
  BY Zenon DEF Retry, Close, Elapse, Overrun, vars
<1>2. \A e \in Events : (row'[e].published => row[e].published) /\ (row'[e].failed => row[e].failed)
  <2>1. CASE row' = row
    BY <2>1
  <2>2. ASSUME NEW e \in Events, Retry(e)
        PROVE  \A f \in Events : (row'[f].published => row[f].published) /\ (row'[f].failed => row[f].failed)
    BY <2>2 DEF Retry, TypeOK
  <2> QED
    BY <2>1, <2>2 DEF Close, Elapse, Overrun, vars
<1> QED
  BY <1>1, <1>2, AsideStream

\* Every step keeps the order.
LEMMA NextStreamInv ==
    ASSUME TypeOK, TypeOK', StreamInv, [Next]_vars
    PROVE  StreamInv'
<1>1. CASE \E s \in Services : Store(s) \/ Commit(s) \/ Rollback(s)
  BY <1>1, StoreStream, CommitStream, ZenonT(15)
<1>2. CASE \E r \in Replicas : Step(r)
  <2>1. PICK r \in Replicas : Step(r)
    BY <1>2
  <2>2. CASE RecordFailure(r)
    BY <2>2, PassStream, FailureStream
  <2> QED
    BY <2>1, <2>2, PassStream, ReadStream, NextStream, PublishStream, FailsStream, MarkStream DEF Step
<1>3. CASE \E r \in Replicas : StatementFails(r) \/ Crash(r)
  BY <1>3, PassStream
<1> QED
  BY <1>1, <1>2, <1>3, StillStream DEF Next

\* The strengthening is an invariant.
LEMMA StreamKept == Spec => []StreamInv
<1>1. StreamInv /\ TypeOK /\ TypeOK' /\ [Next]_vars => StreamInv'
  BY NextStreamInv
<1> QED
  BY InitStream, <1>1, OutboxTypes, PTL DEF Spec

\* An event is marked published only when everybody who answers it received it,
\* for any listeners and any number of relays, with or without a lock.
THEOREM NobodyPassedOver == Spec => []PublishedMeansReceived
  BY StreamKept, StreamInvImplies, PTL

\* The events of one transaction leave in the order of their occurred_at, and in
\* the order they were stored where it is the same, for any number of relays and
\* without their lock.
THEOREM LeaveOldestFirst == Spec => []OldestFirst
  BY StreamKept, StreamInvImplies, PTL

----------------------------------------------------------------------------
(* What the lock is for                                                     *)

\* An event in hand that nothing excuses is in hand under the lock, and its row
\* is as the pass read it.
Owns(r) ==
    /\ relay[r].at \notin {"next", "publish", "fail"} => InHand(r) = {}
    /\ At(r, "fail") => past[relay[r].event] # "clean"
    /\ setup.locks =>
         \A e \in InHand(r) \ excused :
            /\ Holder(lock) = r
            /\ ~row[e].published /\ ~row[e].failed
            /\ relay[r].batch[e] = row[e].attempts

\* Where a listener has an event that is not marked, the mark is on its way:
\* the pass that delivered it has it in hand.
Marked(e) ==
    ~row[e].published =>
        \A l \in 1..Len(Listeners) : got[e][l] > 0 =>
            \E r \in Replicas : At(r, "publish") /\ relay[r].event = e /\ l \notin relay[r].todo

Once(e) ==
    e \notin excused =>
        /\ past[e] = "clean" => Marked(e) /\ \A l \in 1..Len(Listeners) : got[e][l] <= 1
        /\ row[e].failed => ~row[e].published /\ row[e].attempts >= MaxAttempts

AloneInv ==
    /\ \A r \in Replicas : Owns(r)
    /\ setup.locks => \A e \in Events : Once(e)

\* The strengthening contains both properties.
LEMMA AloneInvImplies == AloneInv => NoDuplicate /\ ParkedGaveUp
  BY DEF AloneInv, Once, NoDuplicate, ParkedGaveUp

\* Nothing is in hand and nothing received at first.
LEMMA InitAlone == Init => AloneInv
<1> SUFFICES ASSUME Init PROVE AloneInv
  BY ZenonT(15)
<1>1. \A r \in Replicas : relay[r].at = "idle" /\ InHand(r) = {}
  BY ZenonT(15) DEF Init, Empty, PassAt, InHand
<1>2. \A e \in Events : ~row[e].failed /\ \A l \in 1..Len(Listeners) : got[e][l] = 0
  BY ZenonT(15) DEF Init
<1>3. \A r \in Replicas : Owns(r)
  BY <1>1, ZenonT(15) DEF Owns, At
<1>4. \A e \in Events : Once(e)
  BY <1>2, SMTT(30) DEF Once, Marked
<1> QED
  BY <1>3, <1>4 DEF AloneInv

\* Two passes never have the same event in hand.
LEMMA OneHand ==
    ASSUME AloneInv, setup.locks, NEW r \in Replicas, NEW q \in Replicas,
           NEW e \in InHand(r) \ excused, e \in InHand(q)
    PROVE  r = q
  BY DEF AloneInv, Owns

\* Whoever holds the lock took it and has time left.
LEMMA HolderLive ==
    ASSUME TypeOK, NEW r \in Replicas, Holder(lock) = r
    PROVE  Live(lock) /\ lock.owner = r
  BY OutboxAssumption, ZenonT(15) DEF Holder

\* A pass that did not change, of which no row changed.
LEMMA OwnsKept ==
    ASSUME TypeOK, NEW q \in Replicas, Owns(q), relay'[q] = relay[q], setup' = setup,
           excused \subseteq excused',
           \A e \in Events : past'[e] = "clean" => past[e] = "clean",
           setup.locks => \A e \in InHand(q) \ excused' : Holder(lock') = q /\ row'[e] = row[e]
    PROVE  Owns(q)'
<1>1. InHand(q)' = InHand(q)
  BY ZenonT(15) DEF InHand
<1>2. ASSUME At(q, "fail") PROVE past'[relay[q].event] # "clean"
  <2>1. relay[q].event \in Events
    BY <1>2, InHandEvent, ZenonT(15)
  <2> QED
    BY <1>2, <2>1, Zenon DEF Owns
<1> QED
  BY <1>1, <1>2, ZenonT(15) DEF Owns, At

\* An event of which no row, receipt or delivery in progress changed.
LEMMA OnceKept ==
    ASSUME NEW e \in Events, Once(e), excused \subseteq excused',
           e \notin excused' =>
             /\ row'[e] = row[e]
             /\ \A l \in 1..Len(Listeners) : got'[e][l] = got[e][l]
             /\ past'[e] = "clean" => past[e] = "clean"
             /\ \A r \in Replicas : At(r, "publish") /\ relay[r].event = e =>
                  relay'[r].at = "publish" /\ relay'[r].event = e /\ relay'[r].todo \subseteq relay[r].todo
    PROVE  Once(e)'
<1> SUFFICES ASSUME e \notin excused' PROVE Once(e)'
  BY DEF Once
<1>1. e \notin excused
  BY ZenonT(15)
<1>2. ASSUME past'[e] = "clean" PROVE Marked(e)' /\ \A l \in 1..Len(Listeners) : got'[e][l] <= 1
  <2>1. Marked(e) /\ \A l \in 1..Len(Listeners) : got[e][l] <= 1
    BY <1>1, <1>2, ZenonT(15) DEF Once
  <2>2. ASSUME ~row'[e].published, NEW l \in 1..Len(Listeners), got'[e][l] > 0
        PROVE  \E r \in Replicas : relay'[r].at = "publish" /\ relay'[r].event = e /\ l \notin relay'[r].todo
    <3>1. PICK r \in Replicas : At(r, "publish") /\ relay[r].event = e /\ l \notin relay[r].todo
      BY <2>1, <2>2 DEF Marked
    <3> QED
      BY <3>1, ZenonT(15)
  <2> QED
    BY <2>1, <2>2, ZenonT(15) DEF Marked, At
<1> QED
  BY <1>1, <1>2, ZenonT(15) DEF Once

\* A step that leaves a pass with an empty batch.
LEMMA QuietAlone ==
    ASSUME TypeOK, AloneInv, UNCHANGED <<setup, row, got, past>>, excused \subseteq excused',
           NEW r \in Replicas, NEW at, NEW batch, NEW event, NEW todo,
           Is(r, at, batch, event, todo), at \notin {"publish", "fail"}, DOMAIN batch = {},
           At(r, "publish") => relay[r].event \in excused',
           setup.locks => \A q \in Replicas \ {r} : \A e \in InHand(q) \ excused' : Holder(lock') = q
    PROVE  AloneInv'
<1>1. \A q \in Replicas \ {r} : Owns(q)'
  <2> SUFFICES ASSUME NEW q \in Replicas \ {r} PROVE Owns(q)'
    BY ZenonT(15)
  <2>1. relay'[q] = relay[q] /\ Owns(q)
    BY ZenonT(15) DEF Is, AloneInv
  <2> QED
    BY <2>1, OwnsKept, ZenonT(15)
<1>2. Owns(r)'
  <2>1. InHand(r)' = {} /\ ~At(r, "fail")'
    BY ZenonT(15) DEF Is, InHand, At
  <2> QED
    BY <2>1, Zenon DEF Owns
<1>3. ASSUME setup.locks, NEW e \in Events PROVE Once(e)'
  <2>1. Once(e)
    BY <1>3, ZenonT(15) DEF AloneInv
  <2>2. \A q \in Replicas : At(q, "publish") /\ relay[q].event = e /\ e \notin excused' =>
          relay'[q].at = "publish" /\ relay'[q].event = e /\ relay'[q].todo \subseteq relay[q].todo
    BY Zenon DEF Is, At
  <2> QED
    BY <2>1, <2>2, OnceKept, Zenon
<1> QED
  BY <1>1, <1>2, <1>3, ZenonT(15) DEF AloneInv

\* A step no pass takes.
LEMMA AsideAlone ==
    ASSUME TypeOK, AloneInv, UNCHANGED <<setup, row, got, past, relay>>, excused \subseteq excused',
           setup.locks => \A q \in Replicas : \A e \in InHand(q) \ excused' : Holder(lock') = q
    PROVE  AloneInv'
<1>1. \A q \in Replicas : Owns(q)'
  BY OwnsKept, ZenonT(15) DEF AloneInv
<1>2. ASSUME setup.locks, NEW e \in Events PROVE Once(e)'
  BY <1>2, OnceKept, ZenonT(15) DEF AloneInv, At
<1> QED
  BY <1>1, <1>2 DEF AloneInv

\* As long as the lock stays, so does who holds it.
LEMMA HoldersKept ==
    ASSUME AloneInv, lock' = lock, excused \subseteq excused'
    PROVE  setup.locks => \A q \in Replicas : \A e \in InHand(q) \ excused' : Holder(lock') = q
  BY DEF AloneInv, Owns

\* A parked event is in no hand that counts, so its row may be reset.
LEMMA RetryAlone ==
    ASSUME TypeOK, AloneInv, NEW e \in Events, Retry(e)
    PROVE  AloneInv'
<1>1. UNCHANGED <<setup, got, past, relay, excused, lock>> /\ row[e].failed
  BY DEF Retry
<1>2. ~row'[e].failed /\ row'[e].published = row[e].published
      /\ \A f \in Events \ {e} : row'[f] = row[f]
  BY ZenonT(15) DEF Retry, TypeOK
<1>3. ASSUME NEW q \in Replicas PROVE Owns(q)'
  <2>1. Owns(q) /\ InHand(q) \subseteq Events
    BY PassFields, ZenonT(15) DEF AloneInv
  <2>2. setup.locks => \A f \in InHand(q) \ excused' : Holder(lock') = q /\ row'[f] = row[f]
    BY <1>1, <1>2, <2>1, Zenon DEF Owns
  <2> QED
    BY <1>1, <2>1, <2>2, OwnsKept, ZenonT(15)
<1>4. ASSUME setup.locks, NEW f \in Events PROVE Once(f)'
  <2>1. Once(f)
    BY <1>4, ZenonT(15) DEF AloneInv
  <2>2. CASE f # e
    BY <1>1, <1>2, <2>1, <2>2, OnceKept, ZenonT(15) DEF At
  <2>3. CASE f = e
    BY <1>1, <1>2, <2>1, <2>3, ZenonT(15) DEF Once, Marked, At
  <2> QED
    BY <2>2, <2>3
<1> QED
  BY <1>1, <1>3, <1>4 DEF AloneInv

\* The lock is taken when it is free: nobody has anything in hand then.
LEMMA PassAlone ==
    ASSUME TypeOK, AloneInv, NEW r \in Replicas, Pass(r)
    PROVE  AloneInv'
<1>1. PICK batch, event, todo : Is(r, "read", batch, event, todo) /\ DOMAIN batch = {}
  <2>1. Is(r, "read", relay[r].batch, relay[r].event, relay[r].todo)
    BY GotoMoves, SMTT(30) DEF Pass, Ats
  <2>2. DOMAIN relay[r].batch = {}
    BY DEF Pass, At, AloneInv, Owns, InHand
  <2> QED
    BY <2>1, <2>2, Zenon
<1>2. ~At(r, "publish")
  BY DEF Pass, At
<1>3. setup.locks => \A q \in Replicas : InHand(q) \ excused = {}
  <2> SUFFICES ASSUME setup.locks, NEW q \in Replicas, NEW e \in InHand(q) \ excused PROVE FALSE
    BY ZenonT(15)
  <2>1. Holder(lock) = q
    BY DEF AloneInv, Owns
  <2> QED
    BY <2>1, HolderLive DEF Pass, Available
<1>4. UNCHANGED <<setup, row, got, past, excused>>
  BY DEF Pass
<1>5. setup.locks => \A q \in Replicas \ {r} : \A e \in InHand(q) \ excused' : Holder(lock') = q
  BY <1>3, <1>4
<1>6. excused \subseteq excused'
  BY <1>4, ZenonT(15)
<1> QED
  BY <1>1, <1>2, <1>4, <1>5, <1>6, QuietAlone

\* A release frees only what the replica holds itself.
LEMMA ReleaseAlone ==
    ASSUME TypeOK, AloneInv, NEW r \in Replicas, Release(r)
    PROVE  AloneInv'
<1>1. PICK batch, event, todo : Is(r, "idle", batch, event, todo) /\ DOMAIN batch = {}
  <2>1. Is(r, "idle", relay[r].batch, relay[r].event, relay[r].todo)
    BY GotoMoves, SMTT(30) DEF Release, Ats
  <2>2. DOMAIN relay[r].batch = {}
    BY SMTT(30) DEF Release, At, AloneInv, Owns, InHand
  <2> QED
    BY <2>1, <2>2, Zenon
<1>2. ~At(r, "publish")
  BY DEF Release, At
<1>3. UNCHANGED <<setup, row, got, past, excused>>
  BY DEF Release
<1>4. ASSUME setup.locks, NEW q \in Replicas \ {r}, NEW e \in InHand(q) \ excused'
      PROVE  Holder(lock') = q
  <2>1. Holder(lock) = q
    BY <1>3, <1>4 DEF AloneInv, Owns
  <2>2. lock.owner = q
    BY <2>1, HolderLive
  <2>3. lock' = lock
    BY <2>2, ZenonT(15) DEF Release, ReleasedBy
  <2> QED
    BY <2>1, <2>3, ZenonT(15)
<1> QED
  BY <1>1, <1>2, <1>3, <1>4, QuietAlone

\* A relay that stops or starts has nothing in hand.
LEMMA StoppedAlone ==
    ASSUME TypeOK, AloneInv, NEW r \in Replicas, Stopped(r) \/ Start(r)
    PROVE  AloneInv'
<1>1. PICK at \in {"idle", "down"} : Is(r, at, Nothing, 0, {})
  BY EmptyMoves, ZenonT(15) DEF Stopped, Start, Ats
<1>2. UNCHANGED <<setup, row, got, past, excused, lock>> /\ ~At(r, "publish")
  BY DEF Stopped, Start, At
<1>3. DOMAIN Nothing = {} /\ at \notin {"publish", "fail"} /\ excused \subseteq excused'
  BY <1>2 DEF Nothing
<1>4. setup.locks => \A q \in Replicas : \A e \in InHand(q) \ excused' : Holder(lock') = q
  BY <1>2, <1>3, HoldersKept, ZenonT(15)
<1> QED
  BY <1>1, <1>2, <1>3, <1>4, QuietAlone, ZenonT(15)

\* A pass that fails or dies while it delivers leaves its event excused.
LEMMA FaultAlone ==
    ASSUME TypeOK, AloneInv, NEW r \in Replicas, StatementFails(r) \/ Crash(r)
    PROVE  AloneInv'
<1>1. PICK at, batch, event, todo :
         at \in {"release", "down", "idle"} /\ Is(r, at, batch, event, todo) /\ DOMAIN batch = {}
  <2>1. CASE \E at \in {"release", "down"} : Is(r, at, Nothing, 0, {})
    BY <2>1 DEF Nothing
  <2>2. CASE At(r, "release") /\ Is(r, "idle", relay[r].batch, relay[r].event, relay[r].todo)
    <3>1. DOMAIN relay[r].batch = {}
      BY <2>2, Zenon DEF AloneInv, Owns, At, InHand
    <3> QED
      BY <2>2, <3>1, ZenonT(30)
  <2> QED
    BY <2>1, <2>2, FaultMoves, Zenon
<1>2. UNCHANGED <<setup, row, got, past, lock>>
  BY Zenon DEF StatementFails, Crash
<1>3. excused \subseteq excused' /\ (At(r, "publish") => relay[r].event \in excused')
  BY FaultMoves
<1>4. setup.locks => \A q \in Replicas : \A e \in InHand(q) \ excused' : Holder(lock') = q
  BY <1>2, <1>3, HoldersKept
<1> QED
  BY <1>1, <1>2, <1>3, <1>4, QuietAlone, ZenonT(15)

\* The lock runs out when its owner has nothing in hand, or what it has is
\* excused.
LEMMA TimeAlone ==
    ASSUME TypeOK, AloneInv, Elapse \/ Overrun
    PROVE  AloneInv'
<1>1. UNCHANGED <<setup, row, got, past, relay>> /\ excused \subseteq excused'
  BY ZenonT(15) DEF Elapse, Overrun
<1>2. ASSUME setup.locks, NEW q \in Replicas, NEW e \in InHand(q) \ excused'
      PROVE  Holder(lock') = q
  <2>1. Holder(lock) = q /\ relay[q].at \in {"next", "publish", "fail"}
    BY <1>1, <1>2, SMTT(30) DEF AloneInv, Owns
  <2>2. Live(lock) /\ lock.owner = q
    BY <2>1, HolderLive
  <2>3. InPass(q)
    BY <2>1 DEF InPass
  <2>4. ~Overrun
    BY <1>2, <2>2 DEF Overrun
  <2>5. lock.left # 1 /\ lock' = Elapsed(lock)
    BY <2>2, <2>3, <2>4, ZenonT(15) DEF Elapse
  <2>6. lock \in [owner: Replicas \union {None}, left: 0..LockTtl] /\ LockTtl \in Nat
    BY OutboxAssumption DEF TypeOK, Entries
  <2>7. lock'.owner = q /\ lock'.left > 0
    BY <2>2, <2>5, <2>6 DEF Elapsed, Live
  <2> QED
    BY <2>2, <2>7, ZenonT(15) DEF Holder, Live, Present
<1> QED
  BY <1>1, <1>2, AsideAlone, ZenonT(15)

\* Services and Close touch neither rows that count nor the lock.
LEMMA OtherAlone ==
    ASSUME TypeOK, AloneInv,
           \/ \E s \in Services : Store(s) \/ Commit(s) \/ Rollback(s)
           \/ \E r \in Replicas : Close(r)
           \/ UNCHANGED vars
    PROVE  AloneInv'
<1>1. UNCHANGED <<setup, row, got, past, relay, excused, lock>>
  BY DEF Store, Commit, Rollback, Close, vars
<1>2. excused \subseteq excused'
  BY <1>1
<1>3. setup.locks => \A q \in Replicas : \A e \in InHand(q) \ excused' : Holder(lock') = q
  BY <1>1, <1>2, HoldersKept, ZenonT(15)
<1> QED
  BY <1>1, <1>2, <1>3, AsideAlone, ZenonT(15)

\* The other passes, and the other events, of a step of r that leaves the lock.
LEMMA OthersOwn ==
    ASSUME TypeOK, AloneInv, UNCHANGED <<setup, lock>>, excused \subseteq excused',
           NEW r \in Replicas, NEW at, NEW batch, NEW event, NEW todo,
           Is(r, at, batch, event, todo),
           \A e \in Events : past'[e] = "clean" => past[e] = "clean",
           setup.locks => \A q \in Replicas \ {r} : \A e \in InHand(q) \ excused' : row'[e] = row[e]
    PROVE  \A q \in Replicas \ {r} : Owns(q)'
<1> SUFFICES ASSUME NEW q \in Replicas \ {r} PROVE Owns(q)'
  BY ZenonT(15)
<1>1. relay'[q] = relay[q] /\ Owns(q)
  BY ZenonT(15) DEF Is, AloneInv
<1>2. setup.locks => \A e \in InHand(q) \ excused' : Holder(lock') = q /\ row'[e] = row[e]
  BY <1>1, Zenon DEF Owns
<1> QED
  BY <1>1, <1>2, OwnsKept, ZenonT(30)

\* A pass reads under the lock what is neither published nor parked; what it
\* reads without the lock is excused.
LEMMA ReadAlone ==
    ASSUME TypeOK, AloneInv, NEW r \in Replicas, Read(r)
    PROVE  AloneInv'
<1>1. PICK pending \in SUBSET Rows :
         /\ pending \subseteq Events
         /\ r \in stop => pending = {}
         /\ r \notin stop => pending \in PendingAll(setup.batch)
         /\ Is(r, "next", [e \in pending |-> row[e].attempts], 0, {})
         /\ excused' = IF Holder(lock) = r THEN excused ELSE excused \union pending
  BY ReadMoves, ZenonT(30)
<1>2. UNCHANGED <<setup, row, got, past, lock>> /\ At(r, "read")
  BY DEF Read
<1>3. excused \subseteq excused'
  BY <1>1
<1>4. \A q \in Replicas \ {r} : Owns(q)'
  BY <1>1, <1>2, <1>3, OthersOwn, Zenon
<1>5. Owns(r)'
  <2>1. pending \subseteq Pending
    BY <1>1, ZenonT(15) DEF PendingAll
  <2>2. relay'[r].batch = [e \in pending |-> row[e].attempts] /\ relay'[r].at = "next"
    BY <1>1 DEF Is
  <2>3. InHand(r)' = pending
    BY <2>2, ZenonT(15) DEF InHand
  <2>4. ASSUME NEW e \in pending, e \notin excused'
        PROVE  /\ Holder(lock') = r /\ ~row'[e].published /\ ~row'[e].failed
               /\ relay'[r].batch[e] = row'[e].attempts
    BY <1>1, <1>2, <2>1, <2>2, <2>4, ZenonT(30) DEF Pending
  <2> QED
    BY <2>2, <2>3, <2>4 DEF Owns, At
<1>6. ASSUME setup.locks, NEW e \in Events PROVE Once(e)'
  <2>1. \A q \in Replicas : At(q, "publish") => relay'[q] = relay[q]
    BY <1>1, <1>2, Zenon DEF Is, At
  <2>2. Once(e)
    BY <1>6, ZenonT(15) DEF AloneInv
  <2> QED
    BY <1>2, <1>3, <2>1, <2>2, OnceKept, ZenonT(30) DEF At
<1> QED
  BY <1>2, <1>4, <1>5, <1>6 DEF AloneInv

\* Picking an event delivers nothing yet.
LEMMA NextAlone ==
    ASSUME TypeOK, AloneInv, NEW r \in Replicas, NextEvent(r)
    PROVE  AloneInv'
<1>1. UNCHANGED <<setup, row, got, past, lock, excused>> /\ At(r, "next")
  BY DEF NextEvent
<1>2. excused \subseteq excused' /\ ~At(r, "publish")
  BY <1>1, ZenonT(15) DEF At
<1>3. CASE Is(r, "release", Nothing, 0, {})
  <2>1. DOMAIN Nothing = {}
    BY ZenonT(15) DEF Nothing
  <2>2. setup.locks => \A q \in Replicas : \A e \in InHand(q) \ excused' : Holder(lock') = q
    BY <1>1, <1>2, HoldersKept, ZenonT(15)
  <2> QED
    BY <1>1, <1>2, <1>3, <2>1, <2>2, QuietAlone
<1>4. CASE \E e \in Events : Oldest(InHand(r), e) /\ Is(r, "publish", relay[r].batch, e, Answering(e))
  <2>1. PICK e \in Events : Is(r, "publish", relay[r].batch, e, Answering(e))
    BY <1>4, ZenonT(15)
  <2>2. \A q \in Replicas \ {r} : Owns(q)'
    BY <1>1, <1>2, <2>1, OthersOwn, ZenonT(15)
  <2>3. relay'[r].batch = relay[r].batch /\ relay'[r].at = "publish"
    BY <2>1, ZenonT(15) DEF Is
  <2>4. Owns(r)'
    <3>1. InHand(r)' = InHand(r) /\ Owns(r)
      BY <2>3, ZenonT(15) DEF InHand, AloneInv
    <3> QED
      BY <1>1, <2>3, <3>1, Zenon DEF Owns, At
  <2>5. ASSUME setup.locks, NEW f \in Events PROVE Once(f)'
    <3>1. \A q \in Replicas : At(q, "publish") => relay'[q] = relay[q]
      BY <1>2, <2>1 DEF Is
    <3>2. Once(f)
      BY <2>5, ZenonT(15) DEF AloneInv
    <3> QED
      BY <1>1, <1>2, <3>1, <3>2, OnceKept, ZenonT(30) DEF At
  <2> QED
    BY <1>1, <2>2, <2>4, <2>5 DEF AloneInv
<1> QED
  BY <1>3, <1>4, NextMoves

\* What the holder of the lock delivers, no listener has from an earlier pass.
LEMMA PublishAlone ==
    ASSUME TypeOK, TypeOK', AloneInv, NEW r \in Replicas, Publish(r)
    PROVE  AloneInv'
<1>1. PICK l \in relay[r].todo :
         /\ Is(r, "publish", relay[r].batch, relay[r].event, relay[r].todo \ {l})
         /\ got' = [got EXCEPT ![relay[r].event][l] = IF @ < Often THEN @ + 1 ELSE @]
  BY PublishMoves, ZenonT(30)
<1>2. UNCHANGED <<setup, row, past, lock, excused>> /\ At(r, "publish")
  BY DEF Publish
<1>3. PICK e \in Events : e = relay[r].event /\ e \in InHand(r)
  BY <1>2, InHandEvent
<1>4. l \in 1..Len(Listeners)
  BY PassFields, ZenonT(15)
<1>5. /\ got'[e][l] = IF got[e][l] < Often THEN got[e][l] + 1 ELSE got[e][l]
      /\ \A f \in Events, m \in 1..Len(Listeners) : f # e \/ m # l => got'[f][m] = got[f][m]
  <2>1. got' = [got EXCEPT ![e][l] = IF @ < Often THEN @ + 1 ELSE @]
    BY <1>1, <1>3
  <2> QED
    BY <1>4, <2>1, GotMoves, ZenonT(30)
<1>6. \A q \in Replicas \ {r} : Owns(q)'
  BY <1>1, <1>2, OthersOwn, SMTT(30)
<1>7. relay'[r].batch = relay[r].batch /\ relay'[r].at = "publish" /\ relay'[r].event = e
      /\ relay'[r].todo = relay[r].todo \ {l} /\ \A q \in Replicas \ {r} : relay'[q] = relay[q]
  BY <1>1, <1>3 DEF Is
<1>8. Owns(r)'
  <2>1. InHand(r)' = InHand(r) /\ Owns(r)
    BY <1>7, Zenon DEF InHand, AloneInv
  <2> QED
    BY <1>2, <1>7, <2>1, ZenonT(30) DEF Owns, At
<1>9. \A q \in Replicas : At(q, "publish") =>
        /\ relay'[q].at = "publish" /\ relay'[q].event = relay[q].event
        /\ relay'[q].todo \subseteq relay[q].todo
  BY <1>3, <1>7, ZenonT(15) DEF At
<1>10. ASSUME setup.locks, NEW f \in Events PROVE Once(f)'
  <2>1. Once(f)
    BY <1>10, ZenonT(15) DEF AloneInv
  <2>2. CASE f # e
    <3>1. \A m \in 1..Len(Listeners) : got'[f][m] = got[f][m]
      BY <1>5, <2>2, ZenonT(15)
    <3>2. excused \subseteq excused'
      BY <1>2, ZenonT(15)
    <3> QED
      BY <1>2, <1>9, <2>1, <3>1, <3>2, OnceKept, ZenonT(15)
  <2>3. CASE f = e
    <3>1. CASE e \in excused \/ past[e] # "clean"
      BY <1>2, <2>1, <2>3, <3>1, ZenonT(15) DEF Once
    <3>2. CASE e \notin excused /\ past[e] = "clean"
      <4>1. Marked(e) /\ \A m \in 1..Len(Listeners) : got[e][m] <= 1
        BY <2>1, <2>3, <3>2, ZenonT(15) DEF Once
      <4>2. ~row[e].published
        BY <1>3, <1>10, <3>2, Zenon DEF AloneInv, Owns
      <4>3. ~(got[e][l] > 0)
        <5> SUFFICES ASSUME got[e][l] > 0 PROVE FALSE
          BY ZenonT(15)
        <5>1. PICK q \in Replicas : At(q, "publish") /\ relay[q].event = e /\ l \notin relay[q].todo
          BY <1>4, <4>1, <4>2, ZenonT(15) DEF Marked
        <5>2. e \in InHand(q)
          BY <5>1, InHandEvent, ZenonT(15)
        <5>3. q = r
          BY <1>3, <1>10, <3>2, <5>2, OneHand, ZenonT(15)
        <5> QED
          BY <5>1, <5>3, ZenonT(15)
      <4>4. got[e][l] \in 0..Often
        <5>1. got[e] \in [1..Len(Listeners) -> 0..Often]
          BY Zenon DEF TypeOK
        <5> QED
          BY <1>4, <5>1, ZenonT(15)
      <4>5. \A m \in 1..Len(Listeners) : got'[e][m] <= 1
        <5>1. got'[e][l] = 1
          BY <1>5, <4>3, <4>4, SMTT(30) DEF Often
        <5> QED
          BY <1>5, <4>1, <5>1, SMTT(30)
      <4>6. ASSUME NEW m \in 1..Len(Listeners), got'[e][m] > 0
            PROVE  \E q \in Replicas : relay'[q].at = "publish" /\ relay'[q].event = e /\ m \notin relay'[q].todo
        <5>1. CASE m = l
          BY <1>7, <5>1
        <5>2. CASE m # l
          <6>1. got[e][m] > 0
            BY <1>5, <4>6, <5>2, ZenonT(15)
          <6>2. PICK q \in Replicas : At(q, "publish") /\ relay[q].event = e /\ m \notin relay[q].todo
            BY <4>1, <4>2, <6>1, ZenonT(15) DEF Marked
          <6>3. relay'[q].at = "publish" /\ relay'[q].event = e /\ m \notin relay'[q].todo
            BY <1>9, <6>2, ZenonT(15)
          <6> QED
            BY <6>3
        <5> QED
          BY <5>1, <5>2, SMTT(30)
      <4>7. Marked(e)'
        BY <4>6 DEF Marked, At
      <4> QED
        BY <1>2, <2>1, <2>3, <4>5, <4>7, ZenonT(15) DEF Once
    <3> QED
      BY <3>1, <3>2, ZenonT(15)
  <2> QED
    BY <2>2, <2>3, ZenonT(15)
<1> QED
  BY <1>2, <1>6, <1>8, <1>10, ZenonT(30) DEF AloneInv

\* After a failed delivery the event is not clean any more.
LEMMA FailsAlone ==
    ASSUME TypeOK, AloneInv, NEW r \in Replicas, PublishFails(r)
    PROVE  AloneInv'
<1>1. Is(r, "fail", relay[r].batch, relay[r].event, relay[r].todo)
  BY GotoMoves, ZenonT(15) DEF PublishFails, Ats
<1>2. UNCHANGED <<setup, row, got, lock, excused>> /\ At(r, "publish") /\ excused \subseteq excused'
  BY ZenonT(15) DEF PublishFails
<1>3. PICK e \in Events : e = relay[r].event /\ e \in InHand(r)
  BY <1>2, InHandEvent, ZenonT(15)
<1>4. past'[e] # "clean" /\ \A f \in Events \ {e} : past'[f] = past[f]
  BY <1>3, Zenon DEF PublishFails, TypeOK
<1>5. \A f \in Events : past'[f] = "clean" => past[f] = "clean"
  BY <1>4, ZenonT(15)
<1>6. \A q \in Replicas \ {r} : Owns(q)'
  BY <1>1, <1>2, <1>5, OthersOwn, ZenonT(30)
<1>7. relay'[r].batch = relay[r].batch /\ relay'[r].at = "fail" /\ relay'[r].event = e
      /\ \A q \in Replicas \ {r} : relay'[q] = relay[q]
  BY <1>1, <1>3, ZenonT(15) DEF Is
<1>8. Owns(r)'
  <2>1. InHand(r)' = InHand(r) /\ Owns(r)
    BY <1>7 DEF InHand, AloneInv
  <2> QED
    BY <1>2, <1>4, <1>7, <2>1, Zenon DEF Owns, At
<1>9. ASSUME setup.locks, NEW f \in Events PROVE Once(f)'
  <2>1. Once(f)
    BY <1>9, ZenonT(15) DEF AloneInv
  <2>2. CASE f # e
    BY <1>2, <1>3, <1>5, <1>7, <2>1, <2>2, OnceKept, ZenonT(30) DEF At
  <2>3. CASE f = e
    BY <1>2, <1>4, <2>1, <2>3, ZenonT(30) DEF Once
  <2> QED
    BY <2>2, <2>3
<1> QED
  BY <1>2, <1>6, <1>8, <1>9, ZenonT(15) DEF AloneInv

\* A pass that is through with its event: no other has it in hand, and the rest
\* of its batch is as it was.
LEMMA AdvanceAlone ==
    ASSUME TypeOK, AloneInv, UNCHANGED <<setup, lock, excused, got>>,
           NEW r \in Replicas, Is(r, "next", Rest(r), 0, {}),
           NEW e \in Events, e = relay[r].event, e \in InHand(r),
           \A f \in Events \ {e} : row'[f] = row[f] /\ past'[f] = past[f],
           past'[e] = "clean" => past[e] = "clean",
           setup.locks => Once(e)'
    PROVE  AloneInv'
<1>1. excused \subseteq excused' /\ \A f \in Events : past'[f] = "clean" => past[f] = "clean"
  BY ZenonT(30)
<1>2. ASSUME setup.locks, NEW q \in Replicas \ {r}, NEW f \in InHand(q) \ excused'
      PROVE  row'[f] = row[f]
  <2>1. f \in Events
    BY PassFields, ZenonT(15)
  <2>2. f # e
    BY <1>2, OneHand, ZenonT(30)
  <2> QED
    BY <2>1, <2>2, ZenonT(15)
<1>3. \A q \in Replicas \ {r} : Owns(q)'
  BY <1>1, <1>2, OthersOwn, ZenonT(30)
<1>4. relay'[r].at = "next" /\ relay'[r].batch = Rest(r) /\ \A q \in Replicas \ {r} : relay'[q] = relay[q]
  BY ZenonT(30) DEF Is
<1>5. Owns(r)'
  <2>1. InHand(r)' = InHand(r) \ {e} /\ InHand(r) \subseteq Events
    BY <1>4, RestSound, PassFields, ZenonT(30) DEF InHand
  <2>2. \A f \in InHand(r) \ {e} : Rest(r)[f] = relay[r].batch[f]
    BY ZenonT(30) DEF Rest
  <2>3. ASSUME setup.locks, NEW f \in InHand(r) \ {e}, f \notin excused'
        PROVE  /\ Holder(lock') = r /\ ~row'[f].published /\ ~row'[f].failed
               /\ relay'[r].batch[f] = row'[f].attempts
    <3>1. /\ Holder(lock) = r /\ ~row[f].published /\ ~row[f].failed
          /\ relay[r].batch[f] = row[f].attempts
      BY <2>3, ZenonT(30) DEF AloneInv, Owns
    <3>2. row'[f] = row[f]
      BY <2>1, <2>3, ZenonT(30)
    <3> QED
      BY <1>4, <2>2, <3>1, <3>2, ZenonT(30)
  <2> QED
    BY <1>4, <2>1, <2>3, ZenonT(30) DEF Owns, At
<1>6. ASSUME setup.locks, NEW f \in Events \ {e} PROVE Once(f)'
  <2>1. Once(f)
    BY <1>6, ZenonT(30) DEF AloneInv
  <2>2. \A q \in Replicas : At(q, "publish") /\ relay[q].event = f => relay'[q] = relay[q]
    BY <1>4, Zenon
  <2> QED
    BY <1>1, <2>1, <2>2, OnceKept, ZenonT(30) DEF At
<1> QED
  BY <1>3, <1>5, <1>6, ZenonT(30) DEF AloneInv

\* A failure counts on from what the row has: parked is parked for its attempts.
LEMMA FailureAlone ==
    ASSUME TypeOK, AloneInv, NEW r \in Replicas, RecordFailure(r)
    PROVE  AloneInv'
<1>1. UNCHANGED <<setup, lock, excused, got>> /\ At(r, "fail") /\ excused \subseteq excused'
  BY ZenonT(15) DEF RecordFailure
<1>2. CASE r \in stop
  <2>1. Is(r, "release", Nothing, 0, {}) /\ UNCHANGED <<row, past>> /\ DOMAIN Nothing = {}
    BY <1>2, EmptyMoves, Zenon DEF RecordFailure, Abandon, Ats, Nothing
  <2>2. setup.locks => \A q \in Replicas : \A e \in InHand(q) \ excused' : Holder(lock') = q
    BY <1>1, HoldersKept, ZenonT(15)
  <2>3. ~At(r, "publish")
    BY <1>1, ZenonT(30) DEF At
  <2> QED
    BY <1>1, <2>1, <2>2, <2>3, QuietAlone, SMTT(20)
<1>3. CASE r \notin stop
  <2>1. Is(r, "next", Rest(r), 0, {})
    BY <1>3, AdvanceMoves, ZenonT(15) DEF RecordFailure
  <2>2. PICK e \in Events :
           /\ e = relay[r].event /\ e \in InHand(r)
           /\ row'[e].published = row[e].published /\ row'[e].attempts = row[e].attempts + 1
           /\ row'[e].failed = (row[e].failed \/ LastAttempt(relay[r].batch[e]))
           /\ \A f \in Events \ {e} : row'[f] = row[f]
           /\ past'[e] = "recorded"
           /\ \A f \in Events \ {e} : past'[f] = past[f]
    BY <1>3, FailureRow, ZenonT(30)
  <2>3. ASSUME setup.locks, e \notin excused, row'[e].failed
        PROVE  ~row'[e].published /\ row'[e].attempts >= MaxAttempts
    <3>1. ~row[e].published /\ ~row[e].failed /\ relay[r].batch[e] = row[e].attempts
      BY <2>2, <2>3, ZenonT(30) DEF AloneInv, Owns
    <3>2. LastAttempt(row[e].attempts)
      BY <2>2, <2>3, <3>1, ZenonT(30)
    <3> QED
      BY <2>2, <3>1, <3>2, ZenonT(30) DEF LastAttempt
  <2>4. setup.locks => Once(e)'
    BY <1>1, <2>2, <2>3, ZenonT(30) DEF Once
  <2> QED
    BY <1>1, <2>1, <2>2, <2>4, AdvanceAlone, ZenonT(30)
<1> QED
  BY <1>2, <1>3, ZenonT(15)

\* A mark ends what the deliveries began, and no other pass has the event.
LEMMA MarkAlone ==
    ASSUME TypeOK, AloneInv, NEW r \in Replicas, MarkPublished(r)
    PROVE  AloneInv'
<1>1. UNCHANGED <<setup, lock, excused, got, past>>
  BY DEF MarkPublished
<1>2. Is(r, "next", Rest(r), 0, {})
  BY AdvanceMoves, ZenonT(15) DEF MarkPublished
<1>3. PICK e \in Events :
         /\ e = relay[r].event /\ e \in InHand(r)
         /\ row'[e].published /\ row'[e].failed = row[e].failed
         /\ \A f \in Events \ {e} : row'[f] = row[f]
  BY MarkRow, ZenonT(15)
<1>4. ASSUME setup.locks PROVE Once(e)'
  <2>1. Once(e) /\ (e \notin excused => ~row[e].failed)
    BY <1>3, <1>4, Zenon DEF AloneInv, Owns
  <2> QED
    BY <1>1, <1>3, <2>1, ZenonT(30) DEF Once, Marked
<1> QED
  BY <1>1, <1>2, <1>3, <1>4, AdvanceAlone, Zenon

\* Every step keeps a pass alone with what it has in hand.
LEMMA NextAloneInv ==
    ASSUME TypeOK, TypeOK', AloneInv, [Next]_vars
    PROVE  AloneInv'
<1>1. ASSUME NEW e \in Events, Retry(e) PROVE AloneInv'
  BY <1>1, RetryAlone, ZenonT(15)
<1>2. ASSUME NEW r \in Replicas, Step(r) \/ StatementFails(r) \/ Crash(r) PROVE AloneInv'
  BY <1>2, PassAlone, ReadAlone, NextAlone, PublishAlone, FailsAlone, FailureAlone, MarkAlone,
     ReleaseAlone, StoppedAlone, FaultAlone DEF Step
<1> QED
  BY <1>1, <1>2, TimeAlone, OtherAlone DEF Next

\* The strengthening is an invariant.
LEMMA AloneKept == Spec => []AloneInv
<1>1. Init => AloneInv
  BY InitAlone
<1>2. TypeOK /\ TypeOK' /\ AloneInv /\ [Next]_vars => AloneInv'
  BY NextAloneInv
<1> QED
  BY <1>1, <1>2, OutboxTypes, PTL DEF Spec

\* With the lock no listener receives an event twice, unless a delivery of it
\* failed, its mark was lost or its pass outlived the lock: for any number of
\* replicas, listeners and events.
THEOREM NoSecondReceipt == Spec => []NoDuplicate
  BY AloneKept, AloneInvImplies, PTL

\* With the lock an event is parked unpublished and after MaxAttempts recorded
\* failures, unless its pass outlived the lock.
THEOREM ParkedAfterAttempts == Spec => []ParkedGaveUp
  BY AloneKept, AloneInvImplies, PTL
============================================================================
