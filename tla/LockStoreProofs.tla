-------------------------- MODULE LockStoreProofs --------------------------
(* That the array, redis and database stores keep a lock for as long as it  *)
(* was granted, and implement the lock cache.Locking promises, for any      *)
(* clients, tokens and ttl.                                                 *)
EXTENDS LockStore, TLAPS

\* A call that has not been granted the lock, and may be.
Acquiring == {"take", "update", "owner", "drop", "unlink"}

\* Statements only the file store makes.
OnFiles == {"owner", "drop", "unlink", "sweep", "remove"}

\* The token is this call's own: Acquire drew it, no ForceRelease copied it.
Minted(c) == call[c].owns \/ call[c].at \in Acquiring

\* Where a call stands and what it has.
Shape(c) ==
    /\ call[c].at = "idle" => call[c] = Idle
    /\ call[c].at # "idle" => call[c].token \in Tokens
    /\ call[c].at \in Acquiring => ~call[c].owns
    /\ call[c].at \in OnFiles => driver = "file"

\* Two calls never share a token that either of them drew.
Unique == \A c, d \in Clients : c # d /\ Minted(c) /\ Minted(d) => call[c].token # call[d].token

\* The store does not know the token of a call before it was granted.
NotYet == \A c \in Clients : call[c].at \in Acquiring => entry.owner # call[c].token

LockInv ==
    /\ TypeOK
    /\ \A c \in Clients : Shape(c)
    /\ Unique
    /\ NotYet
    /\ HolderKeepsLock

----------------------------------------------------------------------------
(* The ways a step changes the lock                                         *)

\* A grant that has time left is in the store, and live.
LEMMA KeptIsLive ==
    ASSUME LockInv, driver \in Atomic,
           NEW c \in Clients, call[c].owns, call[c].lease > 0
    PROVE  /\ entry = Taken(call[c].token, call[c].lease)
           /\ call[c].token \in Tokens
           /\ Live(entry)
<1>1. entry = Taken(call[c].token, call[c].lease)
  BY DEF LockInv, HolderKeepsLock, KeepsLock
<1>2. call[c].token \in Tokens
  BY DEF LockInv, Shape, Idle
<1>3. QED
  BY <1>1, <1>2, LockStoreAssumption DEF Live, Present, Taken

\* A call goes on to its next statement; the store is not touched.
LEMMA Moves ==
    ASSUME LockInv, NEW c \in Clients, NEW s \in Statements \ {"idle"},
           call[c].at # "idle",
           s \in Acquiring => call[c].at \in Acquiring,
           s \in OnFiles => driver = "file",
           Goto(c, s), UNCHANGED <<driver, entry>>
    PROVE  LockInv'
<1>1. call' = [call EXCEPT ![c].at = s]
  BY DEF Goto
<1>2. TypeOK'
  BY <1>1 DEF LockInv, TypeOK
<1>3. \A d \in Clients : /\ d # c => call'[d] = call[d]
                         /\ call'[d].token = call[d].token
                         /\ call'[d].owns = call[d].owns
                         /\ call'[d].lease = call[d].lease
                         /\ d = c => call'[d].at = s
  BY <1>1 DEF LockInv, TypeOK
<1>4. (\A d \in Clients : Shape(d))'
  BY <1>3, ZenonT(30) DEF LockInv, Shape, Idle, Acquiring
<1>5. Unique'
  BY <1>3 DEF LockInv, Unique, Minted
<1>6. NotYet'
  BY <1>3 DEF LockInv, NotYet
<1>7. HolderKeepsLock'
  BY <1>3 DEF LockInv, HolderKeepsLock, KeepsLock
<1>8. QED
  BY <1>2, <1>4, <1>5, <1>6, <1>7 DEF LockInv

\* A call returns without the lock, or dies.  What it removed from the store
\* was nobody's, or the store is one of files.
LEMMA Returns ==
    ASSUME LockInv, NEW c \in Clients,
           entry' \in {entry, Absent},
           entry' = entry \/ driver = "file" \/ ~Live(entry),
           Return(c), UNCHANGED driver
    PROVE  LockInv'
<1>1. call' = [call EXCEPT ![c] = Idle]
  BY DEF Return
<1>2. TypeOK'
  BY <1>1, LockStoreAssumption DEF LockInv, TypeOK, Idle, Statements, Entries, Absent
<1>3. \A d \in Clients : (d # c => call'[d] = call[d]) /\ (d = c => call'[d] = Idle)
  BY <1>1 DEF LockInv, TypeOK
<1>4. (\A d \in Clients : Shape(d))'
  <2>1. Shape(c)'
    <3>1. Idle.at = "idle"
      BY DEF Idle
    <3>2. QED
      BY <1>3, <3>1 DEF Shape, Acquiring, OnFiles
  <2>2. ASSUME NEW d \in Clients, d # c PROVE Shape(d)'
    BY <1>3, <2>2 DEF LockInv, Shape
  <2>3. QED
    BY <2>1, <2>2
<1>5. Unique'
  BY <1>3 DEF LockInv, Unique, Minted, Idle, Acquiring
<1>6. NotYet'
  <2>1. \A d \in Clients : call[d].at \in Acquiring => call[d].token # None
    BY LockStoreAssumption DEF LockInv, Shape, Acquiring
  <2>2. QED
    BY <1>3, <2>1 DEF LockInv, NotYet, Idle, Acquiring, Absent
<1>7. HolderKeepsLock'
  <2>1. \A d \in Clients : call'[d].owns => call'[d] = call[d]
    BY <1>3 DEF Idle
  <2>2. CASE entry' = entry
    BY <2>1, <2>2 DEF LockInv, HolderKeepsLock, KeepsLock
  <2>3. CASE driver = "file"
    BY <2>3 DEF HolderKeepsLock, Atomic
  <2>4. CASE ~Live(entry)
    BY <2>1, <2>4, KeptIsLive DEF HolderKeepsLock, KeepsLock
  <2>5. QED
    BY <2>2, <2>3, <2>4
<1>8. QED
  BY <1>2, <1>4, <1>5, <1>6, <1>7 DEF LockInv

\* The holder goes on, and an expired row goes with the lottery.
LEMMA Prunes ==
    ASSUME LockInv, NEW c \in Clients,
           call[c].at = "lottery", Goto(c, "working"),
           entry' \in {entry, Absent}, entry' = entry \/ ~Live(entry), UNCHANGED driver
    PROVE  LockInv'
<1>1. call' = [call EXCEPT ![c].at = "working"]
  BY DEF Goto
<1>2. TypeOK'
  BY <1>1, LockStoreAssumption DEF LockInv, TypeOK, Statements, Entries, Absent
<1>3. /\ \A d \in Clients : d # c => call'[d] = call[d]
      /\ call'[c].at = "working" /\ call'[c].token = call[c].token
      /\ call'[c].owns = call[c].owns /\ call'[c].lease = call[c].lease
  BY <1>1 DEF LockInv, TypeOK
<1>4. (\A d \in Clients : Shape(d))'
  BY <1>3 DEF LockInv, Shape, Acquiring, OnFiles
<1>5. Unique'
  BY <1>3 DEF LockInv, Unique, Minted, Acquiring
<1>6. NotYet'
  <2>1. \A d \in Clients : call[d].at \in Acquiring => call[d].token # None
    BY LockStoreAssumption DEF LockInv, Shape, Acquiring
  <2>2. QED
    BY <1>3, <2>1 DEF LockInv, NotYet, Acquiring, Absent
<1>7. HolderKeepsLock'
  <2>1. CASE entry' = entry
    BY <1>3, <2>1 DEF LockInv, HolderKeepsLock, KeepsLock
  <2>2. CASE ~Live(entry)
    BY <1>3, <2>2, KeptIsLive DEF HolderKeepsLock, KeepsLock
  <2>3. QED
    BY <2>1, <2>2
<1>8. QED
  BY <1>2, <1>4, <1>5, <1>6, <1>7 DEF LockInv

\* What is left of a ttl is no more than the ttl.
LEMMA Leases ==
    ASSUME LockInv
    PROVE  Ttl \in 0..Ttl /\ \A c \in Clients : call[c].lease \in 0..Ttl
BY LockStoreAssumption DEF LockInv, TypeOK

\* The store grants the lock, with so much of the ttl left: the key was free,
\* absent or expired.
LEMMA Grants ==
    ASSUME LockInv, NEW c \in Clients, NEW s \in {"working", "lottery"}, NEW left \in 0..Ttl,
           call[c].at \in Acquiring, ~Live(entry),
           Granted(c, s, left), UNCHANGED driver
    PROVE  LockInv'
<1>1. /\ entry' = Taken(call[c].token, left)
      /\ call' = [call EXCEPT ![c] = [call[c] EXCEPT !.at = s, !.owns = TRUE, !.lease = left]]
  BY DEF Granted
<1>2. call[c].token \in Tokens /\ ~call[c].owns
  BY DEF LockInv, Shape, Acquiring
<1>3. TypeOK'
  <2>1. entry' \in Entries(Tokens, Ttl)
    BY <1>1, <1>2, LockStoreAssumption DEF Entries, Taken
  <2>2. [call[c] EXCEPT !.at = s, !.owns = TRUE, !.lease = left]
            \in [at: Statements, token: Tokens \union {None}, pass: {1, 2}, owns: BOOLEAN, lease: 0..Ttl]
    <3>1. call[c] \in [at: Statements, token: Tokens \union {None}, pass: {1, 2}, owns: BOOLEAN, lease: 0..Ttl]
      BY DEF LockInv, TypeOK
    <3>2. s \in Statements
      BY DEF Statements
    <3>3. QED
      BY <3>1, <3>2, Zenon
  <2>3. QED
    BY <1>1, <2>1, <2>2 DEF LockInv, TypeOK
<1>4. /\ \A d \in Clients : d # c => call'[d] = call[d]
      /\ call'[c].at = s /\ call'[c].owns /\ call'[c].lease = left
      /\ call'[c].token = call[c].token
  BY <1>1 DEF LockInv, TypeOK
<1>5. (\A d \in Clients : Shape(d))'
  BY <1>2, <1>4 DEF LockInv, Shape, Acquiring, OnFiles
<1>6. Unique'
  BY <1>4 DEF LockInv, Unique, Minted
<1>7. NotYet'
  BY <1>1, <1>4 DEF LockInv, NotYet, Unique, Minted, Acquiring, Taken
<1>8. HolderKeepsLock'
  <2>1. SUFFICES ASSUME driver \in Atomic, NEW d \in Clients,
                        call'[d].owns, call'[d].lease > 0
                 PROVE  entry' = Taken(call'[d].token, call'[d].lease)
    BY DEF HolderKeepsLock, KeepsLock
  <2>2. CASE d = c
    BY <1>1, <1>4, <2>2
  <2>3. CASE d # c
    BY <1>4, <2>1, <2>3, KeptIsLive
  <2>4. QED
    BY <2>2, <2>3
<1>9. QED
  BY <1>3, <1>5, <1>6, <1>7, <1>8 DEF LockInv

\* A release removes the key, in its own name or, forced, in the holder's; on
\* files it may remove anything.
LEMMA Removes ==
    ASSUME LockInv, NEW c \in Clients, NEW e,
           call[c].at \notin Acquiring \union {"idle"},
           e \in {entry, Absent},
           e = entry \/ entry.owner = call[c].token \/ driver = "file",
           Remove(c, e)
    PROVE  LockInv'
<1>1. /\ entry' = e /\ driver' = driver
      /\ call' = [d \in Clients |->
                     IF d = c THEN Idle
                     ELSE IF ~call[c].owns /\ LosesLock(d, e) THEN [call[d] EXCEPT !.lease = 0]
                     ELSE call[d]]
  BY DEF Remove
<1>2. TypeOK'
  BY <1>1, LockStoreAssumption DEF LockInv, TypeOK, Idle, Statements, Entries, Absent
<1>3. /\ call'[c] = Idle
      /\ \A d \in Clients \ {c} :
             /\ call'[d].at = call[d].at /\ call'[d].owns = call[d].owns
             /\ call'[d].token = call[d].token
             /\ call'[d].lease > 0 => call'[d] = call[d]
             /\ call[d].at = "idle" => call'[d] = call[d]
  <2>1. \A d \in Clients : call[d].at = "idle" => ~call[d].owns
    BY DEF LockInv, Shape, Idle
  <2>2. QED
    BY <1>1, <2>1 DEF LockInv, TypeOK, LosesLock
<1>4. (\A d \in Clients : Shape(d))'
  BY <1>1, <1>3, ZenonT(20) DEF LockInv, Shape, Idle, Acquiring, OnFiles
<1>5. Unique'
  BY <1>3 DEF LockInv, Unique, Minted, Idle, Acquiring
<1>6. NotYet'
  <2>1. \A d \in Clients : call[d].at \in Acquiring => call[d].token # None
    BY LockStoreAssumption DEF LockInv, Shape, Acquiring
  <2>2. QED
    BY <1>1, <1>3, <2>1 DEF LockInv, NotYet, Idle, Acquiring, Absent
<1>7. HolderKeepsLock'
  <2>1. SUFFICES ASSUME driver \in Atomic, NEW d \in Clients,
                        call'[d].owns, call'[d].lease > 0
                 PROVE  entry' = Taken(call'[d].token, call'[d].lease)
    BY <1>1 DEF HolderKeepsLock, KeepsLock
  <2>2. d # c /\ call'[d] = call[d]
    BY <1>3, <2>1 DEF Idle
  <2>3. entry = Taken(call[d].token, call[d].lease) /\ Live(entry) /\ call[d].token \in Tokens
    BY <2>1, <2>2, KeptIsLive
  <2>4. CASE e = entry
    BY <1>1, <2>2, <2>3, <2>4, Zenon
  <2>5. CASE e # entry
    <3>1. e = Absent /\ entry.owner = call[c].token
      BY <2>1, <2>5 DEF Atomic
    <3>2. call[d].token = call[c].token
      BY <2>3, <3>1 DEF Taken
    <3>3. ~call[c].owns
      BY <2>1, <2>2, <3>2 DEF LockInv, Unique, Minted
    <3>4. LosesLock(d, e)
      BY <2>1, <2>2, <2>3, <3>1, <3>2 DEF LosesLock, Live
    <3>5. call'[d].lease = 0
      BY <1>1, <2>2, <3>3, <3>4 DEF LockInv, TypeOK
    <3>6. QED
      BY <2>1, <3>5
  <2>6. QED
    BY <2>4, <2>5
<1>8. QED
  BY <1>2, <1>4, <1>5, <1>6, <1>7 DEF LockInv

\* Acquire draws a token that neither a call nor the store has.
LEMMA Draws ==
    ASSUME LockInv, NEW c \in Clients, Acquire(c)
    PROVE  LockInv'
<1>1. PICK t \in Fresh : call' = [call EXCEPT ![c] = [call[c] EXCEPT !.at = "take", !.token = t, !.lease = Ttl]]
  BY Zenon DEF Acquire
<1>2. /\ call[c] = Idle /\ driver' = driver /\ entry' = entry
      /\ t \in Tokens /\ t # entry.owner /\ \A d \in Clients : t # call[d].token
  BY DEF LockInv, Shape, Acquire, At, Fresh
<1>3. TypeOK'
  <2>1. [call[c] EXCEPT !.at = "take", !.token = t, !.lease = Ttl]
            \in [at: Statements, token: Tokens \union {None}, pass: {1, 2}, owns: BOOLEAN, lease: 0..Ttl]
    <3>1. call[c] \in [at: Statements, token: Tokens \union {None}, pass: {1, 2}, owns: BOOLEAN, lease: 0..Ttl]
      BY DEF LockInv, TypeOK
    <3>2. "take" \in Statements
      BY DEF Statements
    <3>3. QED
      BY <1>2, <3>1, <3>2, Leases, Zenon
  <2>2. QED
    BY <1>1, <1>2, <2>1 DEF LockInv, TypeOK
<1>4. /\ \A d \in Clients : d # c => call'[d] = call[d]
      /\ call'[c].at = "take" /\ call'[c].token = t /\ ~call'[c].owns
  BY <1>1, <1>2 DEF LockInv, TypeOK, Idle
<1>5. (\A d \in Clients : Shape(d))'
  BY <1>2, <1>4 DEF LockInv, Shape, OnFiles
<1>6. Unique'
  BY <1>2, <1>4 DEF LockInv, Unique, Minted
<1>7. NotYet'
  BY <1>2, <1>4 DEF LockInv, NotYet
<1>8. HolderKeepsLock'
  BY <1>2, <1>4 DEF LockInv, HolderKeepsLock, KeepsLock
<1>9. QED
  BY <1>3, <1>5, <1>6, <1>7, <1>8 DEF LockInv

\* ForceRelease copies the holder's token into a call that owns nothing.
LEMMA Forces ==
    ASSUME LockInv, NEW c \in Clients, ForceRelease(c)
    PROVE  LockInv'
<1>1. /\ call' = [call EXCEPT ![c] = [call[c] EXCEPT !.at = "release", !.token = entry.owner]]
      /\ driver' = driver /\ entry' = entry /\ call[c].at = "idle" /\ Live(entry)
  BY DEF ForceRelease, At
<1>2. call[c] = Idle /\ entry.owner \in Tokens
  BY <1>1 DEF LockInv, Shape, TypeOK, Entries, Live, Present
<1>3. TypeOK'
  BY <1>1, <1>2, ZenonT(30) DEF LockInv, TypeOK, Statements
<1>4. /\ \A d \in Clients : d # c => call'[d] = call[d]
      /\ call'[c].at = "release" /\ call'[c].token \in Tokens /\ ~call'[c].owns
  BY <1>1, <1>2 DEF LockInv, TypeOK, Idle
<1>5. (\A d \in Clients : Shape(d))'
  BY <1>1, <1>4 DEF LockInv, Shape, Acquiring, OnFiles
<1>6. Unique' /\ NotYet'
  BY <1>1, <1>4 DEF LockInv, Unique, NotYet, Minted, Acquiring
<1>7. HolderKeepsLock'
  BY <1>1, <1>4 DEF LockInv, HolderKeepsLock, KeepsLock
<1>8. QED
  BY <1>3, <1>5, <1>6, <1>7 DEF LockInv

\* A loop of the file store begins its second pass.
LEMMA Repeats ==
    ASSUME LockInv, NEW c \in Clients, UnlinkFile(c)
    PROVE  LockInv'
<1>1. /\ call[c].at = "unlink" /\ entry' = Absent /\ driver' = driver /\ driver = "file"
  BY DEF UnlinkFile, At, LockInv, Shape, OnFiles
<1>2. CASE LastPass(call[c].pass)
  BY <1>1, <1>2, Returns DEF UnlinkFile
<1>3. CASE ~LastPass(call[c].pass)
  <2>1. call' = [call EXCEPT ![c].at = "take", ![c].pass = 2, ![c].lease = Ttl]
    BY <1>3 DEF UnlinkFile, LastPass, LockInv, TypeOK
  <2>2. TypeOK'
    BY <1>1, <1>3, <2>1, LockStoreAssumption DEF LockInv, TypeOK, LastPass, Statements, Entries, Absent
  <2>3. /\ \A d \in Clients : d # c => call'[d] = call[d]
        /\ call'[c].at = "take" /\ call'[c].token = call[c].token /\ call'[c].owns = call[c].owns
    BY <2>1 DEF LockInv, TypeOK
  <2>4. (\A d \in Clients : Shape(d))'
    BY <1>1, <2>3 DEF LockInv, Shape, Acquiring, OnFiles
  <2>5. Unique'
    BY <1>1, <2>3 DEF LockInv, Unique, Minted, Acquiring
  <2>6. NotYet'
    BY <1>1, <2>4, LockStoreAssumption DEF NotYet, Shape, Absent, Acquiring
  <2>7. HolderKeepsLock'
    BY <1>1 DEF HolderKeepsLock, Atomic
  <2>8. QED
    BY <2>2, <2>4, <2>5, <2>6, <2>7 DEF LockInv
<1>4. QED
  BY <1>2, <1>3

\* A file is dropped by path.
LEMMA Drops ==
    ASSUME LockInv, NEW c \in Clients, DropFile(c)
    PROVE  LockInv'
<1>1. /\ call[c].at = "drop" /\ entry' = Absent /\ driver' = driver /\ driver = "file"
      /\ call' = [call EXCEPT ![c].at = "unlink"]
  BY DEF DropFile, At, Goto, LockInv, Shape, OnFiles
<1>2. TypeOK'
  BY <1>1, LockStoreAssumption DEF LockInv, TypeOK, Statements, Entries, Absent
<1>3. /\ \A d \in Clients : d # c => call'[d] = call[d]
      /\ call'[c].at = "unlink" /\ call'[c].token = call[c].token /\ call'[c].owns = call[c].owns
  BY <1>1 DEF LockInv, TypeOK
<1>4. (\A d \in Clients : Shape(d))'
  BY <1>1, <1>3 DEF LockInv, Shape, Acquiring, OnFiles
<1>5. Unique'
  BY <1>1, <1>3 DEF LockInv, Unique, Minted, Acquiring
<1>6. NotYet'
  BY <1>1, <1>4, LockStoreAssumption DEF NotYet, Shape, Absent, Acquiring
<1>7. HolderKeepsLock'
  BY <1>1 DEF HolderKeepsLock, Atomic
<1>8. QED
  BY <1>2, <1>4, <1>5, <1>6, <1>7 DEF LockInv

\* Time runs alike in the store and for the holder.
LEMMA Elapses ==
    ASSUME LockInv, Tick
    PROVE  LockInv'
<1>1. /\ entry' = [entry EXCEPT !.left = IF entry.left > 0 THEN entry.left - 1 ELSE 0]
      /\ call' = [c \in Clients |->
                    [call[c] EXCEPT !.lease = IF call[c].lease > 0 THEN call[c].lease - 1 ELSE 0]]
      /\ driver' = driver
  BY DEF Tick, Elapsed
<1>2. TypeOK'
  <2>1. entry \in Entries(Tokens, Ttl) /\ driver \in Drivers /\ Ttl \in Nat
    BY LockStoreAssumption DEF LockInv, TypeOK
  <2>2. entry' \in Entries(Tokens, Ttl)
    BY <1>1, <2>1 DEF Entries
  <2>3. ASSUME NEW c \in Clients
        PROVE  call'[c] \in [at: Statements, token: Tokens \union {None},
                             pass: {1, 2}, owns: BOOLEAN, lease: 0..Ttl]
    <3>1. /\ call[c] \in [at: Statements, token: Tokens \union {None},
                          pass: {1, 2}, owns: BOOLEAN, lease: 0..Ttl]
          /\ call'[c] = [call[c] EXCEPT !.lease =
                            IF call[c].lease > 0 THEN call[c].lease - 1 ELSE 0]
      BY <1>1 DEF LockInv, TypeOK
    <3>2. QED
      BY <2>1, <3>1
  <2>4. QED
    BY <1>1, <2>1, <2>2, <2>3 DEF TypeOK
<1>3. /\ entry'.owner = entry.owner
      /\ \A c \in Clients : /\ call'[c].at = call[c].at /\ call'[c].owns = call[c].owns
                            /\ call'[c].token = call[c].token
                            /\ call[c].lease = 0 => call'[c] = call[c]
  BY <1>1 DEF LockInv, TypeOK, Entries
<1>4. (\A d \in Clients : Shape(d))'
  <2>1. Idle.lease = 0
    BY DEF Idle
  <2>2. QED
    BY <1>1, <1>3, <2>1 DEF LockInv, Shape
<1>5. Unique' /\ NotYet'
  BY <1>3 DEF LockInv, Unique, NotYet, Minted
<1>6. HolderKeepsLock'
  <2>1. SUFFICES ASSUME driver \in Atomic, NEW c \in Clients,
                        call'[c].owns, call'[c].lease > 0
                 PROVE  entry' = Taken(call'[c].token, call'[c].lease)
    BY <1>1 DEF HolderKeepsLock, KeepsLock
  <2>2. /\ call[c].lease \in Nat /\ call[c].owns
        /\ call'[c].token = call[c].token
        /\ call'[c].lease = IF call[c].lease > 0 THEN call[c].lease - 1 ELSE 0
    BY <1>1, <1>3, <2>1 DEF LockInv, TypeOK
  <2>3. call[c].lease > 0
    BY <2>1, <2>2
  <2>4. entry = Taken(call[c].token, call[c].lease)
    BY <2>1, <2>2, <2>3 DEF LockInv, HolderKeepsLock, KeepsLock
  <2>5. entry' = [entry EXCEPT !.left = entry.left - 1] /\ entry.left = call[c].lease
    BY <1>1, <2>3, <2>4 DEF Taken
  <2>6. QED
    BY <2>2, <2>3, <2>4, <2>5 DEF Taken
<1>7. QED
  BY <1>2, <1>4, <1>5, <1>6 DEF LockInv

----------------------------------------------------------------------------
(* Every statement                                                          *)

\* Before the first call the store is empty and nobody holds anything.
LEMMA LockInvInit == Init => LockInv
BY LockStoreAssumption DEF Init, LockInv, TypeOK, Shape, Unique, NotYet, HolderKeepsLock, KeepsLock,
      Minted, Idle, Absent, Entries, Acquiring, OnFiles, Statements

\* Every step keeps the invariant, one case per statement of the stores.
LEMMA LockInvStep == LockInv /\ [Next]_vars => LockInv'
<1> SUFFICES ASSUME LockInv, [Next]_vars PROVE LockInv'
  OBVIOUS
<1>1. CASE UNCHANGED vars
  BY <1>1 DEF vars, LockInv, TypeOK, Shape, Unique, NotYet, HolderKeepsLock, KeepsLock, Minted
<1>2. ASSUME NEW c \in Clients, Acquire(c) PROVE LockInv'
  BY <1>2, Draws
<1>3. ASSUME NEW c \in Clients, TakeKey(c) PROVE LockInv'
  <2>1. At(c, "take") /\ UNCHANGED driver
    BY <1>3 DEF TakeKey
  <2>2. CASE Live(entry)
    BY <1>3, <2>2, Returns DEF TakeKey
  <2>3. CASE ~Live(entry)
    BY <1>3, <2>1, <2>3, Grants, Leases DEF TakeKey, At, Acquiring
  <2>4. QED
    BY <2>2, <2>3
<1>4. ASSUME NEW c \in Clients, InsertRow(c) PROVE LockInv'
  <2>1. At(c, "take") /\ UNCHANGED driver
    BY <1>4 DEF InsertRow
  <2>2. CASE Present(entry)
    BY <1>4, <2>1, <2>2, Moves DEF InsertRow, At, Acquiring, OnFiles, Statements
  <2>3. CASE ~Present(entry)
    BY <1>4, <2>1, <2>3, Grants, Leases DEF InsertRow, At, Acquiring, Live
  <2>4. QED
    BY <2>2, <2>3
<1>5. ASSUME NEW c \in Clients, UpdateRow(c) PROVE LockInv'
  <2>1. At(c, "update") /\ UNCHANGED driver
    BY <1>5 DEF UpdateRow
  <2>2. CASE Replaceable(entry, call[c].token)
    <3>1. ~Live(entry)
      BY <2>1, <2>2 DEF At, Replaceable, LockInv, NotYet, Acquiring, Expired, Live
    <3>2. QED
      BY <1>5, <2>1, <2>2, <3>1, Grants, Leases DEF UpdateRow, At, Acquiring
  <2>3. CASE ~Replaceable(entry, call[c].token)
    BY <1>5, <2>1, <2>3, Moves DEF UpdateRow, At, Acquiring, OnFiles, Statements
  <2>4. QED
    BY <2>2, <2>3
<1>6. ASSUME NEW c \in Clients, PruneExpiredLocks(c) PROVE LockInv'
  <2>1. /\ At(c, "lottery") /\ UNCHANGED driver /\ entry' \in {entry, Absent}
        /\ entry' = entry \/ ~Live(entry)
    BY <1>6 DEF PruneExpiredLocks, Expired, Live
  <2>2. CASE ~call[c].owns
    BY <1>6, <2>1, <2>2, Returns DEF PruneExpiredLocks
  <2>3. CASE call[c].owns
    BY <1>6, <2>1, <2>3, Prunes DEF PruneExpiredLocks, At
  <2>4. QED
    BY <2>2, <2>3
<1>7. ASSUME NEW c \in Clients, LinkFile(c) PROVE LockInv'
  <2>1. At(c, "take") /\ UNCHANGED driver /\ driver = "file"
    BY <1>7 DEF LinkFile
  <2>2. CASE Present(entry)
    BY <1>7, <2>1, <2>2, Moves DEF LinkFile, At, Acquiring, Statements
  <2>3. CASE ~Present(entry)
    BY <1>7, <2>1, <2>3, Grants, Leases DEF LinkFile, At, Acquiring, Live
  <2>4. QED
    BY <2>2, <2>3
<1>8. ASSUME NEW c \in Clients, ReadFile(c) PROVE LockInv'
  <2>1. At(c, "owner") /\ UNCHANGED <<driver, entry>> /\ driver = "file"
    BY <1>8 DEF ReadFile
  <2>2. CASE Live(entry)
    BY <1>8, <2>1, <2>2, Returns DEF ReadFile
  <2>3. CASE ~Live(entry)
    <3>1. Goto(c, "drop") \/ Goto(c, "unlink")
      BY <1>8, <2>3 DEF ReadFile
    <3>2. QED
      BY <2>1, <3>1, Moves DEF At, Acquiring, Statements
  <2>4. QED
    BY <2>2, <2>3
<1>9. ASSUME NEW c \in Clients, DropFile(c) PROVE LockInv'
  BY <1>9, Drops
<1>10. ASSUME NEW c \in Clients, UnlinkFile(c) PROVE LockInv'
  BY <1>10, Repeats
<1>11. ASSUME NEW c \in Clients, Release(c) PROVE LockInv'
  BY <1>11, Moves DEF Release, At, Acquiring, OnFiles, Statements
<1>12. ASSUME NEW c \in Clients, DeleteKey(c) PROVE LockInv'
  BY <1>12, Removes DEF DeleteKey, At, Acquiring, ReleasedBy
<1>13. ASSUME NEW c \in Clients, WatchKey(c) PROVE LockInv'
  <2>1. At(c, "release")
    BY <1>13 DEF WatchKey
  <2>2. CASE Holder(entry) = call[c].token
    BY <1>13, <2>1, <2>2, Moves DEF WatchKey, At, Acquiring, OnFiles, Statements
  <2>3. CASE Holder(entry) # call[c].token
    BY <1>13, <2>1, <2>3, Removes DEF WatchKey, At, Acquiring
  <2>4. QED
    BY <2>2, <2>3
<1>14. ASSUME NEW c \in Clients, ExecDelete(c) PROVE LockInv'
  BY <1>14, Removes DEF ExecDelete, ExecWatched, At, Acquiring, ReleasedBy
<1>15. ASSUME NEW c \in Clients, RereadFile(c) PROVE LockInv'
  <2>1. At(c, "release") /\ driver = "file"
    BY <1>15 DEF RereadFile
  <2>2. CASE Goto(c, "remove") /\ UNCHANGED <<driver, entry>>
    BY <2>1, <2>2, Moves DEF At, Acquiring, Statements
  <2>3. CASE Goto(c, "sweep") /\ UNCHANGED <<driver, entry>>
    BY <2>1, <2>3, Moves DEF At, Acquiring, Statements
  <2>4. CASE Remove(c, entry)
    BY <2>1, <2>4, Removes DEF At, Acquiring
  <2>5. QED
    BY <1>15, <2>2, <2>3, <2>4 DEF RereadFile
<1>16. ASSUME NEW c \in Clients, RemoveFile(c) PROVE LockInv'
  <2>1. call[c].at \in {"sweep", "remove"} /\ driver = "file"
    BY <1>16 DEF RemoveFile, LockInv, Shape, OnFiles
  <2>2. QED
    BY <1>16, <2>1, Removes DEF RemoveFile, Acquiring
<1>17. ASSUME NEW c \in Clients, ForceRelease(c) PROVE LockInv'
  BY <1>17, Forces
<1>18. ASSUME NEW c \in Clients, Crash(c) PROVE LockInv'
  BY <1>18, Returns DEF Crash
<1>19. CASE Tick
  BY <1>19, Elapses
<1>20. QED
  BY <1>1, <1>2, <1>3, <1>4, <1>5, <1>6, <1>7, <1>8, <1>9, <1>10, <1>11, <1>12, <1>13, <1>14,
     <1>15, <1>16, <1>17, <1>18, <1>19 DEF Next

\* The invariant holds in every state.
LEMMA LockInvHolds == Spec => []LockInv
BY LockInvInit, LockInvStep, PTL DEF Spec

\* The calls and what the stores keep have their types, on every store.
THEOREM LockTypes == Spec => []TypeOK
<1>1. LockInv => TypeOK
  BY DEF LockInv
<1>2. QED
  BY <1>1, LockInvHolds, PTL

\* A grant that has time left is in the store under its holder's token, on the
\* stores with atomic statements, for any number of processes.
THEOREM GrantKept == Spec => []HolderKeepsLock
<1>1. LockInv => HolderKeepsLock
  BY DEF LockInv
<1>2. QED
  BY <1>1, LockInvHolds, PTL

----------------------------------------------------------------------------
(* The lock the stores implement                                            *)

\* What the refinement mapping makes of the store and the calls.
TheLock == IF driver \in Atomic /\ Live(entry) THEN entry ELSE Absent

TheHandles == [c \in Clients |-> IF driver \in Atomic /\ call[c].owns THEN call[c].token ELSE None]

\* A step of the promised lock, in those terms.
Promised == [Promise!LockNext]_Promise!abstractVars

\* A call that owns nothing before and after leaves every handle as it is.
LEMMA SameHandles ==
    ASSUME LockInv, LockInv', driver' = driver,
           \A c \in Clients : /\ call'[c].owns = call[c].owns
                              /\ call[c].owns => call'[c].token = call[c].token
    PROVE  TheHandles' = TheHandles
BY DEF TheHandles

\* One handle changes.
LEMMA OneHandle ==
    ASSUME LockInv, LockInv', driver' = driver, NEW c \in Clients,
           \A d \in Clients : d # c => /\ call'[d].owns = call[d].owns
                                       /\ call'[d].token = call[d].token
    PROVE  TheHandles' = [TheHandles EXCEPT ![c] =
                             IF driver \in Atomic /\ call'[c].owns THEN call'[c].token ELSE None]
BY Zenon DEF TheHandles

\* A grant is an Acquire of the promised lock.
LEMMA GrantPromised ==
    ASSUME LockInv, LockInv', NEW c \in Clients, NEW s, NEW left \in 0..Ttl,
           call[c].at \in Acquiring, ~Live(entry),
           Granted(c, s, left), UNCHANGED driver, driver \in Atomic
    PROVE  Promise!Acquire(c)
<1>1. /\ call[c].token \in Tokens /\ ~call[c].owns /\ call[c].token # None
  BY LockStoreAssumption DEF LockInv, Shape, Acquiring
<1>2. /\ entry' = Taken(call[c].token, left)
      /\ \A d \in Clients : d # c => call'[d] = call[d]
      /\ call'[c].owns /\ call'[c].token = call[c].token
  BY DEF Granted, LockInv, TypeOK
<1>3. TheHandles' = [TheHandles EXCEPT ![c] = call[c].token]
  BY <1>2, OneHandle
<1>4. TheHandles[c] = None /\ TheLock = Absent
  BY <1>1 DEF TheHandles, TheLock
<1>5. TheLock' = Promise!Lasting(Taken(call[c].token, left))
  BY <1>1, <1>2, LockStoreAssumption, SMTT(30) DEF TheLock, Live, Present, Taken, Promise!Lasting, Promise!Absent, Promise!None, Absent, None
<1>6. call[c].token \notin {TheHandles[d] : d \in Clients}
  BY <1>1 DEF TheHandles, LockInv, Unique, Minted
<1>7. QED
  <2>1. /\ TheHandles[c] = None /\ ~Live(TheLock)
        /\ call[c].token \in Tokens \ {TheHandles[d] : d \in Clients}
    BY <1>1, <1>4, <1>6, Zenon DEF Live, Present, Absent
  <2>2. /\ TheLock' = Promise!Lasting(Taken(call[c].token, left))
        /\ TheHandles' = [TheHandles EXCEPT ![c] = call[c].token]
    BY <1>3, <1>5
  <2>3. QED
    BY <2>1, <2>2, Zenon
    DEF Promise!Acquire, TheLock, TheHandles, Promise!Live, Promise!Present, Promise!Taken, Promise!None,
        Promise!Lasting, Live, Present, Taken, None, Absent

\* A removal is a Release by the owner, and forced or nothing by another.
LEMMA RemovePromised ==
    ASSUME LockInv, LockInv', NEW c \in Clients, NEW e,
           call[c].at # "idle",
           (e = entry /\ Holder(entry) # call[c].token) \/ e = ReleasedBy(entry, call[c].token),
           Remove(c, e), driver \in Atomic
    PROVE  Promised
<1>1. /\ entry' = e /\ driver' = driver /\ call'[c] = Idle
      /\ \A d \in Clients : d # c => call'[d].owns = call[d].owns /\ call'[d].token = call[d].token
  BY DEF Remove, LockInv, TypeOK
<1>2. call[c].token # None
  BY LockStoreAssumption DEF LockInv, Shape
<1>3. TheLock' = ReleasedBy(TheLock, call[c].token)
  BY <1>1, <1>2 DEF TheLock, ReleasedBy, Holder, Live, Present, Absent
<1>4. CASE call[c].owns
  <2>1. TheHandles' = [TheHandles EXCEPT ![c] = None]
    BY <1>1, OneHandle DEF Idle
  <2>2. TheHandles[c] = call[c].token
    BY <1>4 DEF TheHandles
  <2>3. Promise!Release(c)
    BY <1>2, <1>3, <2>1, <2>2
    DEF Promise!Release, Promise!ReleasedBy, ReleasedBy, TheLock, TheHandles, Promise!None, None,
        Promise!Absent, Absent
  <2>4. QED
    BY <2>3 DEF Promised, Promise!LockNext
<1>5. CASE ~call[c].owns
  <2>1. TheHandles' = TheHandles
    <3>1. \A d \in Clients : /\ call'[d].owns = call[d].owns
                             /\ call[d].owns => call'[d].token = call[d].token
      BY <1>1, <1>5 DEF Idle, LockInv, TypeOK
    <3>2. QED
      BY <1>1, <3>1, SameHandles
  <2>2. TheLock' = TheLock \/ TheLock' = Absent
    BY <1>3 DEF ReleasedBy
  <2>3. QED
    BY <2>1, <2>2
    DEF Promised, Promise!LockNext, Promise!ForceRelease, Promise!abstractVars, TheLock, TheHandles,
        Promise!Absent, Absent, Promise!None, None
<1>6. QED
  BY <1>4, <1>5

\* Nothing of the lock changes.
LEMMA StutterPromised ==
    ASSUME TheLock' = TheLock, TheHandles' = TheHandles
    PROVE  Promised
BY DEF Promised, Promise!abstractVars, TheLock, TheHandles

\* A call that moves or returns without the lock changes nothing of it.
LEMMA MovePromised ==
    ASSUME LockInv, LockInv', NEW c \in Clients, UNCHANGED driver, TheLock' = TheLock,
           \/ ~call[c].owns /\ Return(c)
           \/ \E s : Goto(c, s)
    PROVE  Promised
<1>1. \A d \in Clients : /\ call'[d].owns = call[d].owns
                         /\ call[d].owns => call'[d].token = call[d].token
  BY DEF Return, Goto, LockInv, TypeOK, Idle
<1>2. QED
  BY <1>1, SameHandles, StutterPromised

\* On files the mapped lock is one nobody takes.
LEMMA FilesPromised ==
    ASSUME driver = "file", driver' = driver
    PROVE  Promised
BY StutterPromised DEF TheLock, TheHandles, Atomic

\* Every step is a step of the promised lock, or none of it.
LEMMA StepPromised == LockInv /\ LockInv' /\ [Next]_vars => Promised
<1> SUFFICES ASSUME LockInv, LockInv', [Next]_vars PROVE Promised
  OBVIOUS
<1>1. CASE UNCHANGED vars
  BY <1>1, StutterPromised, ZenonT(15) DEF vars, TheLock, TheHandles, Live, Present
<1>2. driver' = driver
  BY Zenon DEF Next, vars, Acquire, Release, ForceRelease, Crash, TakeKey, WatchKey, ExecDelete, InsertRow,
         UpdateRow, PruneExpiredLocks, DeleteKey, LinkFile, ReadFile, DropFile, UnlinkFile, RereadFile,
         RemoveFile, Remove, Tick
<1>3. CASE driver = "file"
  BY <1>2, <1>3, FilesPromised
<1>4. CASE driver # "file" /\ Next
  <2>1. driver \in Atomic
    BY <1>4, LockStoreAssumption DEF LockInv, TypeOK, AllDrivers
  <2>2. \A c \in Clients : ~(LinkFile(c) \/ ReadFile(c) \/ DropFile(c) \/ UnlinkFile(c) \/ RereadFile(c) \/ RemoveFile(c))
    BY <1>4 DEF LinkFile, ReadFile, DropFile, UnlinkFile, RereadFile, RemoveFile, At, LockInv, Shape, OnFiles
  <2>3. ASSUME NEW c \in Clients, Acquire(c) PROVE Promised
    <3>1. \A d \in Clients : call'[d].owns = call[d].owns /\ (call[d].owns => call'[d].token = call[d].token)
      BY <2>3 DEF Acquire, At, LockInv, TypeOK, Shape, Idle
    <3>2. QED
      BY <2>3, <3>1, SameHandles, StutterPromised DEF Acquire, TheLock, Live, Present
  <2>4. ASSUME NEW c \in Clients, TakeKey(c) PROVE Promised
    <3>1. call[c].at \in Acquiring /\ ~call[c].owns
      BY <2>4 DEF TakeKey, At, LockInv, Shape, Acquiring
    <3>2. CASE Live(entry)
      BY <2>4, <3>1, <3>2, MovePromised DEF TakeKey, TheLock, Live, Present
    <3>3. CASE ~Live(entry)
      BY <2>1, <2>4, <3>1, <3>3, GrantPromised, Leases DEF TakeKey, Promised, Promise!LockNext
    <3>4. QED
      BY <3>2, <3>3
  <2>5. ASSUME NEW c \in Clients, InsertRow(c) PROVE Promised
    <3>1. call[c].at \in Acquiring
      BY <2>5 DEF InsertRow, At, Acquiring
    <3>2. CASE Present(entry)
      BY <2>5, <3>2, MovePromised DEF InsertRow, TheLock, Live, Present
    <3>3. CASE ~Present(entry)
      BY <2>1, <2>5, <3>1, <3>3, GrantPromised, Leases DEF InsertRow, Live, Promised, Promise!LockNext
    <3>4. QED
      BY <3>2, <3>3
  <2>6. ASSUME NEW c \in Clients, UpdateRow(c) PROVE Promised
    <3>1. call[c].at \in Acquiring
      BY <2>6 DEF UpdateRow, At, Acquiring
    <3>2. CASE Replaceable(entry, call[c].token)
      <4>1. ~Live(entry)
        BY <3>1, <3>2 DEF Replaceable, LockInv, NotYet, Expired, Live
      <4>2. QED
        BY <2>1, <2>6, <3>1, <3>2, <4>1, GrantPromised, Leases DEF UpdateRow, Promised, Promise!LockNext
    <3>3. CASE ~Replaceable(entry, call[c].token)
      BY <2>6, <3>3, MovePromised DEF UpdateRow, TheLock, Live, Present
    <3>4. QED
      BY <3>2, <3>3
  <2>7. ASSUME NEW c \in Clients, PruneExpiredLocks(c) PROVE Promised
    <3>1. TheLock' = TheLock /\ UNCHANGED driver
      BY <2>7, <1>2 DEF PruneExpiredLocks, TheLock, Expired, Live, Present, Absent
    <3>2. QED
      BY <2>7, <3>1, MovePromised DEF PruneExpiredLocks
  <2>8. ASSUME NEW c \in Clients, Release(c) PROVE Promised
    BY <2>8, MovePromised DEF Release, TheLock, Live, Present
  <2>9. ASSUME NEW c \in Clients, DeleteKey(c) PROVE Promised
    BY <2>1, <2>9, RemovePromised DEF DeleteKey, At
  <2>10. ASSUME NEW c \in Clients, WatchKey(c) PROVE Promised
    <3>1. CASE Holder(entry) = call[c].token
      BY <2>10, <3>1, MovePromised DEF WatchKey, TheLock, Live, Present
    <3>2. CASE Holder(entry) # call[c].token
      BY <2>1, <2>10, <3>2, RemovePromised DEF WatchKey, At
    <3>3. QED
      BY <3>1, <3>2
  <2>11. ASSUME NEW c \in Clients, ExecDelete(c) PROVE Promised
    BY <2>1, <2>11, RemovePromised DEF ExecDelete, ExecWatched, At
  <2>12. ASSUME NEW c \in Clients, ForceRelease(c) PROVE Promised
    <3>1. \A d \in Clients : call'[d].owns = call[d].owns /\ (call[d].owns => call'[d].token = call[d].token)
      BY <2>12 DEF ForceRelease, At, LockInv, TypeOK, Shape, Idle
    <3>2. QED
      BY <2>12, <3>1, SameHandles, StutterPromised DEF ForceRelease, TheLock, Live, Present
  <2>13. ASSUME NEW c \in Clients, Crash(c) PROVE Promised
    <3>1. /\ TheLock' = TheLock
          /\ \A d \in Clients : d # c => call'[d] = call[d]
          /\ call'[c] = Idle
      BY <2>13 DEF Crash, Return, TheLock, Live, Present, LockInv, TypeOK
    <3>2. CASE ~call[c].owns
      BY <2>13, <3>1, <3>2, MovePromised DEF Crash
    <3>3. CASE call[c].owns
      <4>1. TheHandles' = [TheHandles EXCEPT ![c] = None]
        BY <1>2, <3>1, OneHandle DEF Idle
      <4>2. TheHandles[c] # None
        BY <2>1, <3>3, LockStoreAssumption DEF TheHandles, LockInv, Shape, Idle
      <4>3. Promise!Abandon(c)
        BY <3>1, <4>1, <4>2 DEF Promise!Abandon, TheLock, TheHandles, Promise!None, None
      <4>4. QED
        BY <4>3 DEF Promised, Promise!LockNext
    <3>4. QED
      BY <3>2, <3>3
  <2>14. CASE Tick
    <3>1. \A d \in Clients : call'[d].owns = call[d].owns /\ call'[d].token = call[d].token
      BY <2>14 DEF Tick, LockInv, TypeOK
    <3>2. TheHandles' = TheHandles
      BY <1>2, <3>1, SameHandles
    <3>3. TheLock' = IF Elapsed(TheLock).left = 0 THEN Absent ELSE Elapsed(TheLock)
      BY <1>2, <2>14 DEF Tick, TheLock, Elapsed, Live, Present, Absent, LockInv, TypeOK, Entries
    <3>4. QED
      BY <3>2, <3>3
      DEF Promised, Promise!LockNext, Promise!Elapse, Promise!Lasting, Promise!Elapsed, Elapsed, TheLock, TheHandles,
          Promise!Absent, Absent, Promise!None, None
  <2>15. QED
    BY <1>4, <2>2, <2>3, <2>4, <2>5, <2>6, <2>7, <2>8, <2>9, <2>10, <2>11, <2>12, <2>13, <2>14 DEF Next
<1>5. QED
  BY <1>1, <1>3, <1>4

\* The array, redis and database stores implement the one-step lock that
\* cache.Locking promises, for any clients, tokens and ttl.
THEOREM StoresImplementLock == Spec => ImplementsLock
<1>1. Init => Promise!LockInit
  BY DEF Init, Promise!LockInit, Live, Present, Absent, Promise!Absent, Promise!None, None, Idle
<1>2. LockInv /\ LockInv' /\ [Next]_vars => [Promise!LockNext]_Promise!abstractVars
  BY StepPromised DEF Promised
<1>3. QED
  BY <1>1, <1>2, LockInvHolds, PTL DEF Spec, ImplementsLock, Promise!LockSpec
=============================================================================
