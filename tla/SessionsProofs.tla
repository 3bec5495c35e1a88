---------------------------- MODULE SessionsProofs ----------------------------
(***************************************************************************)
(* What the logins of the management UI promise (adminauth.go), for any    *)
(* number of addresses, sessions and logins in flight and any limits: how  *)
(* many passwords can be tried, and what can end a lock or a session.      *)
(***************************************************************************)
EXTENDS Sessions, FiniteSetTheorems, TLAPS

\* The logins from an address that are past the check of its lock.
Comparing(ip) == {l \in Logins : login[l] = [step |-> "comparing", ip |-> ip]}

\* The failures that count towards a lock.
Count(ip) == IF ip \in DOMAIN failures /\ failures[ip].count < MaxFailures
             THEN failures[ip].count ELSE 0

\* GuessesBounded is not inductive: it takes the tries to be no more than the count
\* while no lock runs, and the logins that can still fail to be counted while one does.
GuessesOf(ip) ==
  /\ LockedOut(ip) =>
       tries[ip] + Cardinality(Comparing(ip)) <= MaxFailures - 1 + Cardinality(Logins)
  /\ ~LockedOut(ip) => tries[ip] <= Count(ip)
GuessesInv == TypeOK /\ \A ip \in Addresses : GuessesOf(ip)

------------------------------------------------------------------------------
(* Type correctness *)

LEMMA FailureTyped ==
  ASSUME SessionsAssumption, TypeOK, NEW ip \in Addresses, RecordFailure(ip)
  PROVE  /\ DOMAIN failures' \subseteq Addresses
         /\ failures' \in [DOMAIN failures' -> Failure]
         /\ DOMAIN failures' = DOMAIN failures \cup {ip}
         /\ \A other \in DOMAIN failures \ {ip} : failures'[other] = failures[other]
         /\ failures'[ip].left = Lockout
         /\ failures'[ip].count =
              IF ip \notin DOMAIN failures THEN 1
              ELSE IF failures[ip].count < MaxFailures THEN failures[ip].count + 1
              ELSE MaxFailures
<1> DEFINE n == IF ip \in DOMAIN failures THEN failures[ip].count ELSE 0
           entry == [count |-> IF n < MaxFailures THEN n + 1 ELSE n, left |-> Lockout]
<1>1. n \in 0..MaxFailures
  BY DEF SessionsAssumption, TypeOK, Failure
<1>2. entry \in Failure
  BY <1>1 DEF SessionsAssumption, Failure
<1>3. failures' = [z \in DOMAIN failures \cup {ip} |-> IF z = ip THEN entry ELSE failures[z]]
  BY DEF RecordFailure, Put
<1>4. DOMAIN failures' = DOMAIN failures \cup {ip}
  BY <1>3
<1>5. \A z \in DOMAIN failures : failures[z] \in Failure
  BY DEF TypeOK
<1>6. failures' \in [DOMAIN failures' -> Failure]
  BY <1>2, <1>3, <1>4, <1>5
<1>7. failures'[ip] = entry
  BY <1>3
<1>8. entry.count = IF ip \notin DOMAIN failures THEN 1
                    ELSE IF failures[ip].count < MaxFailures THEN failures[ip].count + 1
                    ELSE MaxFailures
  BY <1>1 DEF SessionsAssumption
<1>9. QED
  BY <1>3, <1>4, <1>6, <1>7, <1>8 DEF TypeOK

LEMMA DroppedTyped ==
  ASSUME TypeOK, NEW S, failures' = Drop(failures, S)
  PROVE  /\ DOMAIN failures' = DOMAIN failures \ S
         /\ DOMAIN failures' \subseteq Addresses
         /\ failures' \in [DOMAIN failures' -> Failure]
         /\ \A ip \in DOMAIN failures' : failures'[ip] = failures[ip]
BY DEF TypeOK, Drop

LEMMA StartOverTyped ==
  ASSUME TypeOK, NEW S, StartOver(S)
  PROVE  tries' \in [Addresses -> Nat]
BY DEF TypeOK, StartOver

LEMMA GotoTyped ==
  ASSUME TypeOK, NEW l \in Logins, NEW r \in Login, Goto(l, r)
  PROVE  login' \in [Logins -> Login]
BY DEF TypeOK, Goto

LEMMA LoginTyped ==
  ASSUME TypeOK, NEW l \in Logins
  PROVE  /\ login[l].step = "comparing" =>
              login[l].ip \in Addresses /\ login[l] = [step |-> "comparing", ip |-> login[l].ip]
         /\ login[l].step = "issued" =>
              login[l].ip \in Addresses /\ login[l] = [step |-> "issued", ip |-> login[l].ip]
BY DEF TypeOK, Login, Idle

LEMMA InitTyped == ASSUME SessionsAssumption, Init PROVE TypeOK
BY DEF Init, TypeOK, Login

\* What a step does to the types, whichever it is.
LEMMA StepTyped == ASSUME SessionsAssumption, TypeOK, [Next]_vars PROVE TypeOK'
<1>1. ASSUME NEW l \in Logins, NEW ip \in Addresses, Admit(l, ip)
      PROVE  TypeOK'
  <2>1. [step |-> "comparing", ip |-> ip] \in Login
    BY DEF Login
  <2>2. login' \in [Logins -> Login]
    BY <1>1, <2>1, GotoTyped DEF Admit
  <2>3. QED
    BY <1>1, <2>2 DEF Admit, TypeOK
<1>2. ASSUME NEW l \in Logins, Refuse(l)
      PROVE  TypeOK'
  <2>1. login[l].ip \in Addresses
    BY <1>2, LoginTyped DEF Refuse
  <2>2. DOMAIN failures' \subseteq Addresses /\ failures' \in [DOMAIN failures' -> Failure]
    BY <1>2, <2>1, FailureTyped DEF Refuse
  <2>3. login' \in [Logins -> Login]
    BY <1>2, GotoTyped DEF Refuse, Login
  <2>4. tries' \in [Addresses -> Nat]
    BY <1>2, <2>1 DEF Refuse, TypeOK
  <2>5. QED
    BY <1>2, <2>2, <2>3, <2>4 DEF Refuse, TypeOK
<1>3. ASSUME NEW l \in Logins, Malformed(l)
      PROVE  TypeOK'
  <2>1. login' \in [Logins -> Login]
    BY <1>3, GotoTyped DEF Malformed, Login
  <2>2. QED
    BY <1>3, <2>1 DEF Malformed, TypeOK
<1>4. ASSUME NEW l \in Logins, NEW t \in Tokens, Issue(l, t)
      PROVE  TypeOK'
  <2>1. [step |-> "issued", ip |-> login[l].ip] \in Login
    BY <1>4, LoginTyped DEF Issue, Login
  <2>2. login' \in [Logins -> Login]
    BY <1>4, <2>1, GotoTyped DEF Issue
  <2>3. DOMAIN tokens' \subseteq Tokens /\ tokens' \in [DOMAIN tokens' -> 0..TTL]
    BY <1>4 DEF Issue, Put, Drop, TypeOK, SessionsAssumption
  <2>4. DOMAIN failures' \subseteq Addresses /\ failures' \in [DOMAIN failures' -> Failure]
    BY <1>4, DroppedTyped DEF Issue
  <2>5. tries' \in [Addresses -> Nat]
    BY <1>4, StartOverTyped DEF Issue
  <2>6. QED
    BY <2>2, <2>3, <2>4, <2>5 DEF TypeOK
<1>5. ASSUME NEW l \in Logins, ClearFailures(l)
      PROVE  TypeOK'
  <2>1. DOMAIN failures' \subseteq Addresses /\ failures' \in [DOMAIN failures' -> Failure]
    BY <1>5, DroppedTyped DEF ClearFailures
  <2>2. tries' \in [Addresses -> Nat]
    BY <1>5, StartOverTyped DEF ClearFailures
  <2>3. login' \in [Logins -> Login]
    BY <1>5, GotoTyped DEF ClearFailures, Login
  <2>4. QED
    BY <1>5, <2>1, <2>2, <2>3 DEF ClearFailures, TypeOK
<1>6. ASSUME NEW t \in Tokens, UseExpired(t) \/ Logout(t)
      PROVE  TypeOK'
  BY <1>6 DEF UseExpired, Logout, Drop, TypeOK
<1>7. CASE Tick
  <2>1. DOMAIN tokens' \subseteq Tokens /\ tokens' \in [DOMAIN tokens' -> 0..TTL]
    BY <1>7 DEF Tick, TypeOK, SessionsAssumption
  <2>2. DOMAIN failures' \subseteq Addresses /\ failures' \in [DOMAIN failures' -> Failure]
    BY <1>7 DEF Tick, TypeOK, Failure, SessionsAssumption
  <2>3. tries' \in [Addresses -> Nat]
    BY <1>7, StartOverTyped DEF Tick
  <2>4. QED
    BY <1>7, <2>1, <2>2, <2>3 DEF Tick, TypeOK
<1>8. CASE Restart
  BY <1>8 DEF Restart, TypeOK, Login
<1>9. CASE UNCHANGED vars
  BY <1>9 DEF vars, TypeOK
<1>10. QED
  BY <1>1, <1>2, <1>3, <1>4, <1>5, <1>6, <1>7, <1>8, <1>9 DEF Next, Answer

\* Every reachable state of the sessions and of the counters is one the code's maps can
\* be in (adminauth.go, sessionStore).
THEOREM TypeCorrect == ASSUME SessionsAssumption PROVE Spec => []TypeOK
<1>1. Init => TypeOK
  BY InitTyped
<1>2. TypeOK /\ [Next]_vars => TypeOK'
  BY StepTyped
<1>3. QED
  BY <1>1, <1>2, PTL DEF Spec

------------------------------------------------------------------------------
(* The number of guesses *)

LEMMA ComparingCounted ==
  ASSUME SessionsAssumption, NEW ip
  PROVE  /\ IsFiniteSet(Comparing(ip))
         /\ Cardinality(Comparing(ip)) \in Nat
         /\ Cardinality(Logins) \in Nat
         /\ Cardinality(Comparing(ip)) <= Cardinality(Logins)
<1>1. Comparing(ip) \in SUBSET Logins
  BY DEF Comparing
<1>2. QED
  BY <1>1, FS_Subset, FS_CardinalityType DEF SessionsAssumption

\* No login gets past the check of an address: its logins become no more.
LEMMA NoMoreCompare ==
  ASSUME SessionsAssumption, NEW ip, Comparing(ip)' \subseteq Comparing(ip)
  PROVE  Cardinality(Comparing(ip))' \in Nat
         /\ Cardinality(Comparing(ip))' <= Cardinality(Comparing(ip))
<1>1. Comparing(ip)' \in SUBSET Comparing(ip)
  OBVIOUS
<1>2. IsFiniteSet(Comparing(ip))
  BY ComparingCounted
<1>3. QED
  BY <1>1, <1>2, FS_Subset, FS_CardinalityType

\* A login that is answered is one less.
LEMMA OneLessCompares ==
  ASSUME SessionsAssumption, NEW ip, NEW l \in Comparing(ip),
         Comparing(ip)' \subseteq Comparing(ip) \ {l}
  PROVE  Cardinality(Comparing(ip))' \in Nat
         /\ Cardinality(Comparing(ip))' <= Cardinality(Comparing(ip)) - 1
<1>1. Comparing(ip)' \in SUBSET (Comparing(ip) \ {l})
  OBVIOUS
<1>2. IsFiniteSet(Comparing(ip) \ {l})
      /\ Cardinality(Comparing(ip) \ {l}) = Cardinality(Comparing(ip)) - 1
  BY ComparingCounted, FS_RemoveElement
<1>3. QED
  BY <1>1, <1>2, FS_Subset, FS_CardinalityType

\* The count of an address is below the limit, so that without a lock its tries are too.
LEMMA CountBelowLimit ==
  ASSUME SessionsAssumption, TypeOK, NEW ip \in Addresses
  PROVE  Count(ip) \in 0..(MaxFailures - 1)
BY DEF SessionsAssumption, TypeOK, Failure, Count

LEMMA SameStands ==
  ASSUME NEW ip,
         ip \in DOMAIN failures' <=> ip \in DOMAIN failures,
         ip \in DOMAIN failures => failures'[ip] = failures[ip]
  PROVE  (LockedOut(ip)' <=> LockedOut(ip)) /\ Count(ip)' = Count(ip)
BY DEF LockedOut, Full, Count

LEMMA GoneStands ==
  ASSUME NEW ip, ip \notin DOMAIN failures'
  PROVE  ~LockedOut(ip)' /\ Count(ip)' = 0
BY DEF LockedOut, Full, Count

\* A step that leaves an address alone, or drops its entry with its tries.
LEMMA GuessesKept ==
  ASSUME SessionsAssumption, TypeOK, NEW ip \in Addresses, GuessesOf(ip),
         Comparing(ip)' \subseteq Comparing(ip),
         \/ /\ ip \in DOMAIN failures' <=> ip \in DOMAIN failures
            /\ ip \in DOMAIN failures => failures'[ip] = failures[ip]
            /\ tries'[ip] = tries[ip]
         \/ ip \notin DOMAIN failures' /\ tries'[ip] = 0
  PROVE  GuessesOf(ip)'
<1>1. CASE /\ ip \in DOMAIN failures' <=> ip \in DOMAIN failures
           /\ ip \in DOMAIN failures => failures'[ip] = failures[ip]
           /\ tries'[ip] = tries[ip]
  <2>1. (LockedOut(ip)' <=> LockedOut(ip)) /\ Count(ip)' = Count(ip)
    BY <1>1, SameStands
  <2>2. tries[ip] \in Nat
    BY DEF TypeOK
  <2>3. CASE LockedOut(ip)
    BY <1>1, <2>1, <2>2, <2>3, NoMoreCompare, ComparingCounted DEF GuessesOf, SessionsAssumption
  <2>4. CASE ~LockedOut(ip)
    BY <1>1, <2>1, <2>4 DEF GuessesOf
  <2>5. QED
    BY <2>3, <2>4
<1>2. CASE ip \notin DOMAIN failures' /\ tries'[ip] = 0
  BY <1>2, GoneStands DEF GuessesOf
<1>3. QED
  BY <1>1, <1>2

LEMMA GuessesStep ==
  ASSUME SessionsAssumption, GuessesInv, TypeOK', [Next]_vars, NEW ip \in Addresses
  PROVE  GuessesOf(ip)'
<1> USE DEF GuessesInv
<1>1. ASSUME NEW l \in Logins, NEW from \in Addresses, Admit(l, from)
      PROVE  GuessesOf(ip)'
  <2>1. CASE from = ip
    <3>1. ~LockedOut(ip) /\ ~LockedOut(ip)' /\ Count(ip)' = Count(ip)
      BY <1>1, <2>1 DEF Admit, LockedOut, Full, Count
    <3>2. QED
      BY <1>1, <3>1 DEF Admit, GuessesOf
  <2>2. CASE from # ip
    <3>1. Comparing(ip)' \subseteq Comparing(ip)
      BY <1>1, <2>2 DEF Admit, Goto, Comparing, TypeOK
    <3>2. QED
      BY <1>1, <3>1, GuessesKept DEF Admit
  <2>3. QED
    BY <2>1, <2>2
<1>2. ASSUME NEW l \in Logins, Refuse(l)
      PROVE  GuessesOf(ip)'
  <2> DEFINE from == login[l].ip
  <2>1. from \in Addresses /\ login[l] = [step |-> "comparing", ip |-> from]
    BY <1>2, LoginTyped DEF Refuse
  <2>2. /\ DOMAIN failures' = DOMAIN failures \cup {from}
        /\ \A other \in DOMAIN failures \ {from} : failures'[other] = failures[other]
        /\ failures'[from].left = Lockout
        /\ failures'[from].count =
             IF from \notin DOMAIN failures THEN 1
             ELSE IF failures[from].count < MaxFailures THEN failures[from].count + 1
             ELSE MaxFailures
    BY <1>2, <2>1, FailureTyped DEF Refuse
  <2>3. Comparing(ip)' \subseteq Comparing(ip) \ {l}
    BY <1>2 DEF Refuse, Goto, Comparing, Idle, TypeOK
  <2>4. CASE ip # from
    <3>1. tries'[ip] = tries[ip]
      BY <1>2, <2>4 DEF Refuse, TypeOK
    <3>2. QED
      BY <2>2, <2>3, <2>4, <3>1, GuessesKept
  <2>5. CASE ip = from
    <3>1. l \in Comparing(ip)
      BY <2>1, <2>5 DEF Comparing
    <3>2. /\ Cardinality(Comparing(ip))' \in Nat
          /\ Cardinality(Comparing(ip))' <= Cardinality(Comparing(ip)) - 1
      BY <2>3, <3>1, OneLessCompares
    <3>3. /\ Cardinality(Comparing(ip)) \in Nat /\ Cardinality(Logins) \in Nat
          /\ Cardinality(Comparing(ip)) <= Cardinality(Logins)
      BY ComparingCounted
    <3>4. tries[ip] \in Nat /\ tries'[ip] = tries[ip] + 1
      BY <1>2, <2>1, <2>5 DEF Refuse, TypeOK
    <3>5. Count(ip) \in 0..(MaxFailures - 1)
      BY CountBelowLimit
    <3>6. CASE LockedOut(ip)
      <4>1. failures[ip].count = MaxFailures /\ LockedOut(ip)'
        BY <2>2, <2>5, <3>6 DEF LockedOut, Full, SessionsAssumption
      <4>2. QED
        BY <3>2, <3>3, <3>4, <3>6, <4>1 DEF GuessesOf, SessionsAssumption
    <3>7. CASE ~LockedOut(ip)
      <4>1. tries[ip] <= Count(ip)
        BY <3>7 DEF GuessesOf
      <4>2. ~LockedOut(ip)' => tries'[ip] <= Count(ip)'
        <5>1. SUFFICES ASSUME ~LockedOut(ip)'
                       PROVE  tries'[ip] <= Count(ip)'
          OBVIOUS
        <5>2. ip \in DOMAIN failures' /\ failures'[ip].left > 0
          BY <2>2, <2>5 DEF SessionsAssumption
        <5>3. failures'[ip].count # MaxFailures
          BY <5>1, <5>2 DEF LockedOut, Full
        <5>4. failures'[ip].count \in 1..MaxFailures
          BY <5>2 DEF TypeOK, Failure
        <5>5. Count(ip)' = failures'[ip].count
          BY <5>2, <5>3, <5>4 DEF Count, SessionsAssumption
        <5>6. failures'[ip].count = Count(ip) + 1
          <6>1. CASE ip \notin DOMAIN failures
            BY <2>2, <2>5, <6>1 DEF Count
          <6>2. CASE ip \in DOMAIN failures
            <7>1. failures[ip].count < MaxFailures
              BY <2>2, <2>5, <5>3, <6>2
            <7>2. QED
              BY <2>2, <2>5, <6>2, <7>1 DEF Count
          <6>3. QED
            BY <6>1, <6>2
        <5>7. QED
          BY <3>4, <3>5, <4>1, <5>5, <5>6 DEF SessionsAssumption
      <4>3. tries'[ip] + Cardinality(Comparing(ip))' <= MaxFailures - 1 + Cardinality(Logins)
        BY <3>2, <3>3, <3>4, <3>5, <4>1 DEF SessionsAssumption
      <4>4. QED
        BY <4>2, <4>3 DEF GuessesOf
    <3>8. QED
      BY <3>6, <3>7
  <2>6. QED
    BY <2>4, <2>5
<1>3. ASSUME NEW l \in Logins, Malformed(l)
      PROVE  GuessesOf(ip)'
  <2>1. Comparing(ip)' \subseteq Comparing(ip)
    BY <1>3 DEF Malformed, Goto, Comparing, Idle, TypeOK
  <2>2. QED
    BY <1>3, <2>1, GuessesKept DEF Malformed
<1>4. ASSUME NEW l \in Logins, NEW t \in Tokens, Issue(l, t)
      PROVE  GuessesOf(ip)'
  <2>1. Comparing(ip)' \subseteq Comparing(ip)
    BY <1>4 DEF Issue, Goto, Comparing, TypeOK
  <2>2. /\ DOMAIN failures' = DOMAIN failures \ LockIsOver
        /\ \A other \in DOMAIN failures' : failures'[other] = failures[other]
    BY <1>4, DroppedTyped DEF Issue
  <2>3. tries'[ip] = IF ip \in LockIsOver THEN 0 ELSE tries[ip]
    BY <1>4 DEF Issue, StartOver
  <2>4. QED
    BY <2>1, <2>2, <2>3, GuessesKept
<1>5. ASSUME NEW l \in Logins, ClearFailures(l)
      PROVE  GuessesOf(ip)'
  <2>1. Comparing(ip)' \subseteq Comparing(ip)
    BY <1>5 DEF ClearFailures, Goto, Comparing, Idle, TypeOK
  <2>2. /\ DOMAIN failures' = DOMAIN failures \ {login[l].ip}
        /\ \A other \in DOMAIN failures' : failures'[other] = failures[other]
    BY <1>5, DroppedTyped DEF ClearFailures
  <2>3. tries'[ip] = IF ip = login[l].ip THEN 0 ELSE tries[ip]
    BY <1>5 DEF ClearFailures, StartOver
  <2>4. QED
    BY <2>1, <2>2, <2>3, GuessesKept
<1>6. ASSUME NEW t \in Tokens, UseExpired(t) \/ Logout(t)
      PROVE  GuessesOf(ip)'
  <2>1. Comparing(ip)' \subseteq Comparing(ip)
    BY <1>6 DEF UseExpired, Logout, Comparing
  <2>2. QED
    BY <1>6, <2>1, GuessesKept DEF UseExpired, Logout
<1>7. CASE Tick
  <2>1. Comparing(ip)' \subseteq Comparing(ip)
    BY <1>7 DEF Tick, Comparing
  <2>2. CASE ip \notin DOMAIN failures
    <3>1. ip \notin DOMAIN failures' /\ tries'[ip] = tries[ip]
      BY <1>7, <2>2 DEF Tick, StartOver, LockedOut, Full
    <3>2. QED
      BY <2>1, <2>2, <3>1, GuessesKept
  <2>3. CASE ip \in DOMAIN failures
    <3>1. /\ failures[ip].count \in 1..MaxFailures /\ failures[ip].left \in 0..Lockout
          /\ ip \in DOMAIN failures'
          /\ failures'[ip].count = failures[ip].count
          /\ failures'[ip].left = IF failures[ip].left > 0 THEN failures[ip].left - 1 ELSE 0
      BY <1>7, <2>3 DEF Tick, TypeOK, Failure
    <3>2. Count(ip)' = Count(ip)
      BY <2>3, <3>1 DEF Count
    <3>3. tries[ip] \in Nat /\ Count(ip) \in Nat
      BY CountBelowLimit DEF TypeOK
    <3>4. CASE LockedOut(ip) /\ failures[ip].left = 1
      <4>1. ~LockedOut(ip)' /\ tries'[ip] = 0
        BY <1>7, <3>1, <3>4 DEF Tick, StartOver, LockedOut
      <4>2. QED
        BY <3>2, <3>3, <4>1 DEF GuessesOf
    <3>5. CASE LockedOut(ip) /\ failures[ip].left # 1
      <4>1. LockedOut(ip)' /\ tries'[ip] = tries[ip]
        BY <1>7, <3>1, <3>5 DEF Tick, StartOver, LockedOut, Full, SessionsAssumption
      <4>2. QED
        BY <2>1, <3>3, <3>5, <4>1, NoMoreCompare, ComparingCounted
           DEF GuessesOf, SessionsAssumption
    <3>6. CASE ~LockedOut(ip)
      <4>1. ~LockedOut(ip)' /\ tries'[ip] = tries[ip]
        BY <1>7, <2>3, <3>1, <3>6 DEF Tick, StartOver, LockedOut, Full, SessionsAssumption
      <4>2. QED
        BY <3>2, <3>6, <4>1 DEF GuessesOf
    <3>7. QED
      BY <3>4, <3>5, <3>6
  <2>4. QED
    BY <2>2, <2>3
<1>8. CASE Restart
  <2>1. ip \notin DOMAIN failures' /\ tries'[ip] = 0
    BY <1>8 DEF Restart
  <2>2. QED
    BY <2>1, GoneStands DEF GuessesOf
<1>9. CASE UNCHANGED vars
  <2>1. Comparing(ip)' \subseteq Comparing(ip)
    BY <1>9 DEF vars, Comparing
  <2>2. QED
    BY <1>9, <2>1, GuessesKept DEF vars
<1>10. QED
  BY <1>1, <1>2, <1>3, <1>4, <1>5, <1>6, <1>7, <1>8, <1>9 DEF Next, Answer

LEMMA InitGuesses == ASSUME SessionsAssumption, Init PROVE GuessesInv
<1>1. TypeOK
  BY InitTyped
<1>2. \A ip \in Addresses : GuessesOf(ip)
  BY DEF Init, GuessesOf, LockedOut, Full, Count
<1>3. QED
  BY <1>1, <1>2 DEF GuessesInv

LEMMA GuessesInvKept ==
  ASSUME SessionsAssumption, GuessesInv, [Next]_vars PROVE GuessesInv'
<1>1. TypeOK'
  BY StepTyped DEF GuessesInv
<1>2. \A ip \in Addresses : GuessesOf(ip)'
  BY <1>1, GuessesStep
<1>3. QED
  BY <1>1, <1>2 DEF GuessesInv

LEMMA GuessesFollow == ASSUME SessionsAssumption, GuessesInv PROVE GuessesBounded
<1> SUFFICES ASSUME NEW ip \in Addresses
             PROVE  tries[ip] <= MaxFailures - 1 + Cardinality(Logins)
  BY DEF GuessesBounded
<1>1. tries[ip] \in Nat /\ Count(ip) \in 0..(MaxFailures - 1) /\ GuessesOf(ip)
  BY CountBelowLimit DEF GuessesInv, TypeOK
<1>2. Cardinality(Comparing(ip)) \in Nat /\ Cardinality(Logins) \in Nat
  BY ComparingCounted
<1>3. QED
  BY <1>1, <1>2 DEF GuessesOf, SessionsAssumption

\* However logins interleave between the check of the lock and the count of a failure,
\* an address tries no more passwords than the limit and the logins that can be past the
\* check at a time allow (adminauth.go, LockedOut, RecordFailure, webAdminLogin).
THEOREM GuessesAreBounded == ASSUME SessionsAssumption PROVE Spec => []GuessesBounded
<1>1. Init => GuessesInv
  BY InitGuesses
<1>2. GuessesInv /\ [Next]_vars => GuessesInv'
  BY GuessesInvKept
<1>3. GuessesInv => GuessesBounded
  BY GuessesFollow
<1>4. QED
  BY <1>1, <1>2, <1>3, PTL DEF Spec

------------------------------------------------------------------------------
(* What ends a lock or a session *)

LEMMA LockStep ==
  ASSUME SessionsAssumption, TypeOK, Next, NEW ip \in Addresses,
         LockedOut(ip), failures[ip].left > 1
  PROVE  \/ LockedOut(ip)'
         \/ \E l \in Logins : login[l] = [step |-> "issued", ip |-> ip] /\ login'[l] = Idle
         \/ DOMAIN failures' = {} /\ \A l \in Logins : login'[l] = Idle
<1> DEFINE Goal == \/ LockedOut(ip)'
                   \/ \E l \in Logins : login[l] = [step |-> "issued", ip |-> ip] /\ login'[l] = Idle
                   \/ DOMAIN failures' = {} /\ \A l \in Logins : login'[l] = Idle
<1>1. ip \in DOMAIN failures /\ failures[ip].count = MaxFailures
  BY DEF LockedOut, Full
<1>2. ASSUME UNCHANGED failures
      PROVE  Goal
  BY <1>2 DEF LockedOut, Full
<1>3. ASSUME NEW l \in Logins, Refuse(l)
      PROVE  Goal
  <2>1. login[l].ip \in Addresses /\ RecordFailure(login[l].ip)
    BY <1>3, LoginTyped DEF Refuse
  <2>2. CASE login[l].ip = ip
    <3>1. RecordFailure(ip)
      BY <2>1, <2>2
    <3> HIDE DEF Goal
    <3>2. /\ DOMAIN failures' = DOMAIN failures \cup {ip}
          /\ failures'[ip].left = Lockout
          /\ failures'[ip].count =
               IF ip \notin DOMAIN failures THEN 1
               ELSE IF failures[ip].count < MaxFailures THEN failures[ip].count + 1
               ELSE MaxFailures
      BY <3>1, FailureTyped
    <3>3. failures'[ip].count = MaxFailures
      BY <1>1, <3>2 DEF SessionsAssumption
    <3>4. LockedOut(ip)'
      BY <3>2, <3>3 DEF LockedOut, Full, SessionsAssumption
    <3>5. QED
      BY <3>4 DEF Goal
  <2>3. CASE login[l].ip # ip
    <3>1. failures'[ip] = failures[ip] /\ ip \in DOMAIN failures'
      BY <1>1, <2>1, <2>3, FailureTyped
    <3>2. QED
      BY <3>1 DEF LockedOut, Full
  <2>4. QED
    BY <2>2, <2>3
<1>4. ASSUME NEW l \in Logins, NEW t \in Tokens, Issue(l, t)
      PROVE  Goal
  <2>1. ip \notin LockIsOver
    BY DEF LockIsOver
  <2>2. ip \in DOMAIN failures' /\ failures'[ip] = failures[ip]
    BY <1>1, <1>4, <2>1, DroppedTyped DEF Issue
  <2>3. QED
    BY <2>2 DEF LockedOut, Full
<1>5. ASSUME NEW l \in Logins, ClearFailures(l)
      PROVE  Goal
  <2>1. CASE login[l].ip = ip
    <3>1. login[l] = [step |-> "issued", ip |-> ip]
      BY <1>5, <2>1, LoginTyped DEF ClearFailures
    <3>2. login'[l] = Idle
      BY <1>5 DEF ClearFailures, Goto, TypeOK
    <3>3. QED
      BY <3>1, <3>2
  <2>2. CASE login[l].ip # ip
    <3>1. failures' = Drop(failures, {login[l].ip})
      BY <1>5 DEF ClearFailures
    <3>2. DOMAIN failures' = DOMAIN failures \ {login[l].ip}
          /\ \A other \in DOMAIN failures' : failures'[other] = failures[other]
      BY <3>1, DroppedTyped
    <3>3. ip \in DOMAIN failures' /\ failures'[ip] = failures[ip]
      BY <1>1, <2>2, <3>2
    <3>4. QED
      BY <3>3 DEF LockedOut, Full
  <2>3. QED
    BY <2>1, <2>2
<1>6. ASSUME Tick
      PROVE  Goal
  <2>1. /\ ip \in DOMAIN failures' /\ failures'[ip].count = MaxFailures
        /\ failures'[ip].left = failures[ip].left - 1
    BY <1>1, <1>6 DEF Tick, TypeOK, Failure, SessionsAssumption
  <2>2. failures[ip].left \in Nat
    BY <1>1 DEF TypeOK, Failure, SessionsAssumption
  <2>3. QED
    BY <2>1, <2>2 DEF LockedOut, Full
<1>7. ASSUME Restart
      PROVE  Goal
  BY <1>7 DEF Restart
<1>8. QED
  BY <1>2, <1>3, <1>4, <1>5, <1>6, <1>7
     DEF Next, Answer, Admit, Malformed, UseExpired, Logout

LEMMA SessionStep ==
  ASSUME SessionsAssumption, TypeOK, Next, NEW t \in Tokens, Valid(t), tokens[t] > 1
  PROVE  \/ Valid(t)'
         \/ tokens' = Drop(tokens, {t})
         \/ tokens' = [u \in {} |-> 0]
<1>1. t \in DOMAIN tokens /\ t \notin Expired /\ tokens[t] \in Nat
  BY DEF Valid, Expired, TypeOK, SessionsAssumption
<1>2. ASSUME UNCHANGED tokens
      PROVE  Valid(t)'
  BY <1>2 DEF Valid
<1>3. ASSUME NEW l \in Logins, NEW u \in Tokens, Issue(l, u)
      PROVE  Valid(t)'
  <2>1. u # t /\ tokens' = Put(Drop(tokens, Expired), u, TTL)
    BY <1>1, <1>3 DEF Issue
  <2>2. t \in DOMAIN tokens' /\ tokens'[t] = tokens[t]
    BY <1>1, <2>1 DEF Put, Drop
  <2>3. QED
    BY <2>2 DEF Valid
<1>4. ASSUME NEW u \in Tokens, UseExpired(u) \/ Logout(u)
      PROVE  Valid(t)' \/ tokens' = Drop(tokens, {t})
  <2>1. CASE u = t
    BY <1>4, <2>1 DEF UseExpired, Logout
  <2>2. CASE u # t
    <3>1. t \in DOMAIN tokens' /\ tokens'[t] = tokens[t]
      BY <1>1, <1>4, <2>2 DEF UseExpired, Logout, Drop
    <3>2. QED
      BY <3>1 DEF Valid
  <2>3. QED
    BY <2>1, <2>2
<1>5. ASSUME Tick
      PROVE  Valid(t)'
  <2>1. t \in DOMAIN tokens' /\ tokens'[t] = tokens[t] - 1
    BY <1>1, <1>5 DEF Tick, Valid
  <2>2. QED
    BY <1>1, <2>1 DEF Valid
<1>6. ASSUME Restart
      PROVE  tokens' = [u \in {} |-> 0]
  BY <1>6 DEF Restart
<1>7. QED
  BY <1>2, <1>3, <1>4, <1>5, <1>6 DEF Next, Answer, Admit, Refuse, Malformed, ClearFailures

LEMMA StepEndsNothing ==
  ASSUME SessionsAssumption, TypeOK, Next PROVE LocksHold /\ SessionsHold
<1>1. LocksHold
  BY LockStep DEF LocksHold
<1>2. SessionsHold
  BY SessionStep DEF SessionsHold
<1>3. QED
  BY <1>1, <1>2

\* A lock that runs is lifted by a login of its own address or a restart only, and a
\* session ends by its own logout, its time or a restart: the pruning in Issue, at the
\* login of somebody else, ends neither (adminauth.go, pruneLocked).
THEOREM NothingEndsEarly == ASSUME SessionsAssumption PROVE Spec => LocksAndSessionsHold
<1>1. TypeOK /\ [Next]_vars => [LocksHold /\ SessionsHold]_vars
  BY StepEndsNothing
<1>2. QED
  BY <1>1, TypeCorrect, PTL DEF Spec, LocksAndSessionsHold
==============================================================================
