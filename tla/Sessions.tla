------------------------------- MODULE Sessions -------------------------------
(***************************************************************************)
(* pkg/api/adminauth.go: the admin sessions and the counter of failed      *)
(* logins, both in memory and behind one mutex.  A login takes the mutex   *)
(* up to three times (LockedOut, RecordFailure or Issue, ClearFailures)    *)
(* with a bcrypt comparison of some tenths of a second in between, so      *)
(* logins interleave there.  Times are kept as what is left of them, in    *)
(* ticks; the instant at which nothing is left counts as expired.          *)
(***************************************************************************)
EXTENDS Naturals, FiniteSets

CONSTANTS
  Addresses,    \* source addresses
  Tokens,       \* bound: sessions at a time; 32 random bytes never repeat one in use
  Logins,       \* bound: logins in flight at a time
  MaxFailures,  \* maxLoginFailures
  Lockout,      \* loginLockout in ticks
  TTL           \* session_ttl_hours in ticks

\* What the constants are; MCServices assumes it of its instance.
SessionsAssumption == /\ IsFiniteSet(Logins)
                      /\ MaxFailures \in Nat \ {0}
                      /\ Lockout \in Nat \ {0}
                      /\ TTL \in Nat \ {0}

VARIABLES
  tokens,    \* sessionStore.tokens: what is left of each session, a partial function
  failures,  \* sessionStore.failures: a partial function of addresses
  login,     \* the logins in flight
  tries      \* history: failed logins since the address was last free to start over

vars == <<tokens, failures, login, tries>>

\* The count is only ever compared with MaxFailures and stops there.
Failure == [count : 1..MaxFailures, left : 0..Lockout]

Idle == [step |-> "idle"]
Login == {Idle} \cup [step : {"comparing", "issued"}, ip : Addresses]

TypeOK == /\ DOMAIN tokens \subseteq Tokens
          /\ tokens \in [DOMAIN tokens -> 0..TTL]
          /\ DOMAIN failures \subseteq Addresses
          /\ failures \in [DOMAIN failures -> Failure]
          /\ login \in [Logins -> Login]
          /\ tries \in [Addresses -> Nat]

Drop(f, S) == [x \in DOMAIN f \ S |-> f[x]]
Put(f, x, y) == [z \in DOMAIN f \cup {x} |-> IF z = x THEN y ELSE f[z]]

Full(ip) == ip \in DOMAIN failures /\ failures[ip].count = MaxFailures
LockedOut(ip) == Full(ip) /\ failures[ip].left > 0
Valid(t) == t \in DOMAIN tokens /\ tokens[t] > 0

\* Mutants of the two halves of pruneLocked: sessions still good, locks still running.
NotYetExpired == {t \in DOMAIN tokens : tokens[t] > 0}
AnyLock == {ip \in DOMAIN failures : Full(ip)}

Expired == {t \in DOMAIN tokens : tokens[t] = 0}
LockIsOver == {ip \in DOMAIN failures : Full(ip) /\ failures[ip].left = 0}

------------------------------------------------------------------------------
Init == /\ tokens = [t \in {} |-> 0]
        /\ failures = [ip \in {} |-> [count |-> 1, left |-> 0]]
        /\ login = [l \in Logins |-> Idle]
        /\ tries = [ip \in Addresses |-> 0]

Goto(l, r) == login' = [login EXCEPT ![l] = r]
StartOver(ips) == tries' = [ip \in Addresses |-> IF ip \in ips THEN 0 ELSE tries[ip]]

\* Mutant of RecordFailure: the failure that reaches the limit does not set the time.
ForgetfulFailure(ip) ==
  LET n == IF ip \in DOMAIN failures THEN failures[ip].count ELSE 0
  IN failures' = Put(failures, ip, [count |-> IF n < MaxFailures THEN n + 1 ELSE n,
                                    left |-> IF n + 1 = MaxFailures THEN 0 ELSE Lockout])

\* Mutant of RecordFailure: a failure prolongs the lock instead of setting it anew.
ProlongingFailure(ip) ==
  LET known == ip \in DOMAIN failures
      n == IF known THEN failures[ip].count ELSE 0
  IN failures' = Put(failures, ip, [count |-> IF n < MaxFailures THEN n + 1 ELSE n,
                                    left |-> Lockout + IF known THEN failures[ip].left ELSE 0])

RecordFailure(ip) ==
  LET n == IF ip \in DOMAIN failures THEN failures[ip].count ELSE 0
  IN failures' = Put(failures, ip, [count |-> IF n < MaxFailures THEN n + 1 ELSE n,
                                    left |-> Lockout])

\* Mutant of Admit: a login that is turned away counts as a failure.
AdmitOrCount(l, ip) ==
  /\ login[l].step = "idle"
  /\ IF LockedOut(ip) THEN RecordFailure(ip) /\ UNCHANGED login
     ELSE Goto(l, [step |-> "comparing", ip |-> ip]) /\ UNCHANGED failures
  /\ UNCHANGED <<tokens, tries>>

\* webAdminLogin, up to the comparison of the password.
Admit(l, ip) ==
  /\ login[l].step = "idle"
  /\ ~LockedOut(ip)
  /\ Goto(l, [step |-> "comparing", ip |-> ip])
  /\ UNCHANGED <<tokens, failures, tries>>

\* The credentials are wrong.
Refuse(l) ==
  /\ login[l].step = "comparing"
  /\ RecordFailure(login[l].ip)
  /\ tries' = [tries EXCEPT ![login[l].ip] = @ + 1]
  /\ Goto(l, Idle)
  /\ UNCHANGED tokens

\* The body cannot be read: nothing is compared or counted.
Malformed(l) ==
  /\ login[l].step = "comparing"
  /\ Goto(l, Idle)
  /\ UNCHANGED <<tokens, failures, tries>>

\* The credentials are right: Issue prunes the store and adds a session.
Issue(l, t) ==
  /\ login[l].step = "comparing"
  /\ t \notin DOMAIN tokens
  /\ tokens' = Put(Drop(tokens, Expired), t, TTL)
  /\ failures' = Drop(failures, LockIsOver)
  /\ StartOver(LockIsOver)
  /\ Goto(l, [step |-> "issued", ip |-> login[l].ip])

ClearFailures(l) ==
  /\ login[l].step = "issued"
  /\ failures' = Drop(failures, {login[l].ip})
  /\ StartOver({login[l].ip})
  /\ Goto(l, Idle)
  /\ UNCHANGED tokens

\* AdminAuth with a token that has expired: Valid drops it.
UseExpired(t) ==
  /\ t \in Expired
  /\ tokens' = Drop(tokens, {t})
  /\ UNCHANGED <<failures, login, tries>>

\* webAdminLogout, behind AdminAuth.
Logout(t) ==
  /\ Valid(t)
  /\ tokens' = Drop(tokens, {t})
  /\ UNCHANGED <<failures, login, tries>>

\* A lock that runs out lets its address start over.
Tick ==
  /\ tokens' = [t \in DOMAIN tokens |-> IF tokens[t] > 0 THEN tokens[t] - 1 ELSE 0]
  /\ failures' = [ip \in DOMAIN failures |->
                    [failures[ip] EXCEPT !.left = IF @ > 0 THEN @ - 1 ELSE 0]]
  /\ StartOver({ip \in Addresses : LockedOut(ip) /\ failures[ip].left = 1})
  /\ UNCHANGED login

\* Sessions and counters live in memory only.
Restart ==
  /\ tokens' = [t \in {} |-> 0]
  /\ failures' = [ip \in {} |-> [count |-> 1, left |-> 0]]
  /\ login' = [l \in Logins |-> Idle]
  /\ tries' = [ip \in Addresses |-> 0]

Answer(l) == Refuse(l) \/ Malformed(l) \/ (\E t \in Tokens : Issue(l, t)) \/ ClearFailures(l)

Next == \/ \E l \in Logins : (\E ip \in Addresses : Admit(l, ip)) \/ Answer(l)
        \/ \E t \in Tokens : UseExpired(t) \/ Logout(t)
        \/ Tick
        \/ Restart

\* Time passes; nothing else has to happen.
Spec == Init /\ [][Next]_vars /\ WF_vars(Tick)

------------------------------------------------------------------------------
(* Properties *)

\* The check in LockedOut and the count in RecordFailure are two critical sections:
\* logins already past the check still compare a password when the limit is reached.
\* Their number is all that is added to the limit (adminauth.go:108-129, 189-207).
GuessesBounded == \A ip \in Addresses : tries[ip] <= MaxFailures - 1 + Cardinality(Logins)

\* A lock is lifted by its own end, by a login from that address that was under way
\* when it was set, or by a restart; not by what other addresses do (Issue prunes).
LocksHold ==
  \A ip \in Addresses :
    LockedOut(ip) /\ failures[ip].left > 1 =>
      \/ LockedOut(ip)'
      \/ \E l \in Logins : login[l] = [step |-> "issued", ip |-> ip] /\ login'[l] = Idle
      \/ DOMAIN failures' = {} /\ \A l \in Logins : login'[l] = Idle

\* A session that has time left ends by its own logout or a restart only: the logins
\* of other administrators do not end it.
SessionsHold ==
  \A t \in Tokens : Valid(t) /\ tokens[t] > 1 =>
    \/ Valid(t)'
    \/ tokens' = Drop(tokens, {t})
    \/ tokens' = [u \in {} |-> 0]

LocksAndSessionsHold == [][LocksHold /\ SessionsHold]_vars

\* An address is not locked out for ever, however often it tries meanwhile.
LockEnds == \A ip \in Addresses : LockedOut(ip) ~> ~LockedOut(ip)

\* README_COMBINED.md:141 and the comment on maxLoginFailures: it takes that many
\* failed logins to lock an address.  A lock that has run out leaves its count
\* behind, and the next failure locks again, unless an Issue came in between.
LockNeedsMaxFailures == \A ip \in Addresses : LockedOut(ip) => tries[ip] >= MaxFailures
==============================================================================
