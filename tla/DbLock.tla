-------------------------------- MODULE DbLock --------------------------------
(***************************************************************************)
(* pkg/database/db.go: how long a database call takes.  Every method takes *)
(* the package's RWMutex, then starts its context's timeout, then borrows  *)
(* a connection and runs its statement.  The mutex is Go's: a writer that  *)
(* has announced itself keeps new readers out, and the readers it kept out *)
(* go before the next writer.  A call that waits for the mutex has no      *)
(* timeout yet.                                                            *)
(***************************************************************************)
EXTENDS Naturals, FiniteSets

CONSTANTS
  Lookups,        \* DNS queries: GetTXTForDomain
  Reads,          \* GetByUsername, GetBySubdomain, GetAllDomains
  Writes,         \* the methods that change a table
  DefaultTimeout, \* dbDefaultTimeout, in ticks
  ReadTimeout,    \* dbReadTimeout, in ticks
  PoolSize        \* SetMaxOpenConns: 1 for SQLite, 10 otherwise

\* What the constants are; MCServices assumes it of its instance.
DbLockAssumption == /\ {DefaultTimeout, ReadTimeout, PoolSize} \subseteq Nat \ {0}
                    /\ ReadTimeout <= DefaultTimeout
                    /\ Lookups \cap Reads = {} /\ (Lookups \cup Reads) \cap Writes = {}
                    /\ "none" \notin Writes

VARIABLES
  stage,     \* what each call is doing
  announced, \* the write that holds or waits for the mutex first, if any
  left,      \* what is left of each call's timeout
  waited     \* history: how long ago each call was made

vars == <<stage, announced, left, waited>>

Calls == Lookups \cup Reads \cup Writes
Readers == Lookups \cup Reads
None == "none"
Longest == 2 * DefaultTimeout + ReadTimeout

TypeOK == /\ stage \in [Calls -> {"idle", "locking", "connecting", "querying"}]
          /\ announced \in Writes \cup {None}
          /\ left \in [Calls -> 0..DefaultTimeout]
          /\ waited \in [Calls -> 0..(Longest + 1)]

Init == /\ stage = [c \in Calls |-> "idle"]
        /\ announced = None
        /\ left = [c \in Calls |-> 0]
        /\ waited = [c \in Calls |-> 0]

Locked(c) == stage[c] \in {"connecting", "querying"}

\* Mutant of Timeout: a lookup's comes on top of the default.
StackedTimeout(c) == IF c \in Lookups THEN DefaultTimeout + ReadTimeout ELSE DefaultTimeout

Timeout(c) == IF c \in Lookups THEN ReadTimeout ELSE DefaultTimeout

\* Mutant of Expired: only lookups run with a timeout.
LookupExpired(c) == c \in Lookups /\ Locked(c) /\ left[c] = 0

\* The context has ended: the driver gives up, with or without a connection.
Expired(c) == Locked(c) /\ left[c] = 0

------------------------------------------------------------------------------
\* The mutex is held from here on, and the context starts.
Enter(S) ==
  /\ stage' = [c \in Calls |-> IF c \in S THEN "connecting" ELSE stage[c]]
  /\ left' = [c \in Calls |-> IF c \in S THEN Timeout(c) ELSE left[c]]

\* RLock
CallReader(c) ==
  /\ stage[c] = "idle"
  /\ IF announced = None THEN Enter({c})
     ELSE stage' = [stage EXCEPT ![c] = "locking"] /\ UNCHANGED left
  /\ UNCHANGED <<announced, waited>>

CallWriter(c) ==
  /\ stage[c] = "idle"
  /\ stage' = [stage EXCEPT ![c] = "locking"]
  /\ UNCHANGED <<announced, left, waited>>

\* Lock, first half: one write at a time keeps new readers out.
MayAnnounce(c) == stage[c] = "locking" /\ announced = None

Announce(c) ==
  /\ MayAnnounce(c)
  /\ announced' = c
  /\ UNCHANGED <<stage, left, waited>>

\* Lock, second half: the readers that were inside have left.
MayLock(c) == stage[c] = "locking" /\ announced = c /\ \A r \in Readers : ~Locked(r)

Lock(c) ==
  /\ MayLock(c)
  /\ Enter({c})
  /\ UNCHANGED <<announced, waited>>

Connect(c) ==
  /\ stage[c] = "connecting"
  /\ Cardinality({d \in Calls : stage[d] = "querying"}) < PoolSize
  /\ stage' = [stage EXCEPT ![c] = "querying"]
  /\ UNCHANGED <<announced, left, waited>>

\* Who gets in when c gives the mutex back: after a writer all the readers it
\* kept out, after a reader nobody.
Released(c) == IF c = announced THEN {r \in Readers : stage[r] = "locking"} ELSE {}

\* The deferred calls: the connection and the mutex are given back.
Return(c) ==
  /\ stage' = [d \in Calls |-> IF d = c THEN "idle"
                               ELSE IF d \in Released(c) THEN "connecting" ELSE stage[d]]
  /\ left' = [d \in Calls |-> IF d = c THEN 0
                              ELSE IF d \in Released(c) THEN Timeout(d) ELSE left[d]]
  /\ waited' = [waited EXCEPT ![c] = 0]
  /\ announced' = IF c = announced THEN None ELSE announced

Finish(c) == stage[c] = "querying" /\ Return(c)

TimeOut(c) == Expired(c) /\ Return(c)

\* What is due happens before time goes on.
Due == \/ \E c \in Calls : Expired(c)
       \/ \E c \in Writes : MayAnnounce(c) \/ MayLock(c)

Tick ==
  /\ ~Due
  /\ \E c \in Calls : stage[c] # "idle"
  /\ left' = [c \in Calls |-> IF Locked(c) /\ left[c] > 0 THEN left[c] - 1 ELSE left[c]]
  /\ waited' = [c \in Calls |-> IF stage[c] = "idle" \/ waited[c] > Longest THEN waited[c]
                                ELSE waited[c] + 1]
  /\ UNCHANGED <<stage, announced>>

Next == \/ \E c \in Readers : CallReader(c)
        \/ \E c \in Writes : CallWriter(c) \/ Announce(c) \/ Lock(c)
        \/ \E c \in Calls : Connect(c) \/ Finish(c) \/ TimeOut(c)
        \/ Tick

\* Time passes, timeouts fire, and Go's mutex starves no writer.
Spec == /\ Init /\ [][Next]_vars
        /\ WF_vars(Tick)
        /\ \A c \in Calls : WF_vars(TimeOut(c))
        /\ \A c \in Writes : SF_vars(Announce(c)) /\ WF_vars(Lock(c))

------------------------------------------------------------------------------
(* Properties *)

\* "A single stalled query" no longer "freezes the DNS hot path" for ever
\* (db.go:39-42): whatever stalls, a lookup is answered after a reader that was
\* inside, the write that waited for it, and its own statement have timed out.
LookupBounded == \A c \in Lookups : waited[c] <= Longest

\* Every call returns in the end, also when connections and mutex are both short.
EveryCallReturns == \A c \in Calls : stage[c] # "idle" ~> stage[c] = "idle"
==============================================================================
