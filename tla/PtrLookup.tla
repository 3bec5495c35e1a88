------------------------------ MODULE PtrLookup ------------------------------
(***************************************************************************)
(* pkg/api/identify.go, resolvePTRs and its cache: a list request looks up *)
(* the host names of the addresses it shows, a few at a time, while other  *)
(* list requests fill the same cache.  Time passes in ticks of ptrTimeout, *)
(* the longest a lookup can take.                                          *)
(***************************************************************************)
EXTENDS Naturals, FiniteSets

CONSTANTS
  Requests, \* list requests at a time
  Ips,      \* the addresses registrations were last updated from
  Hosts,    \* host names
  NoHost,   \* no PTR record, or a lookup that failed
  Slots,    \* ptrConcurrency
  Ttl       \* ptrCacheTTL, in ticks

\* What the constants are; MCServices assumes it of its instance.
PtrAssumption == /\ NoHost \notin Hosts /\ IsFiniteSet(Ips)
                 /\ Slots \in Nat \ {0} /\ Ttl \in Nat \ {0}

VARIABLES
  cache,   \* ptrCache.entries, a partial function of addresses
  asked,   \* the addresses of each running request, {} when there is none
  pending, \* those of its lookups that wait for a slot
  looking, \* those that hold one, with the ticks they have left
  result,  \* its map of hosts, a partial function of addresses
  took,    \* history: the ticks since it began
  age      \* history: the age of the youngest lookup that gave an address a host

vars == <<cache, asked, pending, looking, result, took, age>>

Forgotten == Ttl + Cardinality(Ips) + 1

TypeOK == /\ DOMAIN cache \subseteq Ips
          /\ cache \in [DOMAIN cache -> [host : Hosts \cup {NoHost}, left : 0..Ttl]]
          /\ asked \in [Requests -> SUBSET Ips] /\ pending \in [Requests -> SUBSET Ips]
          /\ DOMAIN looking = Requests /\ DOMAIN result = Requests
          /\ \A c \in Requests : /\ pending[c] \cup DOMAIN looking[c] \subseteq asked[c]
                                 /\ pending[c] \cap DOMAIN looking[c] = {}
                                 /\ Cardinality(DOMAIN looking[c]) <= Slots
                                 /\ looking[c] \in [DOMAIN looking[c] -> 0..1]
                                 /\ DOMAIN result[c] \subseteq asked[c]
                                 /\ result[c] \in [DOMAIN result[c] -> Hosts]
          /\ took \in [Requests -> 0..(Cardinality(Ips) + 1)]
          /\ age \in [Ips -> [Hosts -> 0..Forgotten]]

Nothing == [ip \in {} |-> 0]
Put(f, x, y) == [z \in DOMAIN f \cup {x} |-> IF z = x THEN y ELSE f[z]]
Drop(f, x) == [z \in DOMAIN f \ {x} |-> f[z]]

Init == /\ cache = Nothing
        /\ asked = [c \in Requests |-> {}]
        /\ pending = [c \in Requests |-> {}]
        /\ looking = [c \in Requests |-> Nothing]
        /\ result = [c \in Requests |-> Nothing]
        /\ took = [c \in Requests |-> 0]
        /\ age = [ip \in Ips |-> [h \in Hosts |-> Forgotten]]

\* Mutant of Cached: an entry never expires.
EverCached(ip) == ip \in DOMAIN cache

\* ptrCache.get
Cached(ip) == ip \in DOMAIN cache /\ cache[ip].left > 0

------------------------------------------------------------------------------
\* resolvePTRs takes the mutex for each address; in between another request can only put an
\* entry that is fresher, so all are read at once.
Begin(c, ips) ==
  /\ asked[c] = {}
  /\ asked' = [asked EXCEPT ![c] = ips]
  /\ result' = [result EXCEPT ![c] =
       [ip \in {i \in ips : Cached(i) /\ cache[i].host # NoHost} |-> cache[ip].host]]
  /\ pending' = [pending EXCEPT ![c] = {i \in ips : ~Cached(i)}]
  /\ UNCHANGED <<cache, looking, took, age>>

FreeSlot(c) == Cardinality(DOMAIN looking[c]) < Slots

\* Mutant of TakeSlot: the address stays among those to look up.
TakeAndKeep(c, ip) ==
  /\ ip \in pending[c] /\ FreeSlot(c)
  /\ looking' = [looking EXCEPT ![c] = Put(@, ip, 1)]
  /\ UNCHANGED <<cache, asked, pending, result, took, age>>

TakeSlot(c, ip) ==
  /\ ip \in pending[c] /\ FreeSlot(c)
  /\ pending' = [pending EXCEPT ![c] = @ \ {ip}]
  /\ looking' = [looking EXCEPT ![c] = Put(@, ip, 1)]
  /\ UNCHANGED <<cache, asked, result, took, age>>

\* Mutant of Answer: a lookup without a name is tried again.
RetryFailed(c, ip, h) ==
  /\ ip \in DOMAIN looking[c]
  /\ looking[c][ip] = 0 => h = NoHost
  /\ looking' = [looking EXCEPT ![c] = Drop(@, ip)]
  /\ IF h = NoHost
     THEN pending' = [pending EXCEPT ![c] = @ \cup {ip}] /\ UNCHANGED <<cache, result, age>>
     ELSE /\ cache' = Put(cache, ip, [host |-> h, left |-> Ttl])
          /\ result' = [result EXCEPT ![c] = Put(@, ip, h)]
          /\ age' = [age EXCEPT ![ip][h] = 0]
          /\ UNCHANGED pending
  /\ UNCHANGED <<asked, took>>

\* LookupAddr returns, in time or with its timeout; a lookup without a name is
\* cached like one with.
Answer(c, ip, h) ==
  /\ ip \in DOMAIN looking[c]
  /\ looking[c][ip] = 0 => h = NoHost
  /\ looking' = [looking EXCEPT ![c] = Drop(@, ip)]
  /\ cache' = Put(cache, ip, [host |-> h, left |-> Ttl])
  /\ IF h = NoHost THEN UNCHANGED <<result, age>>
     ELSE /\ result' = [result EXCEPT ![c] = Put(@, ip, h)]
          /\ age' = [age EXCEPT ![ip][h] = 0]
  /\ UNCHANGED <<asked, pending, took>>

\* wg.Wait() is over and the response is written.
Respond(c) ==
  /\ asked[c] # {} /\ pending[c] = {} /\ looking[c] = Nothing
  /\ asked' = [asked EXCEPT ![c] = {}]
  /\ result' = [result EXCEPT ![c] = Nothing]
  /\ took' = [took EXCEPT ![c] = 0]
  /\ UNCHANGED <<cache, pending, looking, age>>

\* A free slot is taken, a timeout fires and a response is written before time goes on.
Settled(c) == /\ pending[c] # {} => ~FreeSlot(c)
              /\ \A ip \in DOMAIN looking[c] : looking[c][ip] = 1
              /\ asked[c] # {} => looking[c] # Nothing

Tick ==
  /\ \A c \in Requests : Settled(c)
  /\ cache' = [ip \in DOMAIN cache |-> [cache[ip] EXCEPT !.left = IF @ > 0 THEN @ - 1 ELSE 0]]
  /\ looking' = [c \in Requests |-> [ip \in DOMAIN looking[c] |-> 0]]
  /\ took' = [c \in Requests |-> IF asked[c] = {} THEN 0 ELSE took[c] + 1]
  /\ age' = [ip \in Ips |-> [h \in Hosts |->
               IF age[ip][h] < Forgotten THEN age[ip][h] + 1 ELSE Forgotten]]
  /\ UNCHANGED <<asked, pending, result>>

Lookups(c) == \E ip \in Ips : TakeSlot(c, ip) \/ \E h \in Hosts \cup {NoHost} : Answer(c, ip, h)

Next == \/ \E c \in Requests : (\E ips \in SUBSET Ips \ {{}} : Begin(c, ips)) \/ Lookups(c) \/ Respond(c)
        \/ Tick

\* The goroutines run, every lookup ends by its timeout, and time passes.
Spec == /\ Init /\ [][Next]_vars
        /\ \A c \in Requests : WF_vars(Lookups(c)) /\ WF_vars(Respond(c))
        /\ WF_vars(Tick)

------------------------------------------------------------------------------
(* Properties *)

Rounds(n) == (n + Slots - 1) \div Slots

\* A list takes one timeout for every Slots addresses it has to look up, however
\* many of them do not answer (identify.go:80-106).
ListBounded == \A c \in Requests : took[c] <= Rounds(Cardinality(asked[c]))

\* A host that is shown was found by a lookup that was no older than the cache's
\* time to live when the request began, whichever request made it.
HostsAreFresh ==
  \A c \in Requests : \A ip \in DOMAIN result[c] : age[ip][result[c][ip]] < Ttl + took[c] + 1

\* Every list request is answered, also when no name server is.
ListsEnd == \A c \in Requests : asked[c] # {} ~> asked[c] = {}
==============================================================================
