----------------------------- MODULE ServerProofs -----------------------------
(***************************************************************************)
(* What the start of the process and the own certificate promise (main.go, *)
(* initialize.go, challengeprovider.go), for any networks, any of which    *)
(* may be taken or fail, and any keys.                                     *)
(***************************************************************************)
EXTENDS Server, TLAPS

N == Len(layout)
Up(p) == dns[p] \in {"listening", "sending", "ended"}

\* The types the argument rests on.
Typed ==
  /\ layout \in Layouts
  /\ main \in [at : {"launch", "await"}, n : 1..N] \cup [at : {"loop", "gone"}, n : {0}]
  /\ waitLock \in BOOLEAN
  /\ dns \in [Protos -> Stage]
  /\ authKey \in [Protos -> Keys \cup {NoKey}]
  /\ acme \in [step : {"idle", "present", "presented", "cleanup"}, key : Keys \cup {NoKey}, n : 0..N]

\* ApiAfterDns is not inductive: main has to be past a server only when that one has
\* listened, the mutex to be open only when the awaited one has, and no other server may
\* be starting.
StartInv ==
  /\ main.at \in {"launch", "await"} => \A k \in 1..(main.n - 1) : Up(layout[k])
  /\ main.at = "await" /\ ~waitLock => Up(layout[main.n])
  /\ main.at = "launch" => waitLock
  /\ main.at \in {"loop", "gone"} => \A k \in 1..N : Up(layout[k])
  /\ api # "off" => main.at \in {"loop", "gone"}
  /\ \A p \in Protos : dns[p] = "starting" =>
        main.at = "await" /\ p = layout[main.n] /\ waitLock

\* OwnChallengeAnswered is not inductive either: the handler has to be one of the
\* servers, and the loops over them to have got as far as n says.
KeyInv ==
  /\ \E k \in 1..N : handler = layout[k]
  /\ acme.step # "idle" => api # "off"
  /\ acme.step = "idle" => \A k \in 1..N : authKey[layout[k]] = NoKey
  /\ acme.step = "present" => \A k \in 1..acme.n : authKey[layout[k]] = acme.key
  /\ acme.step = "presented" => \A k \in 1..N : authKey[layout[k]] = acme.key
  /\ acme.step = "cleanup" => \A k \in 1..acme.n : authKey[layout[k]] = NoKey

\* The channel has room for one error; it plays no part in the rest.
ChannelInv == /\ api \in Stage
              /\ errChan = <<>> \/ \E p \in Protos \cup {"api"} : errChan = <<p>>

ServerInv == Typed /\ ChannelInv /\ StartInv /\ KeyInv

\* The servers of a layout are networks, each of them once.
LEMMA LayoutTyped ==
  ASSUME ServerAssumption, layout \in Layouts
  PROVE  /\ N \in Nat \ {0} /\ DOMAIN layout = 1..N
         /\ \A k \in 1..N : layout[k] \in Protos
         /\ \A j, k \in 1..N : layout[j] = layout[k] => j = k
<1>1. layout \in Seq(Protos) /\ layout # <<>> /\ IsInjective(layout)
  BY DEF ServerAssumption
<1>2. N \in Nat \ {0} /\ DOMAIN layout = 1..N /\ \A k \in 1..N : layout[k] \in Protos
  BY <1>1 DEF N
<1>3. QED
  BY <1>1, <1>2 DEF IsInjective

LEMMA InitServer == ASSUME ServerAssumption, Init PROVE ServerInv
<1>1. layout \in Layouts
  BY DEF Init
<1>2. N \in Nat \ {0} /\ \A k \in 1..N : layout[k] \in Protos
  BY <1>1, LayoutTyped
<1>3. Typed
  BY <1>1, <1>2 DEF Init, Typed, Stage, NoOrder
<1>4. StartInv
  BY <1>2 DEF Init, StartInv
<1>5. KeyInv
  BY <1>2 DEF Init, KeyInv, NoOrder
<1>6. ChannelInv
  BY DEF Init, ChannelInv, Stage
<1>7. QED
  BY <1>3, <1>4, <1>5, <1>6 DEF ServerInv

------------------------------------------------------------------------------
(* Starting *)

\* main and the goroutines, by what they change of the start.
LEMMA StartKept ==
  ASSUME ServerAssumption, Typed, StartInv, [Next]_vars
  PROVE  Typed' /\ StartInv'
<1> USE DEF Stage, N
<1>1. /\ N \in Nat \ {0} /\ \A k \in 1..N : layout[k] \in Protos
      /\ \A j, k \in 1..N : layout[j] = layout[k] => j = k
  BY LayoutTyped DEF Typed
<1>2. CASE Launch
  <2>1. main.n \in 1..N /\ layout[main.n] \in Protos
    BY <1>1, <1>2 DEF Launch, Typed
  <2>2. main' = [at |-> "await", n |-> main.n]
    BY <1>2 DEF Launch, Typed
  <2>3. \A p \in Protos : dns'[p] = IF p = layout[main.n] THEN "starting" ELSE dns[p]
    BY <1>2, <2>1 DEF Launch, DnsTo, Typed
  <2>4. Typed'
    BY <1>1, <1>2, <2>1, <2>2 DEF Launch, DnsTo, Typed
  <2>5. StartInv'
    BY <1>1, <1>2, <2>1, <2>2, <2>3 DEF Launch, Typed, StartInv, Up
  <2>6. QED
    BY <2>4, <2>5
<1>3. CASE Await
  <2>1. main.n \in 1..N /\ \A k \in 1..main.n : Up(layout[k])
    BY <1>1, <1>3 DEF Await, Typed, StartInv
  <2>2. CASE main.n < N
    <3>1. main' = [at |-> "launch", n |-> main.n + 1] /\ UNCHANGED api
      BY <1>3, <2>2 DEF Await, Proceed
    <3>2. Typed'
      BY <1>1, <1>3, <2>1, <2>2, <3>1 DEF Await, Typed
    <3>3. StartInv'
      BY <1>1, <1>3, <2>1, <2>2, <3>1 DEF Await, Typed, StartInv, Up
    <3>4. QED
      BY <3>2, <3>3
  <2>3. CASE ~(main.n < N)
    <3>1. main' = [at |-> "loop", n |-> 0] /\ main.n = N
      BY <1>1, <1>3, <2>1, <2>3 DEF Await, Proceed
    <3>2. Typed'
      BY <1>1, <1>3, <3>1 DEF Await, Typed
    <3>3. StartInv'
      BY <1>1, <1>3, <2>1, <3>1 DEF Await, Typed, StartInv, Up
    <3>4. QED
      BY <3>2, <3>3
  <2>4. QED
    BY <2>2, <2>3
<1>4. CASE Receive
  <2>1. main' = [at |-> "gone", n |-> 0] /\ main.at = "loop"
    BY <1>4 DEF Receive
  <2>2. Typed'
    BY <1>4, <2>1 DEF Receive, Typed
  <2>3. StartInv'
    BY <1>4, <2>1 DEF Receive, Typed, StartInv, Up
  <2>4. QED
    BY <2>2, <2>3
<1>5. ASSUME NEW p \in Protos, Listens(p) PROVE Typed' /\ StartInv'
  <2>1. main.at = "await" /\ p = layout[main.n] /\ main.n \in 1..N
    BY <1>5 DEF Listens, StartInv, Typed
  <2>2. \A q \in Protos : dns'[q] = IF q = p THEN "listening" ELSE dns[q]
    BY <1>5 DEF Listens, DnsTo, Typed
  <2>3. Typed'
    BY <1>5 DEF Listens, DnsTo, Typed
  <2>4. StartInv'
    BY <1>1, <1>5, <2>1, <2>2 DEF Listens, Typed, StartInv, Up
  <2>5. QED
    BY <2>3, <2>4
<1>6. ASSUME NEW p \in Protos, CannotListen(p) \/ Breaks(p) \/ Sends(p)
      PROVE  Typed' /\ StartInv'
  <2>1. /\ UNCHANGED <<layout, main, waitLock, api, acme, authKey>>
        /\ dns' = [dns EXCEPT ![p] = dns'[p]] /\ dns'[p] \in {"sending", "ended"}
    BY <1>6 DEF CannotListen, Breaks, Sends, DnsTo, Typed
  <2>2. \A q \in Protos : dns'[q] = IF q = p THEN dns'[p] ELSE dns[q]
    BY <2>1 DEF Typed
  <2>3. Typed'
    BY <2>1 DEF Typed
  <2>4. StartInv'
    BY <1>1, <2>1, <2>2 DEF Typed, StartInv, Up
  <2>5. QED
    BY <2>3, <2>4
<1>7. CASE ApiListens \/ ApiSends \/ ApiBreaks
  <2>1. UNCHANGED <<layout, main, waitLock, dns, acme, authKey>> /\ api # "off"
    BY <1>7 DEF ApiListens, ApiSends, ApiBreaks
  <2>2. QED
    BY <2>1 DEF Typed, StartInv, Up
<1>8. CASE Order \/ Present \/ Finish \/ CleanUp
  <2>1. UNCHANGED <<layout, main, waitLock, dns, api>>
    BY <1>8 DEF Order, Present, Finish, CleanUp
  <2>2. StartInv'
    BY <2>1 DEF StartInv, Up
  <2>3. /\ acme' \in [step : {"idle", "present", "presented", "cleanup"},
                       key : Keys \cup {NoKey}, n : 0..N]
        /\ authKey' \in [Protos -> Keys \cup {NoKey}]
    <3>1. CASE Order
      BY <1>1, <3>1 DEF Order, Typed
    <3>2. CASE Present
      <4>1. UNCHANGED <<main, dns>> /\ acme.key \in Keys \cup {NoKey} /\ acme.n \in 0..N
        BY <3>2 DEF Present, Typed
      <4>2. CASE acme.n < N /\ SetOwnAuthKeys(acme.key)
        BY <1>1, <4>1, <4>2 DEF SetOwnAuthKeys, Typed
      <4>3. CASE acme.n = N /\ acme' = [acme EXCEPT !.step = "presented"] /\ UNCHANGED authKey
        BY <4>3 DEF Typed
      <4>4. QED
        BY <3>2, <4>2, <4>3 DEF Present
    <3>3. CASE Finish
      <4>1. /\ acme' = [[acme EXCEPT !.step = "cleanup"] EXCEPT !.n = 0]
            /\ UNCHANGED authKey
        BY <3>3 DEF Finish
      <4>2. 0 \in 0..N
        BY <1>1
      <4>3. QED
        BY <4>1, <4>2 DEF Typed
    <3>4. CASE CleanUp
      BY <1>1, <3>4 DEF CleanUp, SetOwnAuthKeys, NoOrder, Typed
    <3>5. QED
      BY <1>8, <3>1, <3>2, <3>3, <3>4
  <2>4. QED
    BY <2>1, <2>2, <2>3 DEF Typed
<1>9. CASE UNCHANGED vars
  BY <1>9 DEF vars, Typed, StartInv, Up
<1>10. QED
  BY <1>2, <1>3, <1>4, <1>5, <1>6, <1>7, <1>8, <1>9 DEF Next, Main, Goroutine, ApiGoroutine

------------------------------------------------------------------------------
(* The own certificate *)

\* One turn of a loop over the servers.
LEMMA TurnSets ==
  ASSUME ServerAssumption, Typed, NEW key, acme.n < N, SetOwnAuthKeys(key)
  PROVE  /\ acme' = [acme EXCEPT !.n = acme.n + 1]
         /\ acme'.n = acme.n + 1 /\ acme'.step = acme.step /\ acme'.key = acme.key
         /\ \A k \in 1..N : authKey'[layout[k]] =
              IF layout[k] = layout[acme.n + 1] THEN key ELSE authKey[layout[k]]
<1>1. \A k \in 1..N : layout[k] \in Protos
  BY LayoutTyped DEF Typed
<1>2. QED
  BY <1>1 DEF SetOwnAuthKeys, Typed

LEMMA KeyKept ==
  ASSUME ServerAssumption, ServerInv, [Next]_vars
  PROVE  KeyInv'
<1> USE DEF N
<1>1. /\ N \in Nat \ {0} /\ \A k \in 1..N : layout[k] \in Protos
      /\ acme.n \in 0..N
  BY LayoutTyped DEF ServerInv, Typed
<1>2. CASE Launch \/ Await \/ Receive
  <2>1. UNCHANGED <<layout, handler, acme, authKey>> /\ (api # "off" => api' # "off")
    BY <1>2 DEF Launch, Await, Receive, Proceed
  <2>2. QED
    BY <2>1 DEF ServerInv, KeyInv
<1>3. ASSUME NEW p \in Protos, Listens(p) \/ CannotListen(p) PROVE KeyInv'
  <2>1. main.at = "await" /\ p = layout[main.n] /\ main.n \in 1..N
    BY <1>3 DEF Listens, CannotListen, ServerInv, StartInv, Typed
  <2>2. UNCHANGED <<layout, api, acme, authKey>> /\ handler' = p
    BY <1>3 DEF Listens, CannotListen
  <2>3. QED
    BY <2>1, <2>2 DEF ServerInv, KeyInv
<1>4. ASSUME NEW p \in Protos, Breaks(p) \/ Sends(p) PROVE KeyInv'
  <2>1. UNCHANGED <<layout, handler, api, acme, authKey>>
    BY <1>4 DEF Breaks, Sends
  <2>2. QED
    BY <2>1 DEF ServerInv, KeyInv
<1>5. CASE ApiListens \/ ApiSends \/ ApiBreaks
  <2>1. UNCHANGED <<layout, handler, acme, authKey>> /\ api' # "off"
    BY <1>5 DEF ApiListens, ApiSends, ApiBreaks
  <2>2. QED
    BY <2>1 DEF ServerInv, KeyInv
<1>6. CASE Order
  <2>1. /\ acme'.step = "present" /\ acme'.n = 0 /\ api # "off"
        /\ UNCHANGED <<layout, handler, api, authKey>>
    BY <1>6 DEF Order
  <2>2. QED
    BY <2>1 DEF ServerInv, KeyInv
<1>7. CASE Present
  <2>1. acme.step = "present" /\ UNCHANGED <<layout, handler, api>>
    BY <1>7 DEF Present
  <2>2. CASE acme.n < N /\ SetOwnAuthKeys(acme.key)
    <3>1. /\ acme'.n = acme.n + 1 /\ acme'.step = acme.step /\ acme'.key = acme.key
          /\ \A k \in 1..N : authKey'[layout[k]] =
               IF layout[k] = layout[acme.n + 1] THEN acme.key ELSE authKey[layout[k]]
      BY <2>2, TurnSets DEF ServerInv
    <3>2. QED
      BY <1>1, <2>1, <2>2, <3>1 DEF ServerInv, KeyInv
  <2>3. CASE acme.n = N /\ acme' = [acme EXCEPT !.step = "presented"] /\ UNCHANGED authKey
    BY <1>1, <2>1, <2>3 DEF ServerInv, KeyInv, Typed
  <2>4. QED
    BY <1>7, <2>2, <2>3 DEF Present
<1>8. CASE Finish
  <2>1. /\ acme.step = "presented" /\ acme'.step = "cleanup" /\ acme'.n = 0
        /\ UNCHANGED <<layout, handler, api, authKey>>
    BY <1>8 DEF Finish, ServerInv, Typed
  <2>2. QED
    BY <2>1 DEF ServerInv, KeyInv
<1>9. CASE CleanUp
  <2>1. acme.step = "cleanup" /\ UNCHANGED <<layout, handler, api>>
    BY <1>9 DEF CleanUp
  <2>2. CASE acme.n < N /\ SetOwnAuthKeys(NoKey)
    <3>1. /\ acme'.n = acme.n + 1 /\ acme'.step = acme.step
          /\ \A k \in 1..N : authKey'[layout[k]] =
               IF layout[k] = layout[acme.n + 1] THEN NoKey ELSE authKey[layout[k]]
      BY <2>2, TurnSets DEF ServerInv
    <3>2. QED
      BY <1>1, <2>1, <2>2, <3>1 DEF ServerInv, KeyInv
  <2>3. CASE acme.n = N /\ acme' = NoOrder /\ UNCHANGED authKey
    BY <1>1, <2>1, <2>3 DEF ServerInv, KeyInv, NoOrder
  <2>4. QED
    BY <1>9, <2>2, <2>3 DEF CleanUp
<1>10. CASE UNCHANGED vars
  BY <1>10 DEF vars, ServerInv, KeyInv
<1>11. QED
  BY <1>2, <1>3, <1>4, <1>5, <1>6, <1>7, <1>8, <1>9, <1>10
  DEF Next, Main, Goroutine, ApiGoroutine

LEMMA ChannelKept == ASSUME ChannelInv, [Next]_vars PROVE ChannelInv'
<1> USE DEF ChannelInv, Stage
<1>1. CASE Main
  <2>1. CASE Launch \/ Await
    BY <2>1 DEF Launch, Await, Proceed
  <2>2. CASE Receive
    <3>1. errChan' = <<>>
      BY <2>2 DEF Receive
    <3>2. QED
      BY <2>2, <3>1 DEF Receive
  <2>3. QED
    BY <1>1, <2>1, <2>2 DEF Main
<1>2. ASSUME NEW p \in Protos, Goroutine(p) \/ Breaks(p) PROVE ChannelInv'
  BY <1>2 DEF Goroutine, Listens, CannotListen, Sends, Breaks
<1>3. CASE ApiGoroutine \/ ApiBreaks
  BY <1>3 DEF ApiGoroutine, ApiListens, ApiSends, ApiBreaks
<1>4. CASE Order \/ Present \/ Finish \/ CleanUp
  BY <1>4 DEF Order, Present, Finish, CleanUp
<1>5. CASE UNCHANGED vars
  BY <1>5 DEF vars
<1>6. QED
  BY <1>1, <1>2, <1>3, <1>4, <1>5 DEF Next

LEMMA ServerInvKept ==
  ASSUME ServerAssumption, ServerInv, [Next]_vars PROVE ServerInv'
<1>1. Typed' /\ StartInv'
  BY StartKept DEF ServerInv
<1>2. KeyInv'
  BY KeyKept
<1>3. ChannelInv'
  BY ChannelKept DEF ServerInv
<1>4. QED
  BY <1>1, <1>2, <1>3 DEF ServerInv

\* All of the state is what its variables can be.
LEMMA ServerTyped == ASSUME ServerAssumption, ServerInv PROVE TypeOK
<1>1. errChan \in BoundedSeq(Protos \cup {"api"}, 1)
  <2>1. CASE errChan = <<>>
    <3>1. errChan \in [1..0 -> Protos \cup {"api"}]
      BY <2>1
    <3>2. QED
      BY <3>1 DEF BoundedSeq, SeqOf
  <2>2. ASSUME NEW p \in Protos \cup {"api"}, errChan = <<p>>
        PROVE  errChan \in BoundedSeq(Protos \cup {"api"}, 1)
    <3>1. errChan \in [1..1 -> Protos \cup {"api"}]
      BY <2>2
    <3>2. QED
      BY <3>1 DEF BoundedSeq, SeqOf
  <2>3. QED
    BY <2>1, <2>2 DEF ServerInv, ChannelInv
<1>2. handler \in Protos
  BY LayoutTyped DEF ServerInv, Typed, KeyInv
<1>3. QED
  BY <1>1, <1>2 DEF TypeOK, ServerInv, Typed, ChannelInv, N

LEMMA ServerHolds == ASSUME ServerAssumption PROVE Spec => []ServerInv
<1>1. Init => ServerInv
  BY InitServer
<1>2. ServerInv /\ [Next]_vars => ServerInv'
  BY ServerInvKept
<1>3. QED
  BY <1>1, <1>2, PTL DEF Spec

LEMMA ServerFollows == ASSUME ServerInv PROVE ApiAfterDns /\ OwnChallengeAnswered
<1>1. ApiAfterDns
  BY DEF ServerInv, StartInv, ApiAfterDns, Up, N
<1>2. OwnChallengeAnswered
  BY DEF ServerInv, KeyInv, OwnChallengeAnswered
<1>3. QED
  BY <1>1, <1>2

------------------------------------------------------------------------------
(* The theorems *)

\* The API, which orders certificates, starts only after every DNS server has listened,
\* whichever of them is slow, fails or is never heard of again (initialize.go, main.go).
THEOREM DnsComesFirst == ASSUME ServerAssumption PROVE Spec => []ApiAfterDns
BY ServerHolds, ServerFollows, PTL

\* While an order is presented every query for the own challenge is answered with its
\* key, whichever server's handler answers, and without an order with none
\* (SetOwnAuthKey, ChallengeProvider).
THEOREM ChallengeIsAnswered == ASSUME ServerAssumption PROVE Spec => []OwnChallengeAnswered
BY ServerHolds, ServerFollows, PTL
==============================================================================
