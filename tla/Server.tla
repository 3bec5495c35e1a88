-------------------------------- MODULE Server --------------------------------
(***************************************************************************)
(* main.go, nameserver/initialize.go, api.Start and the challenge provider:*)
(* the goroutines of one process.  main starts the DNS servers one by one, *)
(* each time waiting on a mutex that the server unlocks once it listens,   *)
(* then the API, and then waits for the first error on a channel of one.   *)
(* certmagic, which api.Start calls, sets and clears the key of the        *)
(* server's own ACME challenge on every DNS server; all of them answer     *)
(* through one handler, that of the server which registered last.          *)
(***************************************************************************)
EXTENDS Naturals, Sequences, SequencesExt

CONSTANTS
  Protos,     \* the networks general.protocol can name
  Layouts,    \* the sequences of them it can ask for
  Taken,      \* networks on which general.listen may be in use already
  MayFail,    \* networks on which a listening server may fail later
  ApiMayFail, \* the API may fail: its address, its certificate files, certmagic
  Keys,       \* key authorisations of the own certificate
  NoKey       \* the empty one

\* What the constants are; MCServices assumes it of its instance.
ServerAssumption == /\ Layouts \subseteq Seq(Protos) /\ <<>> \notin Layouts
                    /\ \A l \in Layouts : IsInjective(l)
                    /\ NoKey \notin Keys
                    /\ ApiMayFail \in BOOLEAN

VARIABLES
  layout,   \* dnsservers, in the order InitAndStart makes them
  main,     \* main: launching or awaiting the n-th server, in its loop, or gone
  waitLock, \* InitAndStart's mutex is held
  dns,      \* the goroutine of each DNS server
  handler,  \* the server whose handleRequest the package dns calls
  api,      \* the goroutine of the API
  errChan,  \* the channel of errors, by sender
  acme,     \* certmagic's order for the own certificate
  authKey   \* personalAuthKey of each DNS server

vars == <<layout, main, waitLock, dns, handler, api, errChan, acme, authKey>>

Stage == {"off", "starting", "listening", "sending", "ended"}
NoOrder == [step |-> "idle", key |-> NoKey, n |-> 0]

TypeOK == /\ layout \in Layouts
          /\ main \in [at : {"launch", "await"}, n : 1..Len(layout)]
                      \cup [at : {"loop", "gone"}, n : {0}]
          /\ waitLock \in BOOLEAN
          /\ dns \in [Protos -> Stage]
          /\ handler \in Protos
          /\ api \in Stage
          /\ errChan \in BoundedSeq(Protos \cup {"api"}, 1)
          /\ acme \in [step : {"idle", "present", "presented", "cleanup"},
                       key : Keys \cup {NoKey}, n : 0..Len(layout)]
          /\ authKey \in [Protos -> Keys \cup {NoKey}]

Init == /\ layout \in Layouts
        /\ main = [at |-> "launch", n |-> 1]
        /\ waitLock = TRUE
        /\ dns = [p \in Protos |-> "off"]
        /\ handler = layout[1]  \* nobody answers before the first Start
        /\ api = "off"
        /\ errChan = <<>>
        /\ acme = NoOrder
        /\ authKey = [p \in Protos |-> NoKey]

Running == main.at # "gone"
DnsTo(p, stage) == dns' = [dns EXCEPT ![p] = stage]

------------------------------------------------------------------------------
(* main and InitAndStart *)

\* What follows once the n-th server is up; the API starts after the last.
Proceed(n) ==
  IF n < Len(layout) THEN main' = [at |-> "launch", n |-> n + 1] /\ UNCHANGED api
  ELSE main' = [at |-> "loop", n |-> 0] /\ api' = "starting"

\* Mutant of Launch: main goes on without waiting for the server.
LaunchAndGo ==
  /\ main.at = "launch"
  /\ DnsTo(layout[main.n], "starting")
  /\ Proceed(main.n)
  /\ UNCHANGED <<layout, waitLock, handler, errChan, acme, authKey>>

\* go Start
Launch ==
  /\ main.at = "launch"
  /\ DnsTo(layout[main.n], "starting")
  /\ main' = [main EXCEPT !.at = "await"]
  /\ UNCHANGED <<layout, waitLock, handler, api, errChan, acme, authKey>>

\* waitLock.Lock(): main takes the mutex again once the server has unlocked it.
Await ==
  /\ main.at = "await" /\ ~waitLock
  /\ waitLock' = TRUE
  /\ Proceed(main.n)
  /\ UNCHANGED <<layout, dns, handler, errChan, acme, authKey>>

\* Mutant of Receive: the error is logged and the process goes on.
LogAndGoOn ==
  /\ main.at = "loop" /\ errChan # <<>>
  /\ errChan' = Tail(errChan)
  /\ UNCHANGED <<layout, main, waitLock, dns, handler, api, acme, authKey>>

\* The first error ends the process: sugar.Fatal.
Receive ==
  /\ main.at = "loop" /\ errChan # <<>>
  /\ errChan' = Tail(errChan)
  /\ main' = [at |-> "gone", n |-> 0]
  /\ UNCHANGED <<layout, waitLock, dns, handler, api, acme, authKey>>

Main == Launch \/ Await \/ Receive

------------------------------------------------------------------------------
(* The servers *)

\* Start registers the handler before it listens; both servers register for ".".
Listens(p) ==
  /\ Running /\ dns[p] = "starting"
  /\ handler' = p
  /\ DnsTo(p, "listening") /\ waitLock' = FALSE
  /\ UNCHANGED <<layout, main, api, errChan, acme, authKey>>

CannotListen(p) ==
  /\ Running /\ dns[p] = "starting" /\ p \in Taken
  /\ handler' = p
  /\ DnsTo(p, "sending")
  /\ UNCHANGED <<layout, main, waitLock, api, errChan, acme, authKey>>

Breaks(p) ==
  /\ Running /\ dns[p] = "listening" /\ p \in MayFail
  /\ DnsTo(p, "sending")
  /\ UNCHANGED <<layout, main, waitLock, handler, api, errChan, acme, authKey>>

\* Mutant of Sends: the buffer takes every error.
SendsAnyway(p) ==
  /\ Running /\ dns[p] = "sending"
  /\ errChan' = Append(errChan, p)
  /\ DnsTo(p, "ended")
  /\ UNCHANGED <<layout, main, waitLock, handler, api, acme, authKey>>

Sends(p) ==
  /\ Running /\ dns[p] = "sending" /\ errChan = <<>>
  /\ errChan' = <<p>>
  /\ DnsTo(p, "ended")
  /\ UNCHANGED <<layout, main, waitLock, handler, api, acme, authKey>>

ApiListens ==
  /\ Running /\ api = "starting"
  /\ api' = "listening"
  /\ UNCHANGED <<layout, main, waitLock, dns, handler, errChan, acme, authKey>>

ApiBreaks ==
  /\ Running /\ api \in {"starting", "listening"} /\ ApiMayFail
  /\ api' = "sending"
  /\ UNCHANGED <<layout, main, waitLock, dns, handler, errChan, acme, authKey>>

ApiSends ==
  /\ Running /\ api = "sending" /\ errChan = <<>>
  /\ errChan' = <<"api">>
  /\ api' = "ended"
  /\ UNCHANGED <<layout, main, waitLock, dns, handler, acme, authKey>>

------------------------------------------------------------------------------
(* The own certificate: ChallengeProvider, called by certmagic *)

Order == /\ Running /\ api \in {"starting", "listening"} /\ acme.step = "idle"
         /\ \E key \in Keys : acme' = [step |-> "present", key |-> key, n |-> 0]
         /\ UNCHANGED <<layout, main, waitLock, dns, handler, api, errChan, authKey>>

\* Mutant of SetOwnAuthKeys: only the first server gets the key.
SetFirstAuthKey(key) ==
  /\ authKey' = [authKey EXCEPT ![layout[1]] = key]
  /\ acme' = [acme EXCEPT !.n = Len(layout)]

\* One turn of the loop over the servers: SetOwnAuthKey of the next one.
SetOwnAuthKeys(key) ==
  /\ authKey' = [authKey EXCEPT ![layout[acme.n + 1]] = key]
  /\ acme' = [acme EXCEPT !.n = @ + 1]

Present ==
  /\ Running /\ acme.step = "present"
  /\ \/ acme.n < Len(layout) /\ SetOwnAuthKeys(acme.key)
     \/ acme.n = Len(layout) /\ acme' = [acme EXCEPT !.step = "presented"] /\ UNCHANGED authKey
  /\ UNCHANGED <<layout, main, waitLock, dns, handler, api, errChan>>

\* The certificate authority has looked, or certmagic has given up.
Finish == /\ Running /\ acme.step = "presented"
          /\ acme' = [acme EXCEPT !.step = "cleanup", !.n = 0]
          /\ UNCHANGED <<layout, main, waitLock, dns, handler, api, errChan, authKey>>

CleanUp ==
  /\ Running /\ acme.step = "cleanup"
  /\ \/ acme.n < Len(layout) /\ SetOwnAuthKeys(NoKey)
     \/ acme.n = Len(layout) /\ acme' = NoOrder /\ UNCHANGED authKey
  /\ UNCHANGED <<layout, main, waitLock, dns, handler, api, errChan>>

Goroutine(p) == Listens(p) \/ CannotListen(p) \/ Sends(p)
ApiGoroutine == ApiListens \/ ApiSends

Next == \/ Main
        \/ \E p \in Protos : Goroutine(p) \/ Breaks(p)
        \/ ApiGoroutine \/ ApiBreaks
        \/ Order \/ Present \/ Finish \/ CleanUp

\* The scheduler runs every goroutine that can run; nothing has to fail, and
\* no certificate has to be ordered.
Spec == /\ Init /\ [][Next]_vars
        /\ WF_vars(Main)
        /\ \A p \in Protos : WF_vars(Goroutine(p))
        /\ WF_vars(ApiGoroutine)

------------------------------------------------------------------------------
(* Properties *)

Failed(p) == dns[p] \in {"sending", "ended"}

\* Certificates are ordered by the API, and the authority asks the DNS servers:
\* the API starts only after each of them has listened (initialize.go:52-70).
ApiAfterDns ==
  api # "off" => \A n \in 1..Len(layout) : dns[layout[n]] \in {"listening", "sending", "ended"}

\* answerOwnChallenge: between Present and CleanUp every socket answers with the
\* key of the order, before and after with none, although one server's handler
\* answers for all (initialize.go:91, challengeprovider.go:22-35).
OwnChallengeAnswered ==
  /\ acme.step = "presented" => authKey[handler] = acme.key
  /\ acme.step = "idle" => authKey[handler] = NoKey

\* Once everything is up, the failure of any server ends the process, also when
\* several fail at a time and the channel has room for one error (main.go:60-65).
Fatal(p) == main.at = "loop" /\ (Failed(p) \/ api = "sending")
FailureEndsProcess == \A p \in Protos : Fatal(p) ~> main.at = "gone"

\* config.cfg:2-4: where the address is reserved already, "acme-dns will error out".
\* It does not: main waits for a mutex nobody will unlock and never reads the error.
ListenFailureEndsProcess == \A p \in Protos : dns[p] = "sending" ~> main.at = "gone"
==============================================================================
