--------------------------------- MODULE Api ---------------------------------
(***************************************************************************)
(* pkg/api: the HTTP handlers that read and write the registrations.  The  *)
(* server runs each request in a goroutine of its own, so what one handler *)
(* does between two database calls interleaves with every other handler.   *)
(* A request that makes one writing call is one step; /update and the DNS  *)
(* check make several and keep what they read in req.  The read-back with  *)
(* which rename and rotate build their answers writes nothing and is left  *)
(* out, and so is a request that ends without a database call.             *)
(***************************************************************************)
EXTENDS Database

CONSTANTS
  Requests,        \* bound: the requests in flight at a time
  CheckTokens,     \* the values a DNS check writes
  DbMayFail,       \* a database call may return an error
  ServerMayRestart \* the process may stop and start again

ASSUME ApiAssumption == /\ CheckTokens \subseteq Values
                        /\ {DbMayFail, ServerMayRestart} \subseteq BOOLEAN

VARIABLES
  req,     \* the requests between two of their database calls
  sources  \* history: the addresses each registration's stored updates came from

apiVars == <<req, sources>>
vars == <<dbVars, apiVars>>

Idle == [step |-> "idle"]
Request ==
  {Idle}
  \cup [step : {"authorized"}, sub : Subdomains, value : Values, ip : Addresses \cup {NoAddress}]
  \cup [step : {"stored"}, sub : Subdomains, ip : Addresses \cup {NoAddress}, kept : BOOLEAN]
  \cup [step : {"checking"}, sub : Subdomains]

TypeOK ==
  /\ DbTypeOK
  /\ req \in [Requests -> Request]
  /\ sources \in [Subdomains -> SUBSET Addresses]

Init == /\ DbInit
        /\ req = [c \in Requests |-> Idle]
        /\ sources = [s \in Subdomains |-> {}]

Goto(c, r) == req' = [req EXCEPT ![c] = r]

------------------------------------------------------------------------------
(* POST /update *)

\* acmetxt.go: an empty list admits everyone, also a caller without an address.
AllowedFromList(s, ips) ==
  records[s].allowFrom = {} \/ ips \cap records[s].allowFrom # {}

\* requestIP: the first address of the proxy's list, else the connection's; a
\* list with one blank entry yields none.
RequestIPs(ips) == IF ips = {} THEN Addresses \cup {NoAddress} ELSE ips

\* Auth: user, password, source and subdomain are checked against one read.
Authorize(c, s, p, v, ips) ==
  /\ req[c].step = "idle"
  /\ Exists(s) /\ p = records[s].password
  /\ AllowedFromList(s, ips)
  /\ \E ip \in RequestIPs(ips) :
       Goto(c, [step |-> "authorized", sub |-> s, value |-> v, ip |-> ip])
  /\ UNCHANGED <<dbVars, sources>>

\* webUpdatePost, first call: what Auth read is not looked at again.
StoreUpdate(c) ==
  LET s == req[c].sub  ip == req[c].ip
  IN /\ req[c].step = "authorized"
     /\ Update(s, req[c].value)
     /\ Goto(c, [step |-> "stored", sub |-> s, ip |-> ip, kept |-> Oldest(s) # {}])
     /\ sources' = [sources EXCEPT ![s] = @ \cup ({ip} \ {NoAddress})]

\* webUpdatePost, second call: its failure does not fail the update.
RecordSource(c) ==
  /\ req[c].step = "stored"
  /\ SetLastSource(req[c].sub, req[c].ip)
  /\ Goto(c, Idle)
  /\ UNCHANGED sources

(* POST /api/admin/dnscheck *)

BeginCheck(c, s) ==
  /\ req[c].step = "idle"
  /\ Exists(s)
  /\ Goto(c, [step |-> "checking", sub |-> s])
  /\ UNCHANGED <<dbVars, sources>>

\* The CNAME is right and the TXT test was not skipped: write the token.
WriteToken(c, token) ==
  /\ req[c].step = "checking"
  /\ Update(req[c].sub, token)
  /\ Goto(c, Idle)
  /\ UNCHANGED sources

EndCheck(c) ==
  /\ req[c].step = "checking"
  /\ Goto(c, Idle)
  /\ UNCHANGED <<dbVars, sources>>

\* Mutant of CallFails: the source of an update that failed is recorded.
FailedCallRecordsSource(c) ==
  /\ DbMayFail /\ req[c].step \in {"authorized", "stored"}
  /\ SetLastSource(req[c].sub, req[c].ip)
  /\ Goto(c, Idle)
  /\ UNCHANGED sources

\* The pending call of a request returns an error and the request ends.
CallFails(c) ==
  /\ DbMayFail /\ req[c].step \in {"authorized", "stored"}
  /\ Goto(c, Idle)
  /\ UNCHANGED <<dbVars, sources>>

------------------------------------------------------------------------------
(* Handlers with one writing call, and the process *)

\* webRegisterPost and webAdminCreateDomain.
Register(s, allow, name) ==
  RegisterWithName(s, allow, name) /\ UNCHANGED apiVars

webAdminRenameDomain(s, name) == UpdateDomainName(s, name) /\ UNCHANGED apiVars
webAdminRotateCredentials(s) == RotatePassword(s) /\ UNCHANGED apiVars
webAdminDeleteDomain(s) == DeleteDomain(s) /\ UNCHANGED apiVars

\* Requests die with the process; the tables stay.
Restart == /\ ServerMayRestart
           /\ Reopen
           /\ req' = [c \in Requests |-> Idle]
           /\ UNCHANGED sources

Clock == (Tick \/ StepBack) /\ UNCHANGED apiVars

Administration(s) ==
  \/ \E allow \in AllowFroms, name \in Names : Register(s, allow, name)
  \/ \E name \in Names : webAdminRenameDomain(s, name)
  \/ webAdminRotateCredentials(s)
  \/ webAdminDeleteDomain(s)

Handler(c) ==
  \/ StoreUpdate(c)
  \/ RecordSource(c)
  \/ \E token \in CheckTokens : WriteToken(c, token)
  \/ EndCheck(c)
  \/ CallFails(c)

Auth(c, s) ==
  \E p \in Password, v \in Values, ips \in SUBSET Addresses : Authorize(c, s, p, v, ips)

Next == \/ \E s \in Subdomains : Administration(s)
        \/ \E s \in Subdomains, c \in Requests : Auth(c, s) \/ BeginCheck(c, s)
        \/ \E c \in Requests : Handler(c)
        \/ Restart
        \/ Clock

Spec == Init /\ [][Next]_vars

------------------------------------------------------------------------------
(* Properties *)

\* No request in flight brings back what an administrator deleted, whatever it
\* read before: rows exist for registrations only (db.go:692, update.go:38).
RowsStayDeleted == RowsBelongToRegistration

\* An update answered with 200 has changed a row, except when its registration
\* was deleted between the authorization and the write (update.go:38, db.go:545).
AcknowledgedUnlessDeleted ==
  \A c \in Requests : req[c].step = "stored" => req[c].kept \/ ~Exists(req[c].sub)

\* The address kept with a registration is one its stored updates came from:
\* neither a refused or failed update nor a DNS check sets it (db.go:760-763).
LastSourceWrote ==
  \A s \in DOMAIN records : records[s].lastIP # NoAddress => records[s].lastIP \in sources[s]
==============================================================================
