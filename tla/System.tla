-------------------------------- MODULE System --------------------------------
(***************************************************************************)
(* The client API, the administrators and the DNS server over one          *)
(* database: what a value goes through from the request that sends it to   *)
(* the answer a certificate authority gets.  Handlers interleave as in     *)
(* module Api; a query may come at any instant.                            *)
(***************************************************************************)
EXTENDS Api, NameServer

CONSTANTS
  QueryNames, \* the names that are asked for
  QueryTypes  \* and the types

\* A subdomain is a UUID drawn at random, and so never the label of the own challenge
\* or of a configured record.
ASSUME SystemAssumption ==
  /\ <<>> \notin QueryNames
  /\ Challenge \notin Subdomains
  /\ \A r \in Static, s \in Subdomains : r.name # <<s>> \o OwnDomain

systemVars == <<vars, authKey>>

SystemInit == Init /\ NsInit

SystemNext == \/ Next /\ UNCHANGED authKey
              \/ \E key \in {NoKeyAuthorisation, "key"} : SetOwnAuthKey(key) /\ UNCHANGED vars

SystemSpec == SystemInit /\ [][SystemNext]_systemVars

------------------------------------------------------------------------------
(* Properties *)

NameOf(s) == <<s>> \o OwnDomain
Ask(name, type, fails) == Responses("v0", "query", name, type, fails)

\* From end to end: the value written last, by a client's update or a DNS check, is
\* in the authoritative answer to the name the CNAME points at, from then on, with
\* other requests in flight and across restarts, until the registration is deleted.
UpdateIsVisible ==
  \A s \in DOMAIN records : written[s].newest # BlankRow =>
    \A m \in Ask(NameOf(s), "TXT", FALSE) :
      /\ RR(NameOf(s), "TXT", written[s].newest.value) \in m.answer
      /\ m.rcode = "NOERROR" /\ m.authoritative

\* What a caller is told of a registration against what becomes of it.  It exists when it
\* was told to be made, and does when the commit of a deletion was lost, whose error nobody
\* sees (db.go:405, 709); then UpdateIsVisible goes on for it.  Otherwise it is gone as a
\* whole: "the CNAME pointing at it stops resolving" (db.go:692) for good, whatever requests
\* were in flight, and one that was never stored lets no request in.
AnswersHold ==
  \A s \in Subdomains :
    IF answered[s].told # "none" /\ ((answered[s].told = "registered") <=> answered[s].committed)
    THEN Exists(s)
    ELSE /\ ~Exists(s)
         /\ \A m \in Ask(NameOf(s), "TXT", FALSE) : m.rcode = "NXDOMAIN"
         /\ answered[s].told = "deleted" \/ \A c \in Requests : req[c] = Idle \/ req[c].sub # s

\* What every response keeps, also when the database fails: NXDOMAIN comes without
\* records, with the SOA exactly in the server's own names, and never for a
\* configured name; records are of the type asked for or a CNAME for the name
\* (handler.go:35-83, 141-160).  A registration that was never written or is gone does
\* not exist in DNS: no empty TXT record, and a negative answer that can be cached.
ResponsesAreSound ==
  /\ \A name \in QueryNames, type \in QueryTypes : \A m \in Ask(name, type, TRUE) :
       /\ m.rcode = "NXDOMAIN" => /\ m.answer = {} /\ m.soa = m.authoritative
                                  /\ \A r \in Static : r.name # name
       /\ \A r \in m.answer : r.name = name /\ r.type \in {type, "CNAME"}
  /\ \A s \in Subdomains : Served(s) \subseteq {NoValue} =>
       \A m \in Ask(NameOf(s), "TXT", FALSE) : m.rcode = "NXDOMAIN" /\ m.soa
==============================================================================
