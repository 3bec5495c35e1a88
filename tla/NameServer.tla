------------------------------ MODULE NameServer ------------------------------
(***************************************************************************)
(* pkg/nameserver: how a query is answered from the static records of the  *)
(* configuration, the key of the own ACME challenge and the database.  A   *)
(* query makes one database call, so its answer is a function of the       *)
(* tables at that instant; module System says how the tables change.       *)
(* Names are sequences of labels in lower case.                            *)
(***************************************************************************)
EXTENDS Database, Sequences

CONSTANTS
  OwnDomain, \* general.domain
  Static     \* general.records that parse, and the SOA ParseRecords adds

\* A set of resource records: static ones hold data of their own.
RR(name, type, data) == [name |-> name, type |-> type, data |-> data]

ASSUME NameServerAssumption ==
  /\ OwnDomain \in Seq(STRING) /\ OwnDomain # <<>>
  /\ \A r \in Static : r.name # <<>>
  /\ \E r \in Static : r.type = "SOA" /\ r.name = OwnDomain

VARIABLE authKey \* personalAuthKey of the server that answers

NoKeyAuthorisation == ""
Challenge == "_acme-challenge"

------------------------------------------------------------------------------
(* handler.go *)

answeringForDomain(name) == name = OwnDomain \/ \E r \in Static : r.name = name

isAuthoritative(name) ==
  \E n \in 1..Len(name) : answeringForDomain(SubSeq(name, n, Len(name)))

isOwnChallenge(name) == name = <<Challenge>> \o OwnDomain

\* Mutant of getRecord: every record of the name, whatever the type.
getAnyRecord(name, type) == {r \in Static : r.name = name}

getRecord(name, type) ==
  LET OfType(t) == {r \in Static : r.name = name /\ r.type = t}
  IN IF OfType(type) # {} THEN OfType(type) ELSE OfType("CNAME")

\* Mutant of LookedUp: '' is served like a value.
LookedUpBlank(name, fails) == {IF Head(name) \in Subdomains THEN Served(Head(name)) ELSE {}}

\* What GetTXTForDomain may yield: the rows of the first label, whatever the zone,
\* or fewer when it fails or its time is up between two rows.
LookedUp(name, fails) ==
  LET values == IF Head(name) \in Subdomains THEN Served(Head(name)) \ {NoValue} ELSE {}
  IN IF fails THEN SUBSET values ELSE {values}

\* answerOwnChallenge and answerTXT, with the error of the latter as no record.
TxtRecords(name, fails) ==
  IF isOwnChallenge(name) THEN {{RR(name, "TXT", authKey)}}
  ELSE {{RR(name, "TXT", v) : v \in values} : values \in LookedUp(name, fails)}

\* Mutant of Rcode: a dynamic record does not undo NXDOMAIN.
StaticRcode(name, rrs) ==
  IF answeringForDomain(name) \/ isOwnChallenge(name) THEN "NOERROR" ELSE "NXDOMAIN"

Rcode(name, rrs) ==
  IF rrs # {} \/ answeringForDomain(name) \/ isOwnChallenge(name) THEN "NOERROR" ELSE "NXDOMAIN"

\* answer and readQuery: the responses to one question.  The package dns accepts
\* messages with exactly one.
Answers(name, type, fails) ==
  {[rcode |-> Rcode(name, rrs), answer |-> rrs, authoritative |-> isAuthoritative(name),
    soa |-> isAuthoritative(name) /\ Rcode(name, rrs) = "NXDOMAIN"] :
     rrs \in {getRecord(name, type) \cup txt_ :
                txt_ \in IF type = "TXT" THEN TxtRecords(name, fails) ELSE {{}}}}

\* handleRequest: EDNS other than version 0 is refused, another opcode gets an
\* empty reply.
Responses(edns, opcode, name, type, fails) ==
  LET Empty(rcode) == {[rcode |-> rcode, answer |-> {}, authoritative |-> FALSE, soa |-> FALSE]}
  IN IF edns \notin {"none", "v0"} THEN Empty("BADVERS")
     ELSE IF opcode # "query" THEN Empty("NOERROR") ELSE Answers(name, type, fails)

------------------------------------------------------------------------------
NsInit == authKey = NoKeyAuthorisation

\* By Present and CleanUp of the own certificate's challenge; module Server has
\* the order of these calls.
SetOwnAuthKey(key) == authKey' = key
==============================================================================
