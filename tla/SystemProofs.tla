---------------------------- MODULE SystemProofs ----------------------------
(***************************************************************************)
(* From a request to the answer.  The HTTP handlers reach the tables       *)
(* through the methods of the database package only, so what               *)
(* DatabaseProofs shows of DbSpec holds of the API, together with what the *)
(* handlers themselves keep; and it holds of the DNS answers, for any      *)
(* number of registrations, requests in flight, values and records of the  *)
(* zone.                                                                   *)
(***************************************************************************)
EXTENDS System, DatabaseProofs, SequenceTheorems

(* The handlers *)

USE ApiAssumption DEF ApiAssumption

\* The part of TypeOK that is about the requests.
RequestsOK == req \in [Requests -> Request]

LEMMA RequestTyped ==
  ASSUME RequestsOK, NEW c \in Requests
  PROVE  /\ req[c].step = "authorized" => /\ req[c].sub \in Subdomains
                                          /\ req[c].value \in Values
                                          /\ req[c].ip \in Addresses \cup {NoAddress}
         /\ req[c].step = "stored" => /\ req[c].sub \in Subdomains
                                      /\ req[c].ip \in Addresses \cup {NoAddress}
                                      /\ req[c].kept \in BOOLEAN
         /\ req[c].step = "checking" => req[c].sub \in Subdomains
BY DEF RequestsOK, Request, Idle

LEMMA GotoTyped ==
  ASSUME RequestsOK, NEW c \in Requests, NEW r \in Request, Goto(c, r)
  PROVE  RequestsOK'
BY DEF RequestsOK, Goto

LEMMA RequestsTyped == Spec => []RequestsOK
<1>1. Init => RequestsOK
  BY DEF Init, RequestsOK, Request
<1>2. RequestsOK /\ [Next]_vars => RequestsOK'
  <2> SUFFICES ASSUME RequestsOK, [Next]_vars
               PROVE  RequestsOK'
    OBVIOUS
  <2>1. CASE UNCHANGED req
    BY <2>1 DEF RequestsOK
  <2>2. Idle \in Request
    BY DEF Request
  <2>3. ASSUME NEW s \in Subdomains, NEW c \in Requests, Auth(c, s)
        PROVE  RequestsOK'
    <3>1. PICK v \in Values, ips \in SUBSET Addresses : \E p \in Password : Authorize(c, s, p, v, ips)
      BY <2>3 DEF Auth
    <3>2. PICK ip \in RequestIPs(ips) :
            Goto(c, [step |-> "authorized", sub |-> s, value |-> v, ip |-> ip])
      BY <3>1 DEF Authorize
    <3>3. ip \in Addresses \cup {NoAddress}
      BY DEF RequestIPs
    <3>4. [step |-> "authorized", sub |-> s, value |-> v, ip |-> ip] \in Request
      BY <3>3 DEF Request
    <3>5. QED
      BY <3>2, <3>4, GotoTyped
  <2>4. ASSUME NEW s \in Subdomains, NEW c \in Requests, BeginCheck(c, s)
        PROVE  RequestsOK'
    <3>1. [step |-> "checking", sub |-> s] \in Request
      BY DEF Request
    <3>2. QED
      BY <2>4, <3>1, GotoTyped DEF BeginCheck
  <2>5. ASSUME NEW c \in Requests, StoreUpdate(c)
        PROVE  RequestsOK'
    <3> DEFINE r == [step |-> "stored", sub |-> req[c].sub, ip |-> req[c].ip,
                     kept |-> Oldest(req[c].sub) # {}]
    <3>1. r \in Request
      BY <2>5, RequestTyped DEF StoreUpdate, Request
    <3>2. Goto(c, r)
      BY <2>5 DEF StoreUpdate
    <3>3. QED
      BY <3>1, <3>2, GotoTyped
  <2>6. ASSUME NEW c \in Requests, Handler(c)
        PROVE  RequestsOK'
    <3>1. CASE Goto(c, Idle)
      BY <2>2, <3>1, GotoTyped
    <3>2. QED
      BY <2>5, <2>6, <3>1 DEF Handler, RecordSource, WriteToken, EndCheck, CallFails
  <2>7. CASE Restart
    BY <2>2, <2>7 DEF Restart, RequestsOK
  <2>8. QED
    BY <2>1, <2>3, <2>4, <2>6, <2>7
    DEF Next, Administration, Register, webAdminRenameDomain,
        webAdminRotateCredentials, webAdminDeleteDomain, Clock, apiVars, vars
<1>3. QED
  BY <1>1, <1>2, PTL DEF Spec

LEMMA StepIsDatabase ==
  ASSUME RequestsOK, [Next]_vars
  PROVE  [DbNext]_dbVars
<1>1. ASSUME NEW s \in Subdomains, Administration(s)
      PROVE  DbNext
  BY <1>1 DEF Administration, Register, webAdminRenameDomain, webAdminRotateCredentials,
              webAdminDeleteDomain, Administer, DbNext
<1>2. ASSUME NEW s \in Subdomains, NEW c \in Requests, Auth(c, s) \/ BeginCheck(c, s)
      PROVE  UNCHANGED dbVars
  BY <1>2 DEF Auth, Authorize, BeginCheck
<1>3. ASSUME NEW c \in Requests, Handler(c)
      PROVE  [DbNext]_dbVars
  <2>1. CASE StoreUpdate(c)
    BY <2>1, RequestTyped DEF StoreUpdate, DbNext
  <2>2. CASE RecordSource(c)
    BY <2>2, RequestTyped DEF RecordSource, Administer, DbNext
  <2>3. ASSUME NEW token \in CheckTokens, WriteToken(c, token)
        PROVE  DbNext
    BY <2>3, RequestTyped DEF WriteToken, DbNext
  <2>4. QED
    BY <1>3, <2>1, <2>2, <2>3 DEF Handler, EndCheck, CallFails
<1>4. CASE Restart \/ Clock
  BY <1>4 DEF Restart, Clock, Surroundings, DbNext
<1>5. QED
  BY <1>1, <1>2, <1>3, <1>4 DEF Next, vars

\* Every step of a handler is a method of the database, or leaves the tables alone.
THEOREM ApiImplementsDatabase == Spec => DbSpec
<1>1. Init => DbInit
  BY DEF Init
<1>2. RequestsOK /\ [Next]_vars => [DbNext]_dbVars
  BY StepIsDatabase
<1>3. QED
  BY <1>1, <1>2, RequestsTyped, PTL DEF Spec, DbSpec

\* No request in flight, whatever it read before, brings back TXT rows that an
\* administrator deleted.
THEOREM DeletedStaysDeleted == Spec => []RowsStayDeleted
BY ApiImplementsDatabase, RowsBelong, PTL DEF RowsStayDeleted

------------------------------------------------------------------------------
(* What the handlers acknowledge and record *)

\* A request in flight is about a subdomain that was drawn, and so cannot be drawn for a
\* registration that follows; what an acknowledged update did not find does not come back.
AcknowledgedInv ==
  /\ \A s \in DOMAIN records : s \in drawn
  /\ \A c \in Requests : req[c].step \in {"authorized", "stored"} => req[c].sub \in drawn
  /\ AcknowledgedUnlessDeleted

\* Once drawn, a subdomain stays so, and only a registration of a new one adds a record.
LEMMA RecordsAreDrawn ==
  ASSUME DbTypeOK, \A s \in DOMAIN records : s \in drawn, [DbNext]_dbVars
  PROVE  /\ drawn \subseteq drawn'
         /\ \A s \in DOMAIN records' : s \in drawn' /\ (s \in drawn => s \in DOMAIN records)
<1>1. CASE UNCHANGED dbVars
  BY <1>1 DEF dbVars, drawn
<1>2. ASSUME NEW s \in Subdomains, NEW allow \in AllowFroms, NEW name \in Names,
             RegisterWithName(s, allow, name)
      PROVE  /\ drawn \subseteq drawn'
             /\ \A t \in DOMAIN records' : t \in drawn' /\ (t \in drawn => t \in DOMAIN records)
  <2>1. drawn' = drawn \cup {s}
    BY <1>2, RegisterTells DEF drawn
  <2>2. s \notin drawn /\ DOMAIN records' \subseteq DOMAIN records \cup {s}
    BY <1>2 DEF RegisterWithName, drawn
  <2>3. QED
    BY <2>1, <2>2, RegisterTells, <1>2 DEF RegisterWithName
<1>3. ASSUME NEW s \in Subdomains, DeleteDomain(s)
      PROVE  /\ drawn \subseteq drawn'
             /\ \A t \in DOMAIN records' : t \in drawn' /\ (t \in drawn => t \in DOMAIN records)
  <2>1. drawn \subseteq drawn'
    BY <1>3, DeleteTells DEF drawn
  <2>2. DOMAIN records' \subseteq DOMAIN records
    BY <1>3 DEF DeleteDomain
  <2>3. QED
    BY <2>1, <2>2
<1>4. ASSUME DOMAIN records' = DOMAIN records, UNCHANGED answered
      PROVE  /\ drawn \subseteq drawn'
             /\ \A t \in DOMAIN records' : t \in drawn' /\ (t \in drawn => t \in DOMAIN records)
  BY <1>4 DEF drawn
<1>5. ASSUME DbNext
      PROVE  \/ \E s \in Subdomains : \/ \E allow \in AllowFroms, name \in Names : RegisterWithName(s, allow, name)
                                     \/ DeleteDomain(s)
             \/ DOMAIN records' = DOMAIN records /\ UNCHANGED answered
  BY <1>5 DEF DbNext, Administer, Surroundings, UpdateDomainName, RotatePassword, SetLastSource,
              SetRecord, Update, Reopen, Tick, StepBack
<1>6. QED
  BY <1>1, <1>2, <1>3, <1>4, <1>5

\* What each step does to a request that it leaves between two of its calls.
LEMMA RequestFollows ==
  ASSUME RequestsOK, [Next]_vars, NEW c \in Requests,
         req'[c].step \in {"authorized", "stored"}, req'[c] # req[c]
  PROVE  \/ /\ req'[c].step = "authorized" /\ req'[c].sub \in DOMAIN records
            /\ UNCHANGED <<dbVars, sources>>
         \/ /\ req'[c].step = "stored" /\ req[c].step = "authorized"
            /\ StoreUpdate(c) /\ req'[c].sub = req[c].sub /\ req'[c].ip = req[c].ip
            /\ req'[c].kept = (Oldest(req[c].sub) # {})
            /\ sources' = [sources EXCEPT ![req[c].sub] = @ \cup ({req[c].ip} \ {NoAddress})]
<1>1. ASSUME NEW d \in Requests, NEW r, Goto(d, r)
      PROVE  c = d /\ req'[c] = r
  BY <1>1 DEF Goto, RequestsOK
<1>2. Idle.step = "idle"
  BY DEF Idle
<1>3. ASSUME NEW s \in Subdomains, NEW d \in Requests, Auth(d, s)
      PROVE  /\ req'[c].step = "authorized" /\ req'[c].sub \in DOMAIN records
             /\ UNCHANGED <<dbVars, sources>>
  <2>1. PICK v, ip : Goto(d, [step |-> "authorized", sub |-> s, value |-> v, ip |-> ip])
    BY <1>3 DEF Auth, Authorize
  <2>2. req'[c] = [step |-> "authorized", sub |-> s, value |-> v, ip |-> ip]
    BY <1>1, <2>1
  <2>3. QED
    BY <1>3, <2>2 DEF Auth, Authorize, Exists
<1>4. ASSUME NEW s \in Subdomains, NEW d \in Requests, BeginCheck(d, s) PROVE FALSE
  <2>1. req'[c] = [step |-> "checking", sub |-> s]
    BY <1>1, <1>4 DEF BeginCheck
  <2>2. QED
    BY <2>1
<1>5. ASSUME NEW d \in Requests, StoreUpdate(d)
      PROVE  /\ req'[c].step = "stored" /\ req[c].step = "authorized"
             /\ StoreUpdate(c) /\ req'[c].sub = req[c].sub /\ req'[c].ip = req[c].ip
             /\ req'[c].kept = (Oldest(req[c].sub) # {})
             /\ sources' = [sources EXCEPT ![req[c].sub] = @ \cup ({req[c].ip} \ {NoAddress})]
  <2>1. Goto(d, [step |-> "stored", sub |-> req[d].sub, ip |-> req[d].ip,
                 kept |-> Oldest(req[d].sub) # {}])
    BY <1>5 DEF StoreUpdate
  <2>2. c = d /\ req'[c] = [step |-> "stored", sub |-> req[c].sub, ip |-> req[c].ip,
                            kept |-> Oldest(req[c].sub) # {}]
    BY <1>1, <2>1
  <2>3. QED
    BY <1>5, <2>2 DEF StoreUpdate
<1>6. ASSUME NEW d \in Requests, Goto(d, Idle) PROVE FALSE
  BY <1>1, <1>2, <1>6
<1>7. CASE UNCHANGED req
  BY <1>7
<1>8. CASE Restart
  BY <1>2, <1>8 DEF Restart
<1>9. QED
  BY <1>3, <1>4, <1>5, <1>6, <1>7, <1>8
  DEF Next, Handler, RecordSource, WriteToken, EndCheck, CallFails, Administration, Register,
      webAdminRenameDomain, webAdminRotateCredentials, webAdminDeleteDomain, Clock, apiVars, vars

\* An update answered with 200 has changed a row of its registration, unless that one was
\* deleted between the authorization and the write; it is not registered again
\* (webUpdatePost, Update).
THEOREM AcknowledgedIsStored ==
  ASSUME InsertMayFail = FALSE
  PROVE  Spec => []AcknowledgedUnlessDeleted
<1>1. Init => AcknowledgedInv
  BY DEF Init, Idle, DbInit, AcknowledgedInv, AcknowledgedUnlessDeleted
<1>2. DbTypeOK /\ NewestInv /\ RequestsOK /\ AcknowledgedInv /\ [Next]_vars => AcknowledgedInv'
  <2> SUFFICES ASSUME DbTypeOK, NewestInv, RequestsOK, AcknowledgedInv, [Next]_vars
               PROVE  AcknowledgedInv'
    OBVIOUS
  <2>1. /\ drawn \subseteq drawn'
        /\ \A s \in DOMAIN records' : s \in drawn' /\ (s \in drawn => s \in DOMAIN records)
    BY StepIsDatabase, RecordsAreDrawn DEF AcknowledgedInv
  <2>2. ASSUME NEW c \in Requests, req'[c].step \in {"authorized", "stored"}
        PROVE  /\ req'[c].sub \in drawn'
               /\ req'[c].step = "stored" => req'[c].kept \/ req'[c].sub \notin DOMAIN records'
    <3>1. CASE req'[c] = req[c]
      BY <2>1, <2>2, <3>1 DEF AcknowledgedInv, AcknowledgedUnlessDeleted, Exists
    <3>2. CASE req'[c].step = "authorized" /\ req'[c].sub \in DOMAIN records
      BY <2>1, <3>2 DEF AcknowledgedInv
    <3>3. CASE /\ req'[c].step = "stored" /\ req[c].step = "authorized"
               /\ StoreUpdate(c) /\ req'[c].sub = req[c].sub
               /\ req'[c].kept = (Oldest(req[c].sub) # {})
      <4>1. req[c].sub \in drawn /\ req[c].sub \in Subdomains
        BY <3>3, RequestTyped DEF AcknowledgedInv
      <4>2. req[c].sub \in DOMAIN records => Oldest(req[c].sub) # {}
        BY <4>1, OldestExists DEF NewestInv, Holds
      <4>3. QED
        BY <2>1, <3>3, <4>1, <4>2
    <3>4. QED
      BY <2>2, <3>1, <3>2, <3>3, RequestFollows
  <2>3. QED
    BY <2>1, <2>2 DEF AcknowledgedInv, AcknowledgedUnlessDeleted, Exists
<1>3. AcknowledgedInv => AcknowledgedUnlessDeleted
  BY DEF AcknowledgedInv
<1>4. QED
  BY <1>1, <1>2, <1>3, RequestsTyped, ApiImplementsDatabase, TypeCorrect, NewestKept, PTL DEF Spec

\* LastSourceWrote is not inductive: a request that still has to record its source has to
\* be one whose update was stored.
SourceInv ==
  /\ sources \in [Subdomains -> SUBSET Addresses]
  /\ \A c \in Requests : req[c].step = "stored" /\ req[c].ip # NoAddress =>
                          req[c].ip \in sources[req[c].sub]
  /\ LastSourceWrote

\* A step sets the source of a registration only to that of a stored update, or to none
\* when it registers.
LEMMA SourceIsOfRequest ==
  ASSUME DbTypeOK, RequestsOK, [Next]_vars, NEW s \in DOMAIN records',
         records'[s].lastIP # NoAddress
  PROVE  \/ s \in DOMAIN records /\ records'[s].lastIP = records[s].lastIP
         \/ \E c \in Requests : /\ req[c].step = "stored" /\ req[c].sub = s
                                 /\ records'[s].lastIP = req[c].ip
<1> DEFINE Kept == s \in DOMAIN records /\ records'[s].lastIP = records[s].lastIP
<1>1. CASE UNCHANGED records
  BY <1>1
<1>2. ASSUME NEW t \in Subdomains, NEW r \in Record, Exists(t), SetRecord(t, r),
             r.lastIP = records[t].lastIP
      PROVE  Kept
  BY <1>2 DEF SetRecord, Exists, DbTypeOK, RecordsTypeOK
<1>3. ASSUME NEW t \in Subdomains, NEW allow, NEW name, RegisterWithName(t, allow, name)
      PROVE  Kept
  <2>1. NewRecord(allow, name).lastIP = NoAddress
    BY DEF NewRecord
  <2>2. QED
    BY <1>1, <1>3, <2>1 DEF RegisterWithName
<1>4. ASSUME NEW t \in Subdomains, NEW name \in Names, UpdateDomainName(t, name)
      PROVE  Kept
  <2>1. records[t] \in Record
    BY <1>4 DEF UpdateDomainName, Exists, DbTypeOK, RecordsTypeOK
  <2>2. /\ [records[t] EXCEPT !.domainName = name] \in Record
        /\ [records[t] EXCEPT !.domainName = name].lastIP = records[t].lastIP
    BY <2>1 DEF Record
  <2>3. QED
    BY <1>2, <1>4, <2>2 DEF UpdateDomainName
<1>5. ASSUME NEW t \in Subdomains, RotatePassword(t)
      PROVE  Kept
  <2> DEFINE r == [records[t] EXCEPT !.password = passwords + 1,
                                     !.encPassword = EncryptOrEmpty(passwords + 1)]
  <2>1. records[t] \in Record
    BY <1>5 DEF RotatePassword, Exists, DbTypeOK, RecordsTypeOK
  <2>2. r.lastIP = records[t].lastIP
    BY <2>1 DEF Record
  <2>3. SetRecord(t, r) /\ t \in DOMAIN records
    BY <1>5 DEF RotatePassword, Exists
  <2> HIDE DEF r
  <2>4. QED
    BY <2>2, <2>3 DEF SetRecord
<1>6. ASSUME NEW t \in Subdomains, DeleteDomain(t)
      PROVE  Kept
  BY <1>1, <1>6 DEF DeleteDomain
<1>7. ASSUME NEW c \in Requests, RecordSource(c)
      PROVE  Kept \/ \E d \in Requests : /\ req[d].step = "stored" /\ req[d].sub = s
                                         /\ records'[s].lastIP = req[d].ip
  <2>1. CASE UNCHANGED records
    BY <1>1, <2>1
  <2>2. CASE /\ req[c].sub \in DOMAIN records
             /\ records' = [records EXCEPT ![req[c].sub] = [records[req[c].sub] EXCEPT !.lastIP = req[c].ip]]
    <3>1. records[req[c].sub] \in Record
      BY <2>2 DEF DbTypeOK, RecordsTypeOK
    <3>2. [records[req[c].sub] EXCEPT !.lastIP = req[c].ip].lastIP = req[c].ip
      BY <3>1 DEF Record
    <3>3. QED
      BY <1>7, <2>2, <3>2 DEF RecordSource
  <2>3. QED
    BY <1>7, <2>1, <2>2 DEF RecordSource, SetLastSource, SetRecord, Exists
<1>8. QED
  BY <1>1, <1>3, <1>4, <1>5, <1>6, <1>7
  DEF Next, Administration, Register, webAdminRenameDomain, webAdminRotateCredentials,
      webAdminDeleteDomain, Auth, Authorize, BeginCheck, Handler, StoreUpdate, WriteToken,
      EndCheck, CallFails, Update, Restart, Reopen, Clock, Tick, StepBack, dbVars, vars

LEMMA SourcesHold == Spec => []SourceInv
<1>1. Init => SourceInv
  BY DEF Init, Idle, DbInit, SourceInv, LastSourceWrote
<1>2. DbTypeOK /\ RequestsOK /\ SourceInv /\ [Next]_vars => SourceInv'
  <2> SUFFICES ASSUME DbTypeOK, RequestsOK, SourceInv, [Next]_vars
               PROVE  SourceInv'
    OBVIOUS
  <2>1. /\ sources' \in [Subdomains -> SUBSET Addresses]
        /\ \A s \in Subdomains : sources[s] \subseteq sources'[s]
    <3>1. CASE UNCHANGED sources
      BY <3>1 DEF SourceInv
    <3>2. ASSUME NEW c \in Requests, StoreUpdate(c)
          PROVE  /\ sources' \in [Subdomains -> SUBSET Addresses]
                 /\ \A s \in Subdomains : sources[s] \subseteq sources'[s]
      BY <3>2, RequestTyped DEF StoreUpdate, SourceInv
    <3>3. QED
      BY <3>1, <3>2
      DEF Next, Handler, RecordSource, WriteToken, EndCheck, CallFails, Administration, Register,
          webAdminRenameDomain, webAdminRotateCredentials, webAdminDeleteDomain, Auth, Authorize,
          BeginCheck, Restart, Clock, apiVars, vars
  <2>2. ASSUME NEW c \in Requests, req'[c].step = "stored", req'[c].ip # NoAddress
        PROVE  req'[c].ip \in sources'[req'[c].sub]
    <3>1. CASE req'[c] = req[c]
      BY <2>1, <2>2, <3>1, RequestTyped DEF SourceInv
    <3>2. CASE /\ req[c].step = "authorized" /\ req'[c].sub = req[c].sub /\ req'[c].ip = req[c].ip
               /\ sources' = [sources EXCEPT ![req[c].sub] = @ \cup ({req[c].ip} \ {NoAddress})]
      BY <2>2, <3>2, RequestTyped DEF SourceInv
    <3>3. QED
      BY <2>2, <3>1, <3>2, RequestFollows
  <2>3. ASSUME NEW s \in DOMAIN records', records'[s].lastIP # NoAddress
        PROVE  records'[s].lastIP \in sources'[s]
    <3>1. CASE s \in DOMAIN records /\ records'[s].lastIP = records[s].lastIP
      BY <2>1, <2>3, <3>1 DEF SourceInv, LastSourceWrote, DbTypeOK, RecordsTypeOK
    <3>2. CASE \E c \in Requests : /\ req[c].step = "stored" /\ req[c].sub = s
                                   /\ records'[s].lastIP = req[c].ip
      BY <2>1, <2>3, <3>2, RequestTyped DEF SourceInv
    <3>3. QED
      BY <2>3, <3>1, <3>2, SourceIsOfRequest
  <2>4. QED
    BY <2>1, <2>2, <2>3 DEF SourceInv, LastSourceWrote
<1>3. QED
  BY <1>1, <1>2, RequestsTyped, ApiImplementsDatabase, TypeCorrect, PTL DEF Spec

\* The source shown with a registration is one that its stored updates came from: not that
\* of an update that was refused or failed, or of a DNS check (webUpdatePost,
\* SetLastSource).
THEOREM SourceIsOfAnUpdate == Spec => []LastSourceWrote
<1>1. SourceInv => LastSourceWrote
  BY DEF SourceInv
<1>2. QED
  BY <1>1, SourcesHold, PTL

\* Both tables, the requests in flight and what they stored are well typed, also while
\* registrations they are about come and go.
THEOREM ApiTypeCorrect == Spec => []TypeOK
<1>1. DbTypeOK /\ RequestsOK /\ SourceInv => TypeOK
  BY DEF TypeOK, RequestsOK, SourceInv
<1>2. QED
  BY <1>1, TypeCorrect, ApiImplementsDatabase, RequestsTyped, SourcesHold, PTL

------------------------------------------------------------------------------
(* The answers *)

USE NameServerAssumption, SystemAssumption DEF NameServerAssumption, SystemAssumption

\* The name of a registration is one label below the server's own domain, which
\* makes it authoritative there, and is not that of the own challenge.
LEMMA NameOfSubdomain ==
  ASSUME NEW s \in Subdomains
  PROVE  /\ Head(NameOf(s)) = s
         /\ isAuthoritative(NameOf(s))
         /\ ~isOwnChallenge(NameOf(s))
<1> DEFINE Labels == STRING \cup Subdomains \cup {Challenge}
           name == NameOf(s)
<1>1. <<s>> \in Seq(Labels) /\ OwnDomain \in Seq(Labels) /\ <<Challenge>> \in Seq(Labels)
  <2>1. OwnDomain \in Seq(Labels)
    BY SeqMonotonic
  <2>2. QED
    BY <2>1
<1>2. Len(OwnDomain) \in Nat \ {0}
  BY EmptySeq
<1>3. /\ name \in Seq(Labels)
      /\ Len(name) = 1 + Len(OwnDomain)
      /\ name[1] = s
      /\ \A i \in 1..Len(OwnDomain) : name[i + 1] = OwnDomain[i]
  BY <1>1, <1>2, ConcatProperties DEF NameOf
<1>4. Head(name) = s
  BY <1>2, <1>3
<1>5. isAuthoritative(name)
  <2> DEFINE tail == SubSeq(name, 2, Len(name))
  <2>1. \A i \in 2..Len(name) : name[i] \in Labels
    BY <1>2, <1>3, ElementOfSeq
  <2>2. /\ tail \in Seq(Labels)
        /\ Len(tail) = Len(OwnDomain)
        /\ \A i \in 1..Len(OwnDomain) : tail[i] = OwnDomain[i]
    BY <2>1, <1>2, <1>3, SubSeqProperties
  <2>3. tail = OwnDomain
    BY <2>2, <1>1, SeqEqual
  <2>4. 2 \in 1..Len(name)
    BY <1>2, <1>3
  <2>5. QED
    BY <2>3, <2>4 DEF isAuthoritative, answeringForDomain
<1>6. ~isOwnChallenge(name)
  <2>1. (<<Challenge>> \o OwnDomain)[1] = Challenge
    BY <1>1, <1>2, ConcatProperties
  <2>2. s # Challenge
    OBVIOUS
  <2>3. QED
    BY <1>3, <2>1, <2>2 DEF isOwnChallenge
<1>7. QED
  BY <1>4, <1>5, <1>6

\* A value in the rows of a registration is in every answer to a question for its
\* TXT records, and the answer is a positive, authoritative one.
LEMMA ServedIsAnswered ==
  ASSUME NEW s \in Subdomains, NEW v \in Served(s), v # NoValue,
         NEW m \in Ask(NameOf(s), "TXT", FALSE)
  PROVE  /\ RR(NameOf(s), "TXT", v) \in m.answer
         /\ m.rcode = "NOERROR" /\ m.authoritative
<1> DEFINE name == NameOf(s)
           rows == {RR(name, "TXT", u) : u \in Served(s) \ {NoValue}}
<1>1. TxtRecords(name, FALSE) = {rows}
  BY NameOfSubdomain DEF TxtRecords, LookedUp
<1>2. m \in Answers(name, "TXT", FALSE)
  BY DEF Ask, Responses
<1>3. m = [rcode |-> Rcode(name, getRecord(name, "TXT") \cup rows),
           answer |-> getRecord(name, "TXT") \cup rows,
           authoritative |-> isAuthoritative(name),
           soa |-> /\ isAuthoritative(name)
                   /\ Rcode(name, getRecord(name, "TXT") \cup rows) = "NXDOMAIN"]
  BY <1>1, <1>2 DEF Answers
<1>4. RR(name, "TXT", v) \in rows
  OBVIOUS
<1>5. Rcode(name, getRecord(name, "TXT") \cup rows) = "NOERROR"
  BY <1>4 DEF Rcode
<1>6. QED
  BY <1>3, <1>4, <1>5, NameOfSubdomain

\* The DNS server reads the tables and never writes them.
LEMMA SystemImplementsApi == SystemSpec => Spec
<1>1. SystemInit => Init
  BY DEF SystemInit
<1>2. [SystemNext]_systemVars => [Next]_vars
  BY DEF SystemNext, systemVars
<1>3. QED
  BY <1>1, <1>2, PTL DEF SystemSpec, Spec

\* From end to end: the value written last, by a client's update or a DNS check, is
\* in the authoritative answer to the name of its registration, whatever requests,
\* restarts and settings of the clock follow, until the registration is deleted.
THEOREM UpdatesAreVisible ==
  ASSUME InsertMayFail = FALSE
  PROVE  SystemSpec => []UpdateIsVisible
<1>1. NewestInv => UpdateIsVisible
  <2> SUFFICES ASSUME NewestInv, NEW s \in DOMAIN records, written[s].newest # BlankRow,
                      NEW m \in Ask(NameOf(s), "TXT", FALSE)
               PROVE  /\ RR(NameOf(s), "TXT", written[s].newest.value) \in m.answer
                      /\ m.rcode = "NOERROR" /\ m.authoritative
    BY DEF UpdateIsVisible
  <2>1. s \in Subdomains /\ Holds(s)
    BY DEF NewestInv, drawn
  <2>2. written[s].newest.value \in Served(s) /\ written[s].newest.value # NoValue
    BY <2>1, DatabaseAssumption DEF DatabaseAssumption, Holds, HasRow, Served
  <2>3. QED
    BY <2>1, <2>2, ServedIsAnswered
<1>2. QED
  BY <1>1, SystemImplementsApi, ApiImplementsDatabase, NewestKept, PTL

------------------------------------------------------------------------------
(* What holds of every response *)

\* The sets of records a response may be made from, and the response made from one.
RecordSets(name, type, fails) ==
  {getRecord(name, type) \cup txt_ :
     txt_ \in IF type = "TXT" THEN TxtRecords(name, fails) ELSE {{}}}
Made(name, rrs) ==
  [rcode |-> Rcode(name, rrs), answer |-> rrs, authoritative |-> isAuthoritative(name),
   soa |-> isAuthoritative(name) /\ Rcode(name, rrs) = "NXDOMAIN"]

LEMMA ResponseIsMade ==
  ASSUME NEW name, NEW type, NEW fails, NEW m \in Ask(name, type, fails)
  PROVE  \E rrs \in RecordSets(name, type, fails) : m = Made(name, rrs)
<1>1. m \in Answers(name, type, fails)
  BY DEF Ask, Responses
<1>2. QED
  BY <1>1 DEF Answers, RecordSets, Made

\* The records are of the name, and of the type that was asked for or an alias.
LEMMA RecordsAreOfName ==
  ASSUME NEW name, NEW type, NEW fails, NEW m \in Ask(name, type, fails), NEW r \in m.answer
  PROVE  r.name = name /\ r.type \in {type, "CNAME"}
<1>1. m.answer \in RecordSets(name, type, fails)
  BY ResponseIsMade DEF Made
<1> PICK txt_ \in IF type = "TXT" THEN TxtRecords(name, fails) ELSE {{}} :
        m.answer = getRecord(name, type) \cup txt_
  BY <1>1 DEF RecordSets
<1>2. CASE r \in getRecord(name, type)
  BY <1>2 DEF getRecord
<1>3. CASE r \in txt_
  <2>1. type = "TXT" /\ txt_ \in TxtRecords(name, fails)
    BY <1>3
  <2>2. \E v : r = RR(name, "TXT", v)
    BY <1>3, <2>1 DEF TxtRecords
  <2>3. QED
    BY <2>1, <2>2 DEF RR
<1>4. QED
  BY <1>2, <1>3

\* Without records of either kind the response is empty.
LEMMA NothingIsMade ==
  ASSUME NEW name, NEW type, type = "TXT", NEW fails, NEW m \in Ask(name, type, fails),
         getRecord(name, type) = {}, TxtRecords(name, fails) = {{}}
  PROVE  m = Made(name, {})
<1>1. PICK rrs \in RecordSets(name, type, fails) : m = Made(name, rrs)
  BY ResponseIsMade
<1>2. PICK txt_ \in IF type = "TXT" THEN TxtRecords(name, fails) ELSE {{}} :
        rrs = getRecord(name, type) \cup txt_
  BY DEF RecordSets
<1>3. txt_ = {}
  BY <1>2
<1>4. rrs = {}
  BY <1>2, <1>3
<1>5. QED
  BY <1>1, <1>4

\* A registration that has no value written is not a name of the zone.
LEMMA BlankDoesNotExist ==
  ASSUME NEW s \in Subdomains, Served(s) \subseteq {NoValue},
         NEW type, type = "TXT", NEW fails, NEW m \in Ask(NameOf(s), type, fails)
  PROVE  m.rcode = "NXDOMAIN" /\ m.soa
<1> DEFINE name == NameOf(s)
<1>1. \A r \in Static : r.name # name
  BY DEF NameOf
<1>2. getRecord(name, type) = {}
  BY <1>1 DEF getRecord
<1>3. ~answeringForDomain(name)
  <2>1. Len(name) = 1 + Len(OwnDomain)
    <3>1. /\ <<s>> \in Seq(STRING \cup Subdomains) /\ OwnDomain \in Seq(STRING \cup Subdomains)
          /\ Len(<<s>>) = 1
      BY SeqMonotonic
    <3>2. QED
      BY <3>1, ConcatProperties DEF NameOf
  <2>2. name # OwnDomain
    BY <2>1, LenProperties
  <2>3. QED
    BY <1>1, <2>2 DEF answeringForDomain
<1>4. TxtRecords(name, fails) = {{}}
  <2>1. LookedUp(name, fails) = {{}}
    <3>1. Head(name) = s /\ Served(s) \ {NoValue} = {}
      BY NameOfSubdomain
    <3>2. QED
      BY <3>1 DEF LookedUp
  <2>2. ~isOwnChallenge(name)
    BY NameOfSubdomain
  <2>3. {{RR(name, "TXT", v) : v \in values} : values \in {{}}} = {{}}
    OBVIOUS
  <2>4. QED
    BY <2>1, <2>2, <2>3 DEF TxtRecords
<1>5. m = Made(name, {})
  BY <1>2, <1>4, NothingIsMade
<1>6. Rcode(name, {}) = "NXDOMAIN"
  BY <1>3, NameOfSubdomain DEF Rcode
<1>7. QED
  BY <1>5, <1>6, NameOfSubdomain DEF Made

\* Whatever the zone, the tables, the own key and the failures of the database: a name
\* that is said not to exist has no records, and a registration without a value does not
\* exist (handler.go, answer, readQuery, answerTXT).
THEOREM EveryResponseIsSound == SystemSpec => []ResponsesAreSound
<1>1. ResponsesAreSound
  <2>1. ASSUME NEW name \in QueryNames, NEW type \in QueryTypes, NEW fails,
               NEW m \in Ask(name, type, fails),
               m.rcode = "NXDOMAIN"
        PROVE  /\ m.answer = {} /\ m.soa = m.authoritative
               /\ \A r \in Static : r.name # name
    <3>1. PICK rrs : m = Made(name, rrs)
      BY ResponseIsMade
    <3>2. Rcode(name, rrs) = "NXDOMAIN"
      BY <2>1, <3>1 DEF Made
    <3>3. rrs = {} /\ ~answeringForDomain(name)
      BY <3>2 DEF Rcode
    <3>4. m.answer = {} /\ m.soa = m.authoritative
      <4>1. isAuthoritative(name) \in BOOLEAN
        BY DEF isAuthoritative
      <4>2. (isAuthoritative(name) /\ Rcode(name, rrs) = "NXDOMAIN") = isAuthoritative(name)
        BY <3>2, <4>1
      <4>3. QED
        BY <3>1, <3>3, <4>2 DEF Made
    <3>5. QED
      BY <3>3, <3>4 DEF answeringForDomain
  <2>2. QED
    BY <2>1, RecordsAreOfName, BlankDoesNotExist DEF ResponsesAreSound
<1>2. QED
  BY <1>1, PTL

------------------------------------------------------------------------------
(* What the callers were told *)

\* The registration was stored and not deleted since, as its caller was told or, where a
\* commit failed, the opposite.
Stands(s) == answered[s].told # "none" /\ ((answered[s].told = "registered") <=> answered[s].committed)

\* AnswersHold speaks of the requests about a registration that never was; for no request to
\* turn up there, one in flight has to be about a registration that is, or was reported gone.
AnswersInv ==
  /\ \A s \in Subdomains : Stands(s) <=> Exists(s)
  /\ \A c \in Requests : req[c] # Idle =>
       Exists(req[c].sub) \/ answered[req[c].sub].told = "deleted"

\* A call keeps the tables in step with its answer, and a registration that is, or was
\* reported gone, is that after any call.
LEMMA AnswerFollows ==
  ASSUME DbTypeOK, \A s \in Subdomains : Stands(s) <=> Exists(s), [DbNext]_dbVars
  PROVE  \A s \in Subdomains :
           /\ (Stands(s) <=> Exists(s))'
           /\ Exists(s) \/ answered[s].told = "deleted" =>
                (Exists(s) \/ answered[s].told = "deleted")'
<1> DEFINE Goal == \A s \in Subdomains :
                     /\ (Stands(s) <=> Exists(s))'
                     /\ Exists(s) \/ answered[s].told = "deleted" =>
                          (Exists(s) \/ answered[s].told = "deleted")'
<1> USE DEF Stands, Exists
<1>1. ASSUME DOMAIN records' = DOMAIN records, UNCHANGED answered PROVE Goal
  BY <1>1
<1>2. ASSUME NEW t \in Subdomains, NEW allow \in AllowFroms, NEW name \in Names,
             RegisterWithName(t, allow, name)
      PROVE  Goal
  <2>1. /\ answered[t].told = "none"
        /\ \A s \in Subdomains \ {t} : answered'[s] = answered[s]
    BY <1>2, RegisterTells
  <2>2. \/ answered'[t].committed /\ DOMAIN records' = DOMAIN records \cup {t}
        \/ ~answered'[t].committed /\ DOMAIN records' = DOMAIN records
    BY <1>2 DEF RegisterWithName, Tell, DbTypeOK
  <2>3. t \notin DOMAIN records /\ answered'[t].told = "registered"
    BY <1>2, <2>1, RegisterTells
  <2>4. QED
    BY <2>1, <2>2, <2>3
<1>3. ASSUME NEW t \in Subdomains, DeleteDomain(t) PROVE Goal
  <2>1. /\ answered'[t].told = "deleted"
        /\ \A s \in Subdomains \ {t} : answered'[s] = answered[s]
    BY <1>3, DeleteTells
  <2>2. \/ answered'[t].committed /\ DOMAIN records' = DOMAIN records \ {t}
        \/ ~answered'[t].committed /\ DOMAIN records' = DOMAIN records
    BY <1>3 DEF DeleteDomain, Tell, DbTypeOK
  <2>3. t \in DOMAIN records
    BY <1>3 DEF DeleteDomain
  <2>4. QED
    BY <2>1, <2>2, <2>3
<1>4. ASSUME DbNext
      PROVE  \/ \E t \in Subdomains : \/ \E allow \in AllowFroms, name \in Names : RegisterWithName(t, allow, name)
                                     \/ DeleteDomain(t)
             \/ DOMAIN records' = DOMAIN records /\ UNCHANGED answered
  BY <1>4 DEF DbNext, Administer, Surroundings, UpdateDomainName, RotatePassword, SetLastSource,
              SetRecord, Update, Reopen, Tick, StepBack
<1>5. CASE UNCHANGED dbVars
  BY <1>1, <1>5 DEF dbVars
<1>6. QED
  BY <1>1, <1>2, <1>3, <1>4, <1>5

\* A request begins with a registration that exists, and stays about that one.
LEMMA RequestIsAbout ==
  ASSUME RequestsOK, [Next]_vars, NEW c \in Requests, req'[c] # Idle
  PROVE  \/ req'[c] = req[c]
         \/ req[c] # Idle /\ req'[c].sub = req[c].sub
         \/ req'[c].sub \in DOMAIN records /\ req'[c].sub \in Subdomains /\ UNCHANGED dbVars
<1>1. ASSUME NEW d \in Requests, NEW r, Goto(d, r)
      PROVE  req'[c] = req[c] \/ (c = d /\ req'[c] = r)
  <2>1. req' = [req EXCEPT ![d] = r] /\ DOMAIN req = Requests
    BY <1>1 DEF Goto, RequestsOK
  <2>2. CASE c = d
    BY <2>1, <2>2
  <2>3. CASE c # d
    BY <2>1, <2>3
  <2>4. QED
    BY <2>2, <2>3
<1>2. ASSUME NEW s \in Subdomains, NEW d \in Requests, Auth(d, s) \/ BeginCheck(d, s)
      PROVE  \/ req'[c] = req[c]
             \/ req'[c].sub \in DOMAIN records /\ req'[c].sub \in Subdomains /\ UNCHANGED dbVars
  <2>1. s \in DOMAIN records /\ UNCHANGED dbVars
    BY <1>2 DEF Auth, Authorize, BeginCheck, Exists
  <2>2. \E r : Goto(d, r) /\ r.sub = s
    <3>1. CASE Auth(d, s)
      <4>1. PICK v, ip : Goto(d, [step |-> "authorized", sub |-> s, value |-> v, ip |-> ip])
        BY <3>1 DEF Auth, Authorize
      <4>2. QED
        BY <4>1
    <3>2. CASE BeginCheck(d, s)
      BY <3>2 DEF BeginCheck
    <3>3. QED
      BY <1>2, <3>1, <3>2
  <2>3. QED
    BY <1>1, <2>1, <2>2
<1>3. ASSUME NEW d \in Requests, StoreUpdate(d)
      PROVE  req'[c] = req[c] \/ (req[c] # Idle /\ req'[c].sub = req[c].sub)
  <2>1. Goto(d, [step |-> "stored", sub |-> req[d].sub, ip |-> req[d].ip,
                 kept |-> Oldest(req[d].sub) # {}])
    BY <1>3 DEF StoreUpdate
  <2>2. req[d] # Idle
    BY <1>3 DEF StoreUpdate, Idle
  <2>3. QED
    BY <1>1, <2>1, <2>2
<1>4. ASSUME NEW d \in Requests, Goto(d, Idle) PROVE req'[c] = req[c]
  BY <1>1, <1>4
<1>5. CASE Restart
  BY <1>5 DEF Restart
<1>6. QED
  BY <1>2, <1>3, <1>4, <1>5
  DEF Next, Handler, RecordSource, WriteToken, EndCheck, CallFails, Administration, Register,
      webAdminRenameDomain, webAdminRotateCredentials, webAdminDeleteDomain, Clock, apiVars, vars

\* A registration is there exactly when its last caller was told so and the commit took
\* place, or was told of a deletion whose commit did not; it is otherwise gone from both
\* tables and from DNS, for good, and one that was never stored lets no request in,
\* whatever else is in flight and however often the process restarts (RegisterWithName,
\* DeleteDomain, Auth, answer).
THEOREM AnswersAreTrue == SystemSpec => []AnswersHold
<1>1. Init => AnswersInv
  BY DEF Init, DbInit, NoAnswer, AnswersInv, Stands, Exists
<1>2. DbTypeOK /\ RequestsOK /\ AnswersInv /\ [Next]_vars => AnswersInv'
  <2> SUFFICES ASSUME DbTypeOK, RequestsOK, AnswersInv, [Next]_vars PROVE AnswersInv'
    OBVIOUS
  <2>1. \A s \in Subdomains :
          /\ (Stands(s) <=> Exists(s))'
          /\ Exists(s) \/ answered[s].told = "deleted" =>
               (Exists(s) \/ answered[s].told = "deleted")'
    BY StepIsDatabase, AnswerFollows DEF AnswersInv
  <2>2. ASSUME NEW c \in Requests, req'[c] # Idle
        PROVE  (Exists(req[c].sub) \/ answered[req[c].sub].told = "deleted")'
    <3>1. CASE req[c] # Idle /\ req'[c].sub = req[c].sub
      <4>1. req[c].sub \in Subdomains
        BY <3>1 DEF RequestsOK, Request
      <4>2. Exists(req[c].sub) \/ answered[req[c].sub].told = "deleted"
        BY <3>1 DEF AnswersInv
      <4>3. QED
        BY <2>1, <3>1, <4>1, <4>2 DEF Exists
    <3>2. CASE req'[c].sub \in DOMAIN records /\ req'[c].sub \in Subdomains /\ UNCHANGED dbVars
      BY <3>2 DEF dbVars, Exists
    <3>3. QED
      BY <2>2, <3>1, <3>2, RequestIsAbout
  <2>3. QED
    BY <2>1, <2>2 DEF AnswersInv
<1>3. AnswersInv /\ RowsBelongToRegistration => AnswersHold
  <2> SUFFICES ASSUME AnswersInv, RowsBelongToRegistration, NEW s \in Subdomains, ~Stands(s)
               PROVE  /\ ~Exists(s)
                      /\ \A m \in Ask(NameOf(s), "TXT", FALSE) : m.rcode = "NXDOMAIN"
                      /\ answered[s].told = "deleted" \/ \A c \in Requests : req[c] = Idle \/ req[c].sub # s
    BY DEF AnswersHold, AnswersInv, Stands
  <2>1. ~Exists(s)
    BY DEF AnswersInv
  <2>2. Served(s) \subseteq {NoValue}
    BY <2>1 DEF RowsBelongToRegistration, Served
  <2>3. \A m \in Ask(NameOf(s), "TXT", FALSE) : m.rcode = "NXDOMAIN"
    BY <2>2, BlankDoesNotExist
  <2>4. answered[s].told = "deleted" \/ \A c \in Requests : req[c] = Idle \/ req[c].sub # s
    BY <2>1 DEF AnswersInv
  <2>5. QED
    BY <2>1, <2>3, <2>4
<1>4. Spec => []AnswersInv
  BY <1>1, <1>2, RequestsTyped, ApiImplementsDatabase, TypeCorrect, PTL DEF Spec
<1>5. QED
  BY <1>3, <1>4, SystemImplementsApi, ApiImplementsDatabase, RowsBelong, PTL

------------------------------------------------------------------------------
(* From the answers to the window *)

\* What a certificate authority is told of a registration are the values of its window and
\* no others, at any time and whatever the clock does (GetTXTForDomain, answerTXT).
AnswersAreWindow ==
  \A s \in DOMAIN records : \A m \in Ask(NameOf(s), "TXT", FALSE) :
    m.answer = {RR(NameOf(s), "TXT", v) : v \in {WindowOf(s)[1], WindowOf(s)[2]} \ {NoValue}}

\* What the two rows were made for: an update finds rows of earlier seconds.
UpdatesAreSpaced == [][\A s \in Subdomains, v \in Values : Update(s, v) => Later(s)]_dbVars

\* With both rows the window holds what is served.
LEMMA WindowIsServed ==
  ASSUME NEW s, DOMAIN txt[s] = Slots
  PROVE  {WindowOf(s)[1], WindowOf(s)[2]} = Served(s)
<1>1. Served(s) = {txt[s][1].value, txt[s][2].value}
  BY DEF Served, Slots
<1>2. QED
  BY <1>1 DEF WindowOf

LEMMA AnswerIsServed ==
  ASSUME NEW s \in Subdomains, NEW m \in Ask(NameOf(s), "TXT", FALSE)
  PROVE  m.answer = {RR(NameOf(s), "TXT", v) : v \in Served(s) \ {NoValue}}
<1> DEFINE name == NameOf(s)
           rows == {RR(name, "TXT", u) : u \in Served(s) \ {NoValue}}
<1>1. TxtRecords(name, FALSE) = {rows}
  BY NameOfSubdomain DEF TxtRecords, LookedUp
<1>2. m \in Answers(name, "TXT", FALSE)
  BY DEF Ask, Responses
<1>3. m = [rcode |-> Rcode(name, getRecord(name, "TXT") \cup rows),
           answer |-> getRecord(name, "TXT") \cup rows,
           authoritative |-> isAuthoritative(name),
           soa |-> /\ isAuthoritative(name)
                   /\ Rcode(name, getRecord(name, "TXT") \cup rows) = "NXDOMAIN"]
  BY <1>1, <1>2 DEF Answers
<1>4. getRecord(name, "TXT") = {}
  BY DEF getRecord, NameOf
<1>5. QED
  BY <1>3, <1>4

\* The whole system implements the two-value window, seen from DNS: with its updates in later
\* seconds each, what requests, deletions, rotations and restarts do to the tables is one of
\* TxtWindow's steps or none, and an answer has the window's values and no others
\* (webUpdatePost, Update, GetTXTForDomain, answerTXT).
THEOREM SystemImplementsWindow ==
  ASSUME InsertMayFail = FALSE
  PROVE  SystemSpec => []AnswersAreWindow /\ (UpdatesAreSpaced => RollingWindow)
<1>1. RegistrationHasTwoRows /\ DbTypeOK => AnswersAreWindow
  <2> SUFFICES ASSUME RegistrationHasTwoRows, DbTypeOK, NEW s \in DOMAIN records,
                      NEW m \in Ask(NameOf(s), "TXT", FALSE)
               PROVE  m.answer = {RR(NameOf(s), "TXT", v) :
                                    v \in {WindowOf(s)[1], WindowOf(s)[2]} \ {NoValue}}
    BY DEF AnswersAreWindow
  <2>1. s \in Subdomains /\ DOMAIN txt[s] = Slots
    BY DEF RegistrationHasTwoRows, DbTypeOK, RecordsTypeOK
  <2>2. QED
    BY <2>1, AnswerIsServed, WindowIsServed
<1>2. /\ [DbNext]_dbVars
      /\ [\A s \in Subdomains, v \in Values : Update(s, v) => Later(s)]_dbVars
      => [SpacedNext]_dbVars
  BY DEF DbNext, SpacedNext
<1>3. DbSpec /\ UpdatesAreSpaced => SpacedSpec
  BY <1>2, PTL DEF DbSpec, UpdatesAreSpaced, SpacedSpec
<1>4. SystemSpec => DbSpec
  BY SystemImplementsApi, ApiImplementsDatabase, PTL
<1>5. QED
  BY <1>1, <1>3, <1>4, BothRows, TypeCorrect, DatabaseImplementsWindow, PTL
==============================================================================
