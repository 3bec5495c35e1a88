---------------------------- MODULE DatabaseProofs ----------------------------
(***************************************************************************)
(* Theorems about Database, for every set of subdomains, values and keys   *)
(* and every bound: its tables and passwords stay consistent, and with     *)
(* updates in distinct seconds it implements the window of the last two    *)
(* values (TxtWindow), which the last section shows step by step.          *)
(***************************************************************************)
EXTENDS Database, TLAPS

USE DatabaseAssumption DEF DatabaseAssumption

------------------------------------------------------------------------------
(* Types *)

LEMMA NewRecordType ==
  ASSUME DbTypeOK, passwords < MaxPasswords,
         NEW allow \in AllowFroms, NEW name \in Names
  PROVE  NewRecord(allow, name) \in Record
<1>1. passwords + 1 \in Password
  BY DEF DbTypeOK, Password
<1>2. EncryptOrEmpty(passwords + 1) \in Encrypted
  BY <1>1 DEF DbTypeOK, EncryptOrEmpty, Encrypted
<1>3. QED
  BY <1>1, <1>2 DEF NewRecord, Record

\* Writing one row of `records` keeps the table's type.
LEMMA SetRecordType ==
  ASSUME RecordsTypeOK, NEW s \in DOMAIN records, NEW r \in Record, SetRecord(s, r)
  PROVE  RecordsTypeOK'
BY DEF RecordsTypeOK, SetRecord

\* Writing the rows of one subdomain keeps the type of `txt`.
LEMMA SetRowsType ==
  ASSUME TxtTypeOK, NEW s \in Subdomains, NEW rows, DOMAIN rows \subseteq Slots,
         rows \in [DOMAIN rows -> TxtRow],
         txt' = [txt EXCEPT ![s] = rows]
  PROVE  TxtTypeOK' /\ txt'[s] = rows /\ \A t \in Subdomains \ {s} : txt'[t] = txt[t]
<1>1. DOMAIN txt = Subdomains
  BY DEF TxtTypeOK
<1>2. /\ txt'[s] = rows
      /\ \A t \in Subdomains \ {s} : txt'[t] = txt[t]
      /\ txt' = [t \in Subdomains |-> txt'[t]]
  BY <1>1
<1>3. QED
  BY <1>2 DEF TxtTypeOK

LEMMA BlankRowType == BlankRow \in TxtRow
BY DEF BlankRow, TxtRow

\* Fresh rows, or none, are well typed.
LEMMA BlankRowsType ==
  ASSUME TxtTypeOK, NEW s \in Subdomains, NEW rows \in SUBSET Slots,
         txt' = [txt EXCEPT ![s] = [i \in rows |-> BlankRow]]
  PROVE  /\ TxtTypeOK'
         /\ txt'[s] = [i \in rows |-> BlankRow]
         /\ \A t \in Subdomains \ {s} : txt'[t] = txt[t]
<1> DEFINE blank == [i \in rows |-> BlankRow]
<1>1. DOMAIN blank \subseteq Slots /\ blank \in [DOMAIN blank -> TxtRow]
  BY BlankRowType
<1>2. txt' = [txt EXCEPT ![s] = blank]
  OBVIOUS
<1> HIDE DEF blank
<1>3. TxtTypeOK' /\ txt'[s] = blank /\ \A t \in Subdomains \ {s} : txt'[t] = txt[t]
  BY <1>1, <1>2, SetRowsType
<1>4. QED
  BY <1>3 DEF blank

\* Telling the caller of s leaves what was told of the others as it is.
LEMMA TellType ==
  ASSUME DbTypeOK, NEW s \in Subdomains, NEW told \in {"registered", "deleted"},
         NEW committed \in BOOLEAN, Tell(s, told, committed)
  PROVE  /\ answered' \in [Subdomains -> Answer]
         /\ answered'[s].told = told
         /\ \A t \in Subdomains \ {s} : answered'[t] = answered[t]
<1>1. [told |-> told, committed |-> committed] \in Answer
  BY DEF Answer
<1>2. answered \in [Subdomains -> Answer]
  BY DEF DbTypeOK
<1>3. answered' = [answered EXCEPT ![s] = [told |-> told, committed |-> committed]]
  BY DEF Tell
<1>4. QED
  BY <1>1, <1>2, <1>3

\* Both methods tell their caller, whether or not the commit succeeded.
LEMMA RegisterTells ==
  ASSUME DbTypeOK, NEW s \in Subdomains, NEW allow, NEW name, RegisterWithName(s, allow, name)
  PROVE  /\ answered' \in [Subdomains -> Answer]
         /\ answered[s].told = "none" /\ answered'[s].told = "registered"
         /\ \A t \in Subdomains \ {s} : answered'[t] = answered[t]
<1>1. Tell(s, "registered", TRUE) \/ Tell(s, "registered", FALSE)
  BY DEF RegisterWithName
<1>2. answered[s].told = "none"
  BY DEF RegisterWithName
<1>3. QED
  BY <1>1, <1>2, TellType

LEMMA DeleteTells ==
  ASSUME DbTypeOK, NEW s \in Subdomains, DeleteDomain(s)
  PROVE  /\ answered' \in [Subdomains -> Answer]
         /\ answered'[s].told = "deleted"
         /\ \A t \in Subdomains \ {s} : answered'[t] = answered[t]
<1>1. Tell(s, "deleted", TRUE) \/ Tell(s, "deleted", FALSE)
  BY DEF DeleteDomain
<1>2. QED
  BY <1>1, TellType

LEMMA RegisterType ==
  ASSUME DbTypeOK, NEW s \in Subdomains, NEW allow \in AllowFroms, NEW name \in Names,
         RegisterWithName(s, allow, name)
  PROVE  DbTypeOK'
<1>0. answered' \in [Subdomains -> Answer]
  BY RegisterTells
<1>1. /\ answered' \in [Subdomains -> Answer]
      /\ passwords' \in 0..MaxPasswords
      /\ UNCHANGED <<now, cipher>>
  <2>1. passwords \in 0..MaxPasswords
    BY DEF DbTypeOK
  <2>2. passwords < MaxPasswords /\ passwords' = passwords + 1 /\ UNCHANGED <<now, cipher>>
    BY DEF RegisterWithName
  <2>3. QED
    BY <1>0, <2>1, <2>2
<1>2. written' \in [Subdomains -> History]
  BY BlankRowType DEF RegisterWithName, DbTypeOK, History, NoHistory
<1>3. CASE UNCHANGED <<records, txt>>
  BY <1>1, <1>2, <1>3 DEF DbTypeOK, RecordsTypeOK, TxtTypeOK
<1>4. CASE /\ records' = [t \in DOMAIN records \cup {s} |->
                            IF t = s THEN NewRecord(allow, name) ELSE records[t]]
           /\ \E rows \in InsertedRows : txt' = [txt EXCEPT ![s] = [i \in rows |-> BlankRow]]
  <2>1. RecordsTypeOK'
    BY <1>4, NewRecordType DEF RegisterWithName, DbTypeOK, RecordsTypeOK
  <2>2. PICK rows \in InsertedRows : txt' = [txt EXCEPT ![s] = [i \in rows |-> BlankRow]]
    BY <1>4
  <2>3. rows \subseteq Slots
    BY DEF InsertedRows
  <2>4. TxtTypeOK'
    BY <2>2, <2>3, BlankRowsType DEF DbTypeOK
  <2>5. QED
    BY <1>1, <1>2, <2>1, <2>4 DEF DbTypeOK
<1>5. QED
  BY <1>3, <1>4 DEF RegisterWithName

LEMMA AdministerType ==
  ASSUME DbTypeOK, NEW s \in Subdomains, Administer(s)
  PROVE  DbTypeOK'
<1>1. ASSUME NEW allow \in AllowFroms, NEW name \in Names, RegisterWithName(s, allow, name)
      PROVE  DbTypeOK'
  BY <1>1, RegisterType
<1>2. ASSUME NEW name \in Names, UpdateDomainName(s, name)
      PROVE  DbTypeOK'
  <2>1. [records[s] EXCEPT !.domainName = name] \in Record
    BY <1>2 DEF UpdateDomainName, Exists, DbTypeOK, RecordsTypeOK, Record
  <2>2. QED
    BY <1>2, <2>1, SetRecordType DEF UpdateDomainName, Exists, DbTypeOK, TxtTypeOK
<1>3. CASE RotatePassword(s)
  <2>1. passwords + 1 \in Password
    BY <1>3 DEF RotatePassword, DbTypeOK, Password
  <2>2. EncryptOrEmpty(passwords + 1) \in Encrypted
    BY <2>1 DEF DbTypeOK, EncryptOrEmpty, Encrypted
  <2>3. [records[s] EXCEPT !.password = passwords + 1,
                           !.encPassword = EncryptOrEmpty(passwords + 1)] \in Record
    <3>1. records[s] \in Record
      BY <1>3 DEF RotatePassword, Exists, DbTypeOK, RecordsTypeOK
    <3>2. QED
      BY <3>1, <2>1, <2>2 DEF Record
  <2>4. passwords' \in 0..MaxPasswords
    BY <1>3 DEF RotatePassword, DbTypeOK
  <2>5. QED
    BY <1>3, <2>3, <2>4, SetRecordType DEF RotatePassword, Exists, DbTypeOK, TxtTypeOK
<1>4. CASE DeleteDomain(s)
  <2>1. CASE UNCHANGED <<records, txt>>
    BY <1>4, <2>1, DeleteTells DEF DeleteDomain, DbTypeOK, RecordsTypeOK, TxtTypeOK
  <2>2. CASE /\ records' = [t \in DOMAIN records \ {s} |-> records[t]]
             /\ txt' = [txt EXCEPT ![s] = [i \in {} |-> BlankRow]]
    <3>1. RecordsTypeOK'
      BY <2>2 DEF DbTypeOK, RecordsTypeOK
    <3>2. TxtTypeOK'
      <4>1. {} \in SUBSET Slots
        OBVIOUS
      <4>2. QED
        BY <4>1, <2>2, BlankRowsType DEF DbTypeOK
    <3>3. QED
      BY <1>4, <3>1, <3>2, DeleteTells DEF DeleteDomain, DbTypeOK
  <2>3. QED
    BY <1>4, <2>1, <2>2 DEF DeleteDomain
<1>5. ASSUME NEW ip \in Addresses \cup {NoAddress}, SetLastSource(s, ip)
      PROVE  DbTypeOK'
  <2>1. CASE UNCHANGED records
    BY <1>5, <2>1 DEF SetLastSource, DbTypeOK, RecordsTypeOK, TxtTypeOK
  <2>2. CASE Exists(s) /\ SetRecord(s, [records[s] EXCEPT !.lastIP = ip])
    <3>1. [records[s] EXCEPT !.lastIP = ip] \in Record
      BY <2>2 DEF Exists, DbTypeOK, RecordsTypeOK, Record
    <3>2. QED
      BY <1>5, <2>2, <3>1, SetRecordType DEF SetLastSource, Exists, DbTypeOK, TxtTypeOK
  <2>3. QED
    BY <1>5, <2>1, <2>2 DEF SetLastSource
<1>6. QED
  BY <1>1, <1>2, <1>3, <1>4, <1>5 DEF Administer

LEMMA UpdateType ==
  ASSUME DbTypeOK, NEW s \in Subdomains, NEW v \in Values, Update(s, v)
  PROVE  DbTypeOK'
<1> DEFINE row == [value |-> v, lastUpdate |-> now]
<1>1. row \in TxtRow
  BY DEF DbTypeOK, TxtRow
<1>2. written' \in [Subdomains -> History]
  BY <1>1 DEF Update, DbTypeOK, History
<1>3. TxtTypeOK'
  <2>1. CASE UNCHANGED txt
    BY <2>1 DEF DbTypeOK, TxtTypeOK
  <2>2. ASSUME NEW i \in Oldest(s), txt' = [txt EXCEPT ![s][i] = row]
        PROVE  TxtTypeOK'
    <3>1. i \in DOMAIN txt[s]
      BY DEF Oldest
    <3>2. txt' = [txt EXCEPT ![s] = [txt[s] EXCEPT ![i] = row]]
      BY <2>2
    <3>3. [txt[s] EXCEPT ![i] = row] \in [DOMAIN txt[s] -> TxtRow]
      BY <3>1, <1>1 DEF DbTypeOK, TxtTypeOK
    <3>4. DOMAIN txt[s] \subseteq Slots /\ DOMAIN [txt[s] EXCEPT ![i] = row] = DOMAIN txt[s]
      BY DEF DbTypeOK, TxtTypeOK
    <3>5. QED
      BY <3>2, <3>3, <3>4, SetRowsType DEF DbTypeOK
  <2>3. QED
    BY <2>1, <2>2 DEF Update
<1>4. QED
  BY <1>2, <1>3 DEF Update, DbTypeOK, RecordsTypeOK

LEMMA SurroundingsType ==
  ASSUME DbTypeOK, Surroundings
  PROVE  DbTypeOK'
BY DEF DbTypeOK, RecordsTypeOK, TxtTypeOK, Surroundings, Reopen, Tick, StepBack

LEMMA InitType == DbInit => DbTypeOK
BY BlankRowType DEF DbInit, DbTypeOK, RecordsTypeOK, TxtTypeOK, History, NoHistory, Answer, NoAnswer

\* Every reachable database is well typed: rows are rows, stamps stay within the
\* clock's range, and both tables are keyed by subdomains.
THEOREM TypeCorrect == DbSpec => []DbTypeOK
<1>1. DbInit => DbTypeOK
  BY InitType
<1>2. DbTypeOK /\ [DbNext]_dbVars => DbTypeOK'
  <2> SUFFICES ASSUME DbTypeOK, [DbNext]_dbVars
               PROVE  DbTypeOK'
    OBVIOUS
  <2>1. CASE UNCHANGED dbVars
    BY <2>1 DEF dbVars, DbTypeOK, RecordsTypeOK, TxtTypeOK
  <2>2. CASE DbNext
    BY <2>2, AdministerType, UpdateType, SurroundingsType DEF DbNext
  <2>3. QED
    BY <2>1, <2>2
<1>3. QED
  BY <1>1, <1>2, PTL DEF DbSpec

------------------------------------------------------------------------------
(* The two tables *)

\* What Update does to the rows: at most one row of one registration changes.
LEMMA UpdateRows ==
  ASSUME TxtTypeOK, NEW s \in Subdomains, NEW v \in Values, Update(s, v)
  PROVE  /\ UNCHANGED records
         /\ \A t \in Subdomains : DOMAIN txt'[t] = DOMAIN txt[t]
         /\ \A t \in Subdomains \ {s} : txt'[t] = txt[t]
<1>1. CASE UNCHANGED txt
  BY <1>1 DEF Update
<1>2. ASSUME NEW i \in Oldest(s), NEW row, txt' = [txt EXCEPT ![s][i] = row]
      PROVE  /\ \A t \in Subdomains : DOMAIN txt'[t] = DOMAIN txt[t]
             /\ \A t \in Subdomains \ {s} : txt'[t] = txt[t]
  <2>1. DOMAIN txt = Subdomains
    BY DEF TxtTypeOK
  <2>2. txt' = [txt EXCEPT ![s] = [txt[s] EXCEPT ![i] = row]]
    BY <1>2
  <2>3. QED
    BY <2>1, <2>2
<1>3. QED
  BY <1>1, <1>2 DEF Update

\* No interleaving of the methods leaves TXT rows without a registration: what
\* DeleteDomain removed stays removed, and an Update that comes later finds nothing.
THEOREM RowsBelong == DbSpec => []RowsBelongToRegistration
<1>1. DbInit => RowsBelongToRegistration
  BY DEF DbInit, RowsBelongToRegistration
<1>2. DbTypeOK /\ RowsBelongToRegistration /\ [DbNext]_dbVars => RowsBelongToRegistration'
  <2> SUFFICES ASSUME DbTypeOK, RowsBelongToRegistration, [DbNext]_dbVars
               PROVE  RowsBelongToRegistration'
    OBVIOUS
  <2> USE DEF RowsBelongToRegistration, Exists
  <2>1. CASE UNCHANGED <<records, txt>>
    BY <2>1
  <2>2. ASSUME NEW s \in Subdomains, Administer(s)
        PROVE  RowsBelongToRegistration'
    <3>1. ASSUME NEW allow \in AllowFroms, NEW name \in Names, RegisterWithName(s, allow, name)
          PROVE  RowsBelongToRegistration'
      <4>1. CASE /\ records' = [t \in DOMAIN records \cup {s} |->
                                  IF t = s THEN NewRecord(allow, name) ELSE records[t]]
                 /\ \E rows \in InsertedRows : txt' = [txt EXCEPT ![s] = [i \in rows |-> BlankRow]]
        BY <4>1 DEF DbTypeOK, TxtTypeOK
      <4>2. QED
        BY <2>1, <3>1, <4>1 DEF RegisterWithName
    <3>2. CASE DeleteDomain(s)
      <4>1. CASE /\ records' = [t \in DOMAIN records \ {s} |-> records[t]]
                 /\ txt' = [txt EXCEPT ![s] = [i \in {} |-> BlankRow]]
        BY <4>1 DEF DbTypeOK, TxtTypeOK
      <4>2. QED
        BY <2>1, <3>2, <4>1 DEF DeleteDomain
    <3>3. ASSUME DOMAIN records' = DOMAIN records, UNCHANGED txt
          PROVE  RowsBelongToRegistration'
      BY <3>3
    <3>4. QED
      BY <2>2, <3>1, <3>2, <3>3
      DEF Administer, UpdateDomainName, RotatePassword, SetLastSource, SetRecord
  <2>3. ASSUME NEW s \in Subdomains, NEW v \in Values, Update(s, v)
        PROVE  RowsBelongToRegistration'
    BY <2>3, UpdateRows DEF DbTypeOK
  <2>4. CASE Surroundings
    BY <2>1, <2>4 DEF Surroundings, Reopen, Tick, StepBack
  <2>5. QED
    BY <2>1, <2>2, <2>3, <2>4 DEF DbNext, dbVars
<1>3. QED
  BY <1>1, <1>2, TypeCorrect, PTL DEF DbSpec

\* The invariant behind ShownPasswordAuthenticates: a stored copy, under whatever
\* key it was written, is the password whose hash the row holds.
EncryptedCopyMatches ==
  \A s \in DOMAIN records :
    records[s].encPassword.key # NoKey => records[s].encPassword.plain = records[s].password

\* Across rotations, restarts and changes of the credentials key, the management UI
\* shows a password that authenticates, or none.
THEOREM ShownPasswordIsCurrent == DbSpec => []ShownPasswordAuthenticates
<1>1. DbInit => EncryptedCopyMatches
  BY DEF DbInit, EncryptedCopyMatches
<1>2. DbTypeOK /\ EncryptedCopyMatches /\ [DbNext]_dbVars => EncryptedCopyMatches'
  <2> SUFFICES ASSUME DbTypeOK, EncryptedCopyMatches, [DbNext]_dbVars
               PROVE  EncryptedCopyMatches'
    OBVIOUS
  <2> USE DEF EncryptedCopyMatches
  <2>1. CASE UNCHANGED records
    BY <2>1
  <2>2. ASSUME NEW s \in DOMAIN records, NEW r, SetRecord(s, r),
               r.encPassword.key # NoKey => r.encPassword.plain = r.password
        PROVE  EncryptedCopyMatches'
    BY <2>2 DEF SetRecord
  <2>3. /\ EncryptOrEmpty(passwords + 1).key = cipher
        /\ cipher # NoKey => EncryptOrEmpty(passwords + 1).plain = passwords + 1
    BY DEF EncryptOrEmpty
  <2>4. ASSUME NEW s \in Subdomains, Administer(s)
        PROVE  EncryptedCopyMatches'
    <3>1. ASSUME NEW allow \in AllowFroms, NEW name \in Names, RegisterWithName(s, allow, name)
          PROVE  EncryptedCopyMatches'
      BY <2>1, <2>3, <3>1 DEF RegisterWithName, NewRecord, Tell
    <3>2. ASSUME NEW name \in Names, UpdateDomainName(s, name)
          PROVE  EncryptedCopyMatches'
      BY <2>2, <3>2 DEF UpdateDomainName, Exists, DbTypeOK, RecordsTypeOK, Record
    <3>3. CASE RotatePassword(s)
      <4> DEFINE r == [records[s] EXCEPT !.password = passwords + 1,
                                         !.encPassword = EncryptOrEmpty(passwords + 1)]
      <4>1. s \in DOMAIN records /\ SetRecord(s, r) /\ records[s] \in Record
        BY <3>3 DEF RotatePassword, Exists, DbTypeOK, RecordsTypeOK
      <4>2. r.password = passwords + 1 /\ r.encPassword = EncryptOrEmpty(passwords + 1)
        BY <4>1 DEF Record
      <4>3. r.encPassword.key # NoKey => r.encPassword.plain = r.password
        BY <4>2, <2>3
      <4>4. QED
        BY <4>1, <4>3, <2>2
    <3>4. CASE DeleteDomain(s)
      BY <2>1, <3>4 DEF DeleteDomain, Tell
    <3>5. ASSUME NEW ip \in Addresses \cup {NoAddress}, SetLastSource(s, ip)
          PROVE  EncryptedCopyMatches'
      BY <2>1, <2>2, <3>5 DEF SetLastSource, Exists, DbTypeOK, RecordsTypeOK, Record
    <3>6. QED
      BY <2>4, <3>1, <3>2, <3>3, <3>4, <3>5 DEF Administer
  <2>5. QED
    BY <2>1, <2>4 DEF DbNext, dbVars, Update, Surroundings, Reopen, Tick, StepBack
<1>3. EncryptedCopyMatches => ShownPasswordAuthenticates
  BY DEF EncryptedCopyMatches, ShownPasswordAuthenticates, ShownPassword, DecryptOrEmpty
<1>4. QED
  BY <1>1, <1>2, <1>3, TypeCorrect, PTL DEF DbSpec
------------------------------------------------------------------------------
(* The rows of one registration and the order of its writes *)

\* The invariant behind the rolling update.  One row holds the newest write; the
\* other is no newer than the write before it, and is that write when it was the
\* first of its second.  Stamps are ordered as the writes were.
Chronicle(s) ==
  LET w == written[s]
  IN /\ DOMAIN txt[s] = Slots
     /\ w.older.lastUpdate <= w.previous.lastUpdate
     /\ w.previous.lastUpdate <= w.newest.lastUpdate
     /\ w.newest.lastUpdate <= now
     /\ \E i, j \in Slots :
          /\ i # j
          /\ txt[s][i] = w.newest
          /\ txt[s][j].lastUpdate <= w.previous.lastUpdate
          /\ w.older.lastUpdate < w.previous.lastUpdate => txt[s][j] = w.previous

\* The subdomains NewACMETxt has drawn so far.
drawn == {s \in Subdomains : answered[s].told # "none"}

HistoryInv == \A s \in DOMAIN records : s \in drawn /\ Chronicle(s)

USE DEF drawn

\* A step that leaves a registration's rows and history alone and does not set the
\* clock back keeps its chronicle.
LEMMA ChronicleKept ==
  ASSUME DbTypeOK, NEW s \in Subdomains, Chronicle(s), now' \in Nat, now <= now',
         txt'[s] = txt[s], written'[s] = written[s]
  PROVE  Chronicle(s)'
<1>1. written[s].newest.lastUpdate \in Nat /\ now \in Nat
  BY DEF DbTypeOK, History, TxtRow
<1>2. QED
  BY <1>1 DEF Chronicle

\* One write to a registration with a chronicle.
LEMMA ChronicleGrows ==
  ASSUME DbTypeOK, NEW s \in Subdomains, NEW v \in Values, Chronicle(s), Update(s, v)
  PROVE  Chronicle(s)'
<1> DEFINE w == written[s]
           row == [value |-> v, lastUpdate |-> now]
<1>1. /\ now \in Nat /\ now' = now
      /\ w.older.lastUpdate \in Nat /\ w.previous.lastUpdate \in Nat
      /\ w.newest.lastUpdate \in Nat
  BY DEF DbTypeOK, History, TxtRow, Update
<1>2. /\ written'[s].older = w.previous
      /\ written'[s].previous = w.newest
      /\ written'[s].newest = row
  BY DEF Update, DbTypeOK, History
<1>3. PICK i \in Slots, j \in Slots :
        /\ i # j
        /\ txt[s][i] = w.newest
        /\ txt[s][j].lastUpdate <= w.previous.lastUpdate
        /\ w.older.lastUpdate < w.previous.lastUpdate => txt[s][j] = w.previous
  BY DEF Chronicle
<1>4. Slots = {i, j} /\ DOMAIN txt[s] = Slots
  BY <1>3 DEF Slots, Chronicle
<1>5. txt[s][j].lastUpdate \in Nat
  BY <1>4 DEF DbTypeOK, TxtTypeOK, TxtRow
<1>6. w.previous.lastUpdate <= w.newest.lastUpdate /\ w.newest.lastUpdate <= now
  BY DEF Chronicle
<1>7. j \in Oldest(s)
  BY <1>1, <1>3, <1>4, <1>5, <1>6 DEF Oldest
<1>8. PICK k \in Oldest(s) : txt' = [txt EXCEPT ![s][k] = row]
  BY <1>7 DEF Update
<1>9. k \in Slots
  BY <1>4 DEF Oldest
<1>10. /\ DOMAIN txt'[s] = Slots
       /\ txt'[s][k] = row
       /\ \A l \in Slots \ {k} : txt'[s][l] = txt[s][l]
  BY <1>4, <1>8, <1>9 DEF DbTypeOK, TxtTypeOK
<1>11. CASE k = j
  <2>1. /\ txt'[s][j] = written'[s].newest
        /\ txt'[s][i] = written'[s].previous
    BY <1>2, <1>3, <1>10, <1>11
  <2>2. QED
    BY <2>1, <1>1, <1>2, <1>3, <1>6, <1>10 DEF Chronicle
<1>12. CASE k = i
  \* A tie: both rows carry the stamp of the newest write, which was then not the
  \* first of its second.
  <2>1. txt[s][i].lastUpdate <= txt[s][j].lastUpdate
    BY <1>4, <1>12 DEF Oldest
  <2>2. w.previous.lastUpdate = w.newest.lastUpdate
    BY <2>1, <1>1, <1>3, <1>5, <1>6
  <2>3. /\ txt'[s][i] = written'[s].newest
        /\ txt'[s][j].lastUpdate <= written'[s].previous.lastUpdate
    BY <2>2, <1>2, <1>3, <1>10, <1>12
  <2>4. QED
    BY <2>2, <2>3, <1>1, <1>2, <1>3, <1>6, <1>10 DEF Chronicle
<1>13. QED
  BY <1>4, <1>9, <1>11, <1>12

\* A registration starts with a chronicle: two blank rows and no writes.
LEMMA ChronicleBegins ==
  ASSUME DbTypeOK, NEW s \in Subdomains, now' = now,
         txt'[s] = [i \in Slots |-> BlankRow], written'[s] = NoHistory
  PROVE  Chronicle(s)'
<1>1. now \in Nat
  BY DEF DbTypeOK
<1>2. 1 \in Slots /\ 2 \in Slots
  BY DEF Slots
<1>3. QED
  BY <1>1, <1>2 DEF Chronicle, NoHistory, BlankRow

THEOREM HistoryKept ==
  ASSUME InsertMayFail = FALSE, ClockMayStepBack = FALSE
  PROVE  DbSpec => []HistoryInv
<1>1. DbInit => HistoryInv
  BY DEF DbInit, HistoryInv
<1>2. DbTypeOK /\ HistoryInv /\ [DbNext]_dbVars => HistoryInv'
  <2> SUFFICES ASSUME DbTypeOK, HistoryInv, [DbNext]_dbVars,
                      NEW t \in DOMAIN records'
               PROVE  t \in drawn' /\ Chronicle(t)'
    BY DEF HistoryInv
  <2>1. now \in Nat
    BY DEF DbTypeOK
  <2>2. ASSUME t \in DOMAIN records, drawn \subseteq drawn', now' \in Nat, now <= now',
               txt'[t] = txt[t], written'[t] = written[t]
        PROVE  t \in drawn' /\ Chronicle(t)'
    BY <2>2, ChronicleKept DEF HistoryInv, DbTypeOK, RecordsTypeOK
  <2>3. CASE UNCHANGED dbVars
    BY <2>1, <2>2, <2>3 DEF dbVars
  <2>4. ASSUME NEW s \in Subdomains, Administer(s)
        PROVE  t \in drawn' /\ Chronicle(t)'
    <3>1. ASSUME NEW allow \in AllowFroms, NEW name \in Names, RegisterWithName(s, allow, name)
          PROVE  t \in drawn' /\ Chronicle(t)'
      <4>1. /\ s \notin DOMAIN records
            /\ now' = now
            /\ drawn \subseteq drawn' /\ s \in drawn'
            /\ written'[s] = NoHistory
            /\ \A u \in Subdomains \ {s} : written'[u] = written[u]
        <5>1. /\ answered[s].told = "none" /\ answered'[s].told = "registered"
              /\ \A u \in Subdomains \ {s} : answered'[u] = answered[u]
          BY <3>1, RegisterTells
        <5>2. QED
          BY <3>1, <5>1 DEF RegisterWithName, HistoryInv, DbTypeOK
      <4>2. CASE UNCHANGED <<records, txt>>
        BY <4>1, <4>2, <2>1, <2>2 DEF DbTypeOK, RecordsTypeOK
      <4>3. CASE /\ records' = [u \in DOMAIN records \cup {s} |->
                                  IF u = s THEN NewRecord(allow, name) ELSE records[u]]
                 /\ \E rows \in InsertedRows : txt' = [txt EXCEPT ![s] = [i \in rows |-> BlankRow]]
        <5>1. txt' = [txt EXCEPT ![s] = [i \in Slots |-> BlankRow]]
          BY <4>3 DEF InsertedRows
        <5>2. /\ txt'[s] = [i \in Slots |-> BlankRow]
              /\ \A u \in Subdomains \ {s} : txt'[u] = txt[u]
          BY <5>1 DEF DbTypeOK, TxtTypeOK
        <5>3. CASE t = s
          BY <5>2, <5>3, <4>1, ChronicleBegins
        <5>4. CASE t # s
          BY <5>2, <5>4, <4>1, <4>3, <2>1, <2>2 DEF DbTypeOK, RecordsTypeOK
        <5>5. QED
          BY <5>3, <5>4
      <4>4. QED
        BY <3>1, <4>2, <4>3 DEF RegisterWithName
    <3>2. CASE DeleteDomain(s)
      <4>0. drawn \subseteq drawn'
        BY <3>2, DeleteTells
      <4>1. CASE UNCHANGED <<records, txt>>
        BY <3>2, <4>0, <4>1, <2>1, <2>2 DEF DeleteDomain
      <4>2. CASE /\ records' = [u \in DOMAIN records \ {s} |-> records[u]]
                 /\ txt' = [txt EXCEPT ![s] = [i \in {} |-> BlankRow]]
        <5>1. t # s /\ t \in DOMAIN records /\ t \in Subdomains
          BY <4>2 DEF DbTypeOK, RecordsTypeOK
        <5>2. txt'[t] = txt[t]
          BY <4>2, <5>1 DEF DbTypeOK, TxtTypeOK
        <5>3. QED
          BY <3>2, <4>0, <5>1, <5>2, <2>1, <2>2 DEF DeleteDomain
      <4>3. QED
        BY <3>2, <4>1, <4>2 DEF DeleteDomain
    <3>3. ASSUME DOMAIN records' = DOMAIN records, UNCHANGED <<txt, now, answered, written>>
          PROVE  t \in drawn' /\ Chronicle(t)'
      BY <3>3, <2>1, <2>2
    <3>4. QED
      BY <2>4, <3>1, <3>2, <3>3
      DEF Administer, UpdateDomainName, RotatePassword, SetLastSource, SetRecord
  <2>5. ASSUME NEW s \in Subdomains, NEW v \in Values, Update(s, v)
        PROVE  t \in drawn' /\ Chronicle(t)'
    <3>1. t \in DOMAIN records /\ t \in Subdomains /\ drawn' = drawn /\ now' = now
      BY <2>5 DEF Update, DbTypeOK, RecordsTypeOK
    <3>2. CASE t = s
      BY <2>5, <3>1, <3>2, ChronicleGrows DEF HistoryInv
    <3>3. CASE t # s
      <4>1. txt'[t] = txt[t] /\ written'[t] = written[t]
        BY <2>5, <3>1, <3>3, UpdateRows DEF Update, DbTypeOK
      <4>2. QED
        BY <3>1, <4>1, <2>1, <2>2
    <3>4. QED
      BY <3>2, <3>3
  <2>6. CASE Surroundings
    <3>1. /\ UNCHANGED <<records, txt, answered, written>>
          /\ now' \in Nat /\ now <= now'
      BY <2>1, <2>6 DEF Surroundings, Reopen, Tick, StepBack
    <3>2. QED
      BY <3>1, <2>2
  <2>7. QED
    BY <2>3, <2>4, <2>5, <2>6 DEF DbNext
<1>3. QED
  BY <1>1, <1>2, TypeCorrect, PTL DEF DbSpec

\* With a clock that is never set back, a value that was the first of its second
\* survives the next write: the two challenges of a wildcard certificate are both
\* answered whenever they were written in different seconds.
THEOREM RollingUpdate ==
  ASSUME InsertMayFail = FALSE, ClockMayStepBack = FALSE
  PROVE  DbSpec => []FirstOfItsSecondSurvives
<1>1. HistoryInv => FirstOfItsSecondSurvives
  BY DEF HistoryInv, Chronicle, FirstOfItsSecondSurvives
<1>2. QED
  BY <1>1, HistoryKept, PTL

------------------------------------------------------------------------------
(* What holds under any clock *)

\* A registration keeps both its rows, one of which holds its newest write.
Holds(s) == /\ DOMAIN txt[s] = Slots
            /\ HasRow(s, written[s].newest)
            /\ written[s].newest = BlankRow \/ written[s].newest.value \in Values

NewestInv == \A s \in DOMAIN records : s \in drawn /\ Holds(s)

\* With both rows in place there is always one that no other is older than.
LEMMA OldestExists ==
  ASSUME DbTypeOK, NEW s \in Subdomains, DOMAIN txt[s] = Slots
  PROVE  Oldest(s) # {}
<1>1. txt[s][1].lastUpdate \in Nat /\ txt[s][2].lastUpdate \in Nat
  BY DEF DbTypeOK, TxtTypeOK, TxtRow, Slots
<1>2. CASE txt[s][1].lastUpdate <= txt[s][2].lastUpdate
  <2>1. 1 \in Oldest(s)
    BY <1>1, <1>2 DEF Oldest, Slots
  <2>2. QED
    BY <2>1
<1>3. CASE txt[s][2].lastUpdate <= txt[s][1].lastUpdate
  <2>1. 2 \in Oldest(s)
    BY <1>1, <1>3 DEF Oldest, Slots
  <2>2. QED
    BY <2>1
<1>4. QED
  BY <1>1, <1>2, <1>3

\* A write takes one of the rows, whatever their stamps.
LEMMA WriteHolds ==
  ASSUME DbTypeOK, NEW s \in Subdomains, NEW v \in Values, Holds(s), Update(s, v)
  PROVE  Holds(s)'
<1> DEFINE row == [value |-> v, lastUpdate |-> now]
<1>1. PICK i \in Oldest(s) : txt' = [txt EXCEPT ![s][i] = row]
  BY OldestExists DEF Update, Holds
<1>2. i \in Slots
  BY DEF Oldest, Holds
<1>3. DOMAIN txt'[s] = Slots /\ txt'[s][i] = row
  BY <1>1, <1>2 DEF DbTypeOK, TxtTypeOK, Holds
<1>4. written'[s].newest = row
  BY DEF Update, DbTypeOK, History
<1>5. QED
  BY <1>2, <1>3, <1>4 DEF Holds, HasRow

\* Two blank rows are the newest write of a registration nobody has written yet.
LEMMA BlankHolds ==
  ASSUME NEW s \in Subdomains, txt'[s] = [i \in Slots |-> BlankRow], written'[s] = NoHistory
  PROVE  Holds(s)'
<1>1. 1 \in Slots /\ written'[s].newest = BlankRow
  BY DEF Slots, NoHistory
<1>2. txt'[s][1] = BlankRow /\ DOMAIN txt'[s] = Slots
  BY <1>1
<1>3. QED
  BY <1>1, <1>2 DEF Holds, HasRow

THEOREM NewestKept ==
  ASSUME InsertMayFail = FALSE
  PROVE  DbSpec => []NewestInv
<1>1. DbInit => NewestInv
  BY DEF DbInit, NewestInv
<1>2. DbTypeOK /\ NewestInv /\ [DbNext]_dbVars => NewestInv'
  <2> SUFFICES ASSUME DbTypeOK, NewestInv, [DbNext]_dbVars,
                      NEW t \in DOMAIN records'
               PROVE  t \in drawn' /\ Holds(t)'
    BY DEF NewestInv
  <2>1. ASSUME t \in DOMAIN records, drawn \subseteq drawn',
               txt'[t] = txt[t], written'[t] = written[t]
        PROVE  t \in drawn' /\ Holds(t)'
    BY <2>1 DEF NewestInv, Holds, HasRow
  <2>2. CASE UNCHANGED dbVars
    BY <2>1, <2>2 DEF dbVars
  <2>3. ASSUME NEW s \in Subdomains, Administer(s)
        PROVE  t \in drawn' /\ Holds(t)'
    <3>1. ASSUME NEW allow \in AllowFroms, NEW name \in Names, RegisterWithName(s, allow, name)
          PROVE  t \in drawn' /\ Holds(t)'
      <4>1. /\ s \notin DOMAIN records
            /\ drawn \subseteq drawn' /\ s \in drawn'
            /\ written'[s] = NoHistory
            /\ \A u \in Subdomains \ {s} : written'[u] = written[u]
        <5>1. /\ answered[s].told = "none" /\ answered'[s].told = "registered"
              /\ \A u \in Subdomains \ {s} : answered'[u] = answered[u]
          BY <3>1, RegisterTells
        <5>2. QED
          BY <3>1, <5>1 DEF RegisterWithName, NewestInv, DbTypeOK
      <4>2. CASE UNCHANGED <<records, txt>>
        BY <4>1, <4>2, <2>1 DEF DbTypeOK, RecordsTypeOK
      <4>3. CASE /\ records' = [u \in DOMAIN records \cup {s} |->
                                  IF u = s THEN NewRecord(allow, name) ELSE records[u]]
                 /\ \E rows \in InsertedRows : txt' = [txt EXCEPT ![s] = [i \in rows |-> BlankRow]]
        <5>1. txt' = [txt EXCEPT ![s] = [i \in Slots |-> BlankRow]]
          BY <4>3 DEF InsertedRows
        <5>2. /\ txt'[s] = [i \in Slots |-> BlankRow]
              /\ \A u \in Subdomains \ {s} : txt'[u] = txt[u]
          BY <5>1 DEF DbTypeOK, TxtTypeOK
        <5>3. CASE t = s
          BY <5>2, <5>3, <4>1, BlankHolds
        <5>4. CASE t # s
          BY <5>2, <5>4, <4>1, <4>3, <2>1 DEF DbTypeOK, RecordsTypeOK
        <5>5. QED
          BY <5>3, <5>4
      <4>4. QED
        BY <3>1, <4>2, <4>3 DEF RegisterWithName
    <3>2. CASE DeleteDomain(s)
      <4>1. drawn \subseteq drawn' /\ UNCHANGED written
        BY <3>2, DeleteTells DEF DeleteDomain, DbTypeOK
      <4>2. CASE UNCHANGED <<records, txt>>
        BY <4>1, <4>2, <2>1
      <4>3. CASE /\ records' = [u \in DOMAIN records \ {s} |-> records[u]]
                 /\ txt' = [txt EXCEPT ![s] = [i \in {} |-> BlankRow]]
        <5>1. t # s /\ t \in DOMAIN records /\ t \in Subdomains
          BY <4>3 DEF DbTypeOK, RecordsTypeOK
        <5>2. txt'[t] = txt[t]
          BY <4>3, <5>1 DEF DbTypeOK, TxtTypeOK
        <5>3. QED
          BY <4>1, <5>1, <5>2, <2>1
      <4>4. QED
        BY <3>2, <4>2, <4>3 DEF DeleteDomain
    <3>3. ASSUME DOMAIN records' = DOMAIN records, UNCHANGED <<txt, answered, written>>
          PROVE  t \in drawn' /\ Holds(t)'
      BY <3>3, <2>1
    <3>4. QED
      BY <2>3, <3>1, <3>2, <3>3
      DEF Administer, UpdateDomainName, RotatePassword, SetLastSource, SetRecord
  <2>4. ASSUME NEW s \in Subdomains, NEW v \in Values, Update(s, v)
        PROVE  t \in drawn' /\ Holds(t)'
    <3>1. t \in DOMAIN records /\ t \in Subdomains /\ drawn' = drawn
      BY <2>4 DEF Update, DbTypeOK, RecordsTypeOK
    <3>2. CASE t = s
      BY <2>4, <3>1, <3>2, WriteHolds DEF NewestInv
    <3>3. CASE t # s
      <4>1. txt'[t] = txt[t] /\ written'[t] = written[t]
        BY <2>4, <3>1, <3>3, UpdateRows DEF Update, DbTypeOK
      <4>2. QED
        BY <3>1, <4>1, <2>1
    <3>4. QED
      BY <3>2, <3>3
  <2>5. CASE Surroundings
    BY <2>1, <2>5 DEF Surroundings, Reopen, Tick, StepBack
  <2>6. QED
    BY <2>2, <2>3, <2>4, <2>5 DEF DbNext
<1>3. QED
  BY <1>1, <1>2, TypeCorrect, PTL DEF DbSpec

\* While INSERTs succeed every registration has the two rows its updates need.
THEOREM BothRows ==
  ASSUME InsertMayFail = FALSE
  PROVE  DbSpec => []RegistrationHasTwoRows
<1>1. NewestInv => RegistrationHasTwoRows
  BY DEF NewestInv, Holds, RegistrationHasTwoRows
<1>2. QED
  BY <1>1, NewestKept, PTL

\* Whatever the stamps, also with a clock that is set back, the value written last
\* is always among those served.
THEOREM NewestIsServed ==
  ASSUME InsertMayFail = FALSE
  PROVE  DbSpec => []NewestServed
<1>1. NewestInv => NewestServed
  BY DEF NewestInv, Holds, NewestServed
<1>2. QED
  BY <1>1, NewestKept, PTL

------------------------------------------------------------------------------
(* Database implements TxtWindow, for every set of subdomains and values,  *)
(* when each update of a registration comes in a later second than the     *)
(* rows it finds (SpacedSpec) and no INSERT is lost.                       *)

USE DEF drawn

\* The behaviours of SpacedSpec are behaviours of the database.
LEMMA SpacedIsDb == SpacedSpec => DbSpec
<1>1. [SpacedNext]_dbVars => [DbNext]_dbVars
  BY DEF SpacedNext, DbNext
<1>2. QED
  BY <1>1, PTL DEF SpacedSpec, DbSpec

\* Two written rows never carry the same stamp, so their order is the order of the
\* writes; equal stamps are those of a registration nobody has written to.
Ordered(s) ==
  /\ DOMAIN txt[s] = Slots
  /\ txt[s][1].lastUpdate = txt[s][2].lastUpdate => txt[s] = [i \in Slots |-> BlankRow]

WindowInv == /\ DbTypeOK
             /\ RowsBelongToRegistration
             /\ \A s \in DOMAIN records : s \in drawn /\ Ordered(s)

window == [s \in Subdomains |-> WindowOf(s)]

LEMMA BlankWindow ==
  ASSUME NEW s \in Subdomains,
         txt[s] = [i \in Slots |-> BlankRow] \/ DOMAIN txt[s] = {}
  PROVE  WindowOf(s) = <<NoValue, NoValue>>
BY DEF WindowOf, BlankRow, Slots

\* A write under Later pushes the older value out of the window.
LEMMA WriteMoves ==
  ASSUME WindowInv, NEW s \in DOMAIN records, NEW v \in Values, Later(s), Update(s, v)
  PROVE  Ordered(s)' /\ WindowOf(s)' = <<WindowOf(s)[2], v>>
<1> DEFINE row == [value |-> v, lastUpdate |-> now]
<1>1. s \in Subdomains /\ DOMAIN txt[s] = Slots /\ 1 \in Slots /\ 2 \in Slots
  BY DEF WindowInv, Ordered, DbTypeOK, RecordsTypeOK, Slots
<1>2. /\ now \in Nat
      /\ \A i \in Slots : txt[s][i].lastUpdate \in Nat /\ txt[s][i].lastUpdate < now
  BY <1>1 DEF WindowInv, DbTypeOK, TxtTypeOK, TxtRow, Later
<1>3. PICK k \in Slots : k \in Oldest(s) /\ txt' = [txt EXCEPT ![s][k] = row]
  <2>1. Oldest(s) # {}
    BY <1>1, <1>2 DEF Oldest, Slots
  <2>2. QED
    BY <1>1, <2>1 DEF Update, Oldest
<1>4. /\ DOMAIN txt'[s] = Slots
      /\ txt'[s][k] = row
      /\ \A l \in Slots \ {k} : txt'[s][l] = txt[s][l]
  BY <1>1, <1>3 DEF WindowInv, DbTypeOK, TxtTypeOK
<1>5. \A l \in Slots \ {k} : txt[s][k].lastUpdate <= txt[s][l].lastUpdate
  BY <1>1, <1>3 DEF Oldest
<1>6. \A l \in Slots \ {k} : /\ txt'[s][l].lastUpdate < txt'[s][k].lastUpdate
                             /\ txt'[s][k].lastUpdate # txt'[s][l].lastUpdate
  BY <1>2, <1>4
<1>7. txt[s][1].lastUpdate = txt[s][2].lastUpdate => txt[s][1].value = txt[s][2].value
  BY <1>1 DEF WindowInv, Ordered
<1>8. CASE k = 1
  <2>1. WindowOf(s)[2] = txt[s][2].value
    BY <1>1, <1>5, <1>7, <1>8 DEF WindowOf, Slots
  <2>2. WindowOf(s)' = <<txt'[s][2].value, txt'[s][1].value>> /\ Ordered(s)'
    BY <1>1, <1>2, <1>4, <1>6, <1>8 DEF WindowOf, Ordered, Slots
  <2>3. QED
    BY <1>4, <1>8, <2>1, <2>2 DEF Slots
<1>9. CASE k = 2
  <2>1. WindowOf(s)[2] = txt[s][1].value
    <3>1. txt[s][2].lastUpdate <= txt[s][1].lastUpdate
      BY <1>1, <1>5, <1>9 DEF Slots
    <3>2. QED
      BY <1>1, <1>2, <1>7, <3>1 DEF WindowOf
  <2>2. WindowOf(s)' = <<txt'[s][1].value, txt'[s][2].value>> /\ Ordered(s)'
    BY <1>1, <1>2, <1>4, <1>6, <1>9 DEF WindowOf, Ordered, Slots
  <2>3. QED
    BY <1>4, <1>9, <2>1, <2>2 DEF Slots
<1>10. QED
  BY <1>8, <1>9 DEF Slots

\* A step that touches the rows of s alone changes the window at s alone.
LEMMA WindowElsewhere ==
  ASSUME NEW s \in Subdomains, NEW value,
         \A t \in Subdomains \ {s} : txt'[t] = txt[t],
         WindowOf(s)' = value
  PROVE  window' = [window EXCEPT ![s] = value]
<1>1. \A t \in Subdomains \ {s} : WindowOf(t)' = WindowOf(t)
  BY DEF WindowOf
<1>2. QED
  BY <1>1 DEF window

\* Every step of the spaced database is a step of the window or leaves it alone,
\* and keeps the invariant.
LEMMA StepMaps ==
  ASSUME InsertMayFail = FALSE, WindowInv, DbTypeOK', RowsBelongToRegistration',
         [SpacedNext]_dbVars
  PROVE  WindowInv' /\ [Window!Next]_<<DOMAIN records, window>>
<1> DEFINE Kept == UNCHANGED <<DOMAIN records, txt>> /\ drawn \subseteq drawn'
           Goal == WindowInv' /\ [Window!Next]_<<DOMAIN records, window>>
<1>1. CASE Kept
  BY <1>1 DEF WindowInv, Ordered, window, WindowOf
<1>2. ASSUME NEW s \in Subdomains, NEW allow \in AllowFroms, NEW name \in Names,
             RegisterWithName(s, allow, name)
      PROVE  Goal
  <2>0. /\ answered[s].told = "none" /\ answered'[s].told = "registered"
        /\ \A u \in Subdomains \ {s} : answered'[u] = answered[u]
    BY <1>2, RegisterTells DEF WindowInv
  <2>1. CASE UNCHANGED <<records, txt>>
    BY <1>1, <2>0, <2>1
  <2>2. CASE /\ records' = [u \in DOMAIN records \cup {s} |->
                              IF u = s THEN NewRecord(allow, name) ELSE records[u]]
             /\ \E rows \in InsertedRows : txt' = [txt EXCEPT ![s] = [i \in rows |-> BlankRow]]
    <3>1. txt' = [txt EXCEPT ![s] = [i \in Slots |-> BlankRow]]
      BY <2>2 DEF InsertedRows
    <3>2. /\ txt'[s] = [i \in Slots |-> BlankRow]
          /\ \A u \in Subdomains \ {s} : txt'[u] = txt[u]
      BY <3>1 DEF WindowInv, DbTypeOK, TxtTypeOK
    <3>3. s \notin DOMAIN records /\ drawn' = drawn \cup {s}
      BY <2>0 DEF WindowInv
    <3>4. WindowInv'
      BY <2>2, <3>2, <3>3 DEF WindowInv, Ordered, DbTypeOK, RecordsTypeOK
    <3>5. WindowOf(s)' = <<NoValue, NoValue>>
      BY <3>2 DEF WindowOf, BlankRow, Slots
    <3>6. window' = [window EXCEPT ![s] = <<NoValue, NoValue>>]
      BY <3>2, <3>5, WindowElsewhere
    <3>7. Window!Open(s)
      BY <2>2, <3>3, <3>6 DEF Window!Open, Window!Empty, window
    <3>8. QED
      BY <3>4, <3>7 DEF Window!Next
  <2>3. QED
    BY <1>2, <2>1, <2>2 DEF RegisterWithName
<1>3. ASSUME NEW s \in Subdomains, DeleteDomain(s)
      PROVE  Goal
  <2>1. CASE UNCHANGED <<records, txt>>
    BY <1>1, <1>3, <2>1, DeleteTells DEF DeleteDomain, WindowInv
  <2>2. CASE /\ records' = [u \in DOMAIN records \ {s} |-> records[u]]
             /\ txt' = [txt EXCEPT ![s] = [i \in {} |-> BlankRow]]
    <3>1. /\ DOMAIN txt'[s] = {}
          /\ \A u \in Subdomains \ {s} : txt'[u] = txt[u]
      BY <2>2 DEF WindowInv, DbTypeOK, TxtTypeOK
    <3>2. WindowInv'
      <4>1. drawn \subseteq drawn'
        BY <1>3, DeleteTells DEF WindowInv
      <4>2. QED
        BY <2>2, <3>1, <4>1 DEF WindowInv, Ordered, DbTypeOK, RecordsTypeOK
    <3>3. WindowOf(s)' = <<NoValue, NoValue>>
      BY <3>1 DEF WindowOf, Slots
    <3>4. window' = [window EXCEPT ![s] = <<NoValue, NoValue>>]
      BY <3>1, <3>3, WindowElsewhere
    <3>5. Window!Close(s)
      BY <1>3, <2>2, <3>4 DEF DeleteDomain, Exists, Window!Close, Window!Empty, window
    <3>6. QED
      BY <3>2, <3>5 DEF Window!Next
  <2>3. QED
    BY <1>3, <2>1, <2>2 DEF DeleteDomain
<1>4. ASSUME NEW s \in Subdomains, Administer(s)
      PROVE  Goal
  <2>1. CASE \/ \E name \in Names : UpdateDomainName(s, name)
             \/ RotatePassword(s)
             \/ \E ip \in Addresses \cup {NoAddress} : SetLastSource(s, ip)
    BY <1>1, <2>1 DEF UpdateDomainName, RotatePassword, SetLastSource, SetRecord
  <2>2. QED
    BY <1>2, <1>3, <1>4, <2>1 DEF Administer
<1>5. ASSUME NEW s \in Subdomains, NEW v \in Values, Later(s), Update(s, v)
      PROVE  Goal
  <2>1. UNCHANGED <<records, answered>> /\ \A t \in Subdomains \ {s} : txt'[t] = txt[t]
    BY <1>5, UpdateRows DEF Update, WindowInv, DbTypeOK
  <2>2. CASE s \in DOMAIN records
    <3>1. Ordered(s)' /\ WindowOf(s)' = <<WindowOf(s)[2], v>>
      BY <1>5, <2>2, WriteMoves
    <3>2. WindowInv'
      BY <2>1, <3>1 DEF WindowInv, Ordered, DbTypeOK, RecordsTypeOK
    <3>3. window' = [window EXCEPT ![s] = <<WindowOf(s)[2], v>>]
      BY <2>1, <3>1, WindowElsewhere
    <3>4. Window!Write(s, v)
      BY <2>1, <2>2, <3>3 DEF Window!Write, window
    <3>5. QED
      BY <3>2, <3>4 DEF Window!Next
  <2>3. CASE s \notin DOMAIN records
    <3>1. Oldest(s) = {}
      BY <2>3 DEF WindowInv, RowsBelongToRegistration, Exists, Oldest
    <3>2. QED
      BY <1>1, <1>5, <3>1 DEF Update
  <2>4. QED
    BY <2>2, <2>3
<1>6. CASE Surroundings
  BY <1>1, <1>6 DEF Surroundings, Reopen, Tick, StepBack
<1>7. CASE UNCHANGED dbVars
  BY <1>1, <1>7 DEF dbVars
<1>8. QED
  BY <1>4, <1>5, <1>6, <1>7 DEF SpacedNext

\* A registration answers with the two values written last, whatever rotations,
\* deletions, restarts and clock changes come in between.
THEOREM DatabaseImplementsWindow ==
  ASSUME InsertMayFail = FALSE
  PROVE  SpacedSpec => RollingWindow
<1>1. DbInit => WindowInv /\ Window!Init
  <2> SUFFICES ASSUME DbInit PROVE WindowInv /\ Window!Init
    OBVIOUS
  <2>1. DbTypeOK
    BY InitType
  <2>2. \A s \in Subdomains : WindowOf(s) = <<NoValue, NoValue>>
    BY DEF DbInit, WindowOf, Slots
  <2>3. QED
    BY <2>1, <2>2 DEF DbInit, WindowInv, RowsBelongToRegistration, Window!Init, Window!Empty
<1>2. /\ WindowInv /\ DbTypeOK' /\ RowsBelongToRegistration' /\ [SpacedNext]_dbVars
      => WindowInv' /\ [Window!Next]_<<DOMAIN records, window>>
  BY StepMaps
<1>3. QED
  BY <1>1, <1>2, SpacedIsDb, TypeCorrect, RowsBelong, PTL
  DEF SpacedSpec, RollingWindow, Window!Spec, window
===============================================================================
