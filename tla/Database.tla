------------------------------- MODULE Database -------------------------------
(***************************************************************************)
(* pkg/database/db.go: the tables `records` (a row per registration) and   *)
(* `txt` (the rows the DNS server answers from), with one action per       *)
(* method that writes.  Each method runs under the package's mutex and in  *)
(* one statement or transaction, so it is one step; what happens between   *)
(* two calls of one HTTP request is in module Api, which builds on this    *)
(* one.  A method that returns an error leaves both tables alone.          *)
(***************************************************************************)
EXTENDS Naturals

CONSTANTS
  Subdomains,       \* the UUIDs NewACMETxt can draw
  Values,           \* TXT values that pass validTXT
  NoValue,          \* the column default '' of txt.Value
  Names,            \* labels (DomainName)
  Addresses,        \* source addresses
  NoAddress,        \* the column default '' of records.LastIP
  AllowFroms,       \* allowfrom lists a client registers with, as address sets
  CipherKeys,       \* values of auth.credentials_key
  NoKey,            \* the key is not configured
  MaxTime,          \* bound: the clock stops here
  MaxPasswords,     \* bound: passwords generated in one behaviour
  ClockMayStepBack, \* the wall clock may be set back (time.Now().Unix())
  InsertMayFail,    \* an INSERT into txt may fail inside a transaction
  CommitMayFail     \* tx.Commit may fail

ASSUME DatabaseAssumption ==
  /\ NoValue \notin Values
  /\ NoAddress \notin Addresses
  /\ NoKey \notin CipherKeys
  /\ AllowFroms \subseteq SUBSET Addresses
  /\ MaxTime \in Nat \ {0} /\ MaxPasswords \in Nat
  /\ {ClockMayStepBack, InsertMayFail, CommitMayFail} \subseteq BOOLEAN

VARIABLES
  records,   \* table records: Subdomain -> row, a partial function
  txt,       \* table txt: for each subdomain its rows, a partial function of Slots
  now,       \* time.Now().Unix(), in seconds
  cipher,    \* the credentials key of the running process, or NoKey
  passwords, \* how many passwords GeneratePassword has answered; password n is the n-th
  answered,  \* what a caller was told of a subdomain last, and whether that was committed;
             \* a UUID never comes twice
  written    \* history: the last three successful Updates of a subdomain

dbVars == <<records, txt, now, cipher, passwords, answered, written>>

Slots == {1, 2}
Password == 1..MaxPasswords
NoPassword == 0

TxtRow == [value : Values \cup {NoValue}, lastUpdate : 0..MaxTime]
BlankRow == [value |-> NoValue, lastUpdate |-> 0]

\* crypto.go: what EncryptOrEmpty stores; the key NoKey stands for the empty string.
Encrypted == [key : CipherKeys \cup {NoKey}, plain : Password \cup {NoPassword}]

Record == [password : Password, encPassword : Encrypted, allowFrom : AllowFroms,
           domainName : Names, lastIP : Addresses \cup {NoAddress}]

Answer == [told : {"none", "registered", "deleted"}, committed : BOOLEAN]
NoAnswer == [told |-> "none", committed |-> TRUE]

History == [older : TxtRow, previous : TxtRow, newest : TxtRow]
NoHistory == [older |-> BlankRow, previous |-> BlankRow, newest |-> BlankRow]

RecordsTypeOK == /\ DOMAIN records \subseteq Subdomains
                 /\ records \in [DOMAIN records -> Record]

TxtTypeOK == /\ txt = [s \in Subdomains |-> txt[s]]
             /\ \A s \in Subdomains : /\ DOMAIN txt[s] \subseteq Slots
                                      /\ txt[s] \in [DOMAIN txt[s] -> TxtRow]

DbTypeOK == /\ RecordsTypeOK
            /\ TxtTypeOK
            /\ now \in 1..MaxTime
            /\ cipher \in CipherKeys \cup {NoKey}
            /\ passwords \in 0..MaxPasswords
            /\ answered \in [Subdomains -> Answer]
            /\ written \in [Subdomains -> History]

------------------------------------------------------------------------------
(* Credential storage *)

EncryptOrEmpty(p) ==
  [key |-> cipher, plain |-> IF cipher = NoKey THEN NoPassword ELSE p]

\* AES-GCM refuses a text another key wrote; the caller then shows nothing.
DecryptOrEmpty(e) ==
  IF cipher # NoKey /\ e.key = cipher THEN e.plain ELSE NoPassword

(* Reads *)

Exists(s) == s \in DOMAIN records

\* GetTXTForDomain: every row is returned, a row never written as ''.
Served(s) == {txt[s][i].value : i \in DOMAIN txt[s]}

\* selectDomainSQL and scanDomain: what the management UI gets to see.
ShownPassword(s) == DecryptOrEmpty(records[s].encPassword)

\* Mutant of Oldest: ORDER BY LastUpdate DESC.
Newest(s) == {i \in DOMAIN txt[s] :
                \A j \in DOMAIN txt[s] : txt[s][i].lastUpdate >= txt[s][j].lastUpdate}

\* ORDER BY LastUpdate LIMIT 1: among equal stamps SQL leaves the choice open.
Oldest(s) == {i \in DOMAIN txt[s] :
                \A j \in DOMAIN txt[s] : txt[s][i].lastUpdate <= txt[s][j].lastUpdate}

------------------------------------------------------------------------------
(* Writes *)

DbInit ==
  /\ records = [s \in {} |-> {}]
  /\ txt = [s \in Subdomains |-> [i \in {} |-> BlankRow]]
  /\ now = 1
  /\ cipher \in CipherKeys \cup {NoKey}
  /\ passwords = 0
  /\ answered = [s \in Subdomains |-> NoAnswer]
  /\ written = [s \in Subdomains |-> NoHistory]

\* Mutant of NewRecord: the hash of a password that was not answered yet.
RecordWithoutPassword(allow, name) ==
  [password |-> passwords, encPassword |-> EncryptOrEmpty(passwords + 1),
   allowFrom |-> allow, domainName |-> name, lastIP |-> NoAddress]

NewRecord(allow, name) ==
  [password |-> passwords + 1, encPassword |-> EncryptOrEmpty(passwords + 1),
   allowFrom |-> allow, domainName |-> name, lastIP |-> NoAddress]

\* Mutant of InsertedRows: a single INSERT.
OneInsertedRow == {{1}}

\* NewTXTValuesInTransaction drops the errors of its two INSERTs.
InsertedRows == IF InsertMayFail THEN SUBSET Slots ELSE {Slots}

\* What the caller of s is told.
Tell(s, told, committed) ==
  answered' = [answered EXCEPT ![s] = [told |-> told, committed |-> committed]]

\* RegisterWithName answers with the registration whether or not the deferred
\* Commit succeeds.
RegisterWithName(s, allow, name) ==
  /\ answered[s].told = "none"
  /\ passwords < MaxPasswords /\ passwords' = passwords + 1
  /\ \/ /\ records' = [t \in DOMAIN records \cup {s} |->
                         IF t = s THEN NewRecord(allow, name) ELSE records[t]]
        /\ \E rows \in InsertedRows : txt' = [txt EXCEPT ![s] = [i \in rows |-> BlankRow]]
        /\ Tell(s, "registered", TRUE)
     \/ CommitMayFail /\ UNCHANGED <<records, txt>> /\ Tell(s, "registered", FALSE)
  /\ written' = [written EXCEPT ![s] = NoHistory]
  /\ UNCHANGED <<now, cipher>>

\* Mutant of Update: a missing row is inserted.
Upsert(s, v) ==
  LET row == [value |-> v, lastUpdate |-> now]
  IN /\ IF Oldest(s) = {} THEN txt' = [txt EXCEPT ![s] = [i \in {1} |-> row]]
        ELSE \E i \in Oldest(s) : txt' = [txt EXCEPT ![s][i] = row]
     /\ UNCHANGED <<records, now, cipher, passwords, answered, written>>

\* Update answers without an error even when no row matched.
Update(s, v) ==
  LET row == [value |-> v, lastUpdate |-> now]
  IN /\ IF Oldest(s) = {} THEN UNCHANGED txt
        ELSE \E i \in Oldest(s) : txt' = [txt EXCEPT ![s][i] = row]
     /\ written' = [written EXCEPT ![s] = [older |-> @.previous, previous |-> @.newest,
                                           newest |-> row]]
     /\ UNCHANGED <<records, now, cipher, passwords, answered>>

SetRecord(s, r) == records' = [records EXCEPT ![s] = r]

UpdateDomainName(s, name) ==
  /\ Exists(s)
  /\ SetRecord(s, [records[s] EXCEPT !.domainName = name])
  /\ UNCHANGED <<txt, now, cipher, passwords, answered, written>>

\* Mutant of RotatePassword: without a key the recoverable copy is left as it is.
RotateHashOnly(s) ==
  /\ Exists(s)
  /\ passwords < MaxPasswords /\ passwords' = passwords + 1
  /\ SetRecord(s, [records[s] EXCEPT
                     !.password = passwords + 1,
                     !.encPassword = IF cipher = NoKey THEN @ ELSE EncryptOrEmpty(passwords + 1)])
  /\ UNCHANGED <<txt, now, cipher, answered, written>>

\* The hash and the recoverable copy change in one statement.
RotatePassword(s) ==
  /\ Exists(s)
  /\ passwords < MaxPasswords /\ passwords' = passwords + 1
  /\ SetRecord(s, [records[s] EXCEPT !.password = passwords + 1,
                                     !.encPassword = EncryptOrEmpty(passwords + 1)])
  /\ UNCHANGED <<txt, now, cipher, answered, written>>

\* Mutant of DeleteDomain: one of the two DELETEs is missing.
DeleteTxtOnly(s) ==
  /\ Exists(s)
  /\ txt' = [txt EXCEPT ![s] = [i \in {} |-> BlankRow]]
  /\ Tell(s, "deleted", TRUE)
  /\ UNCHANGED <<records, now, cipher, passwords, written>>

\* Mutant of DeleteDomain: the TXT rows stay.
DeleteRecordOnly(s) ==
  /\ Exists(s)
  /\ records' = [t \in DOMAIN records \ {s} |-> records[t]]
  /\ Tell(s, "deleted", TRUE)
  /\ UNCHANGED <<txt, now, cipher, passwords, written>>

\* The caller is told the row is gone whether or not the Commit succeeds.
DeleteDomain(s) ==
  /\ Exists(s)
  /\ \/ /\ records' = [t \in DOMAIN records \ {s} |-> records[t]]
        /\ txt' = [txt EXCEPT ![s] = [i \in {} |-> BlankRow]]
        /\ Tell(s, "deleted", TRUE)
     \/ CommitMayFail /\ UNCHANGED <<records, txt>> /\ Tell(s, "deleted", FALSE)
  /\ UNCHANGED <<now, cipher, passwords, written>>

\* Without an address there is nothing to record; without a row nothing matches.
SetLastSource(s, ip) ==
  /\ IF ip # NoAddress /\ Exists(s)
     THEN SetRecord(s, [records[s] EXCEPT !.lastIP = ip])
     ELSE UNCHANGED records
  /\ UNCHANGED <<txt, now, cipher, passwords, answered, written>>

\* A new process opens the same tables, perhaps with another credentials key.
Reopen == /\ cipher' \in CipherKeys \cup {NoKey}
          /\ UNCHANGED <<records, txt, now, passwords, answered, written>>

Tick == /\ now < MaxTime /\ now' = now + 1
        /\ UNCHANGED <<records, txt, cipher, passwords, answered, written>>

StepBack == /\ ClockMayStepBack /\ now' \in 1..(now - 1)
            /\ UNCHANGED <<records, txt, cipher, passwords, answered, written>>

Administer(s) ==
  \/ \E allow \in AllowFroms, name \in Names : RegisterWithName(s, allow, name)
  \/ \E name \in Names : UpdateDomainName(s, name)
  \/ RotatePassword(s)
  \/ DeleteDomain(s)
  \/ \E ip \in Addresses \cup {NoAddress} : SetLastSource(s, ip)

Surroundings == Reopen \/ Tick \/ StepBack

DbNext == \/ \E s \in Subdomains : Administer(s) \/ \E v \in Values : Update(s, v)
          \/ Surroundings

DbSpec == DbInit /\ [][DbNext]_dbVars

\* The environment the two slots were designed for: an update of a registration
\* comes in a later second than the rows it finds.
Later(s) == \A i \in DOMAIN txt[s] : txt[s][i].lastUpdate < now

SpacedNext ==
  \/ \E s \in Subdomains : Administer(s) \/ \E v \in Values : Later(s) /\ Update(s, v)
  \/ Surroundings

SpacedSpec == DbInit /\ [][SpacedNext]_dbVars

------------------------------------------------------------------------------
(* Properties *)

\* The two tables agree: TXT rows belong to a registration, so what DeleteDomain
\* removed is never answered again and no Update brings it back (db.go:692).
RowsBelongToRegistration ==
  \A s \in Subdomains : DOMAIN txt[s] # {} => Exists(s)

\* NewTXTValuesInTransaction "creates two rows for subdomain" (db.go:373):
\* without both, Update reports success and nothing, or one value only, is served.
RegistrationHasTwoRows == \A s \in DOMAIN records : DOMAIN txt[s] = Slots

\* Across rotations and restarts with and without a credentials key, a password
\* the management UI shows is the one the client API accepts.
ShownPasswordAuthenticates ==
  \A s \in DOMAIN records :
    ShownPassword(s) # NoPassword => ShownPassword(s) = records[s].password

HasRow(s, row) == \E i \in DOMAIN txt[s] : txt[s][i] = row

\* The value written last is served until the registration goes or is written again.
NewestServed == \A s \in DOMAIN records : HasRow(s, written[s].newest)

\* README.md "Rolling update of two TXT records": the last two values are both
\* served.  It does not hold when several updates fall into one second.
LastTwoServed == \A s \in DOMAIN records :
                   {written[s].previous.value, written[s].newest.value} \subseteq Served(s)

\* What does hold of the two rows while the clock never steps back: a value that
\* was the first of its second survives the next write, so both are served.
FirstOfItsSecondSurvives ==
  \A s \in DOMAIN records :
    written[s].older.lastUpdate < written[s].previous.lastUpdate =>
      \E i, j \in DOMAIN txt[s] : /\ i # j
                                  /\ txt[s][i] = written[s].previous
                                  /\ txt[s][j] = written[s].newest

\* Under SpacedSpec the rows, read in the order of their stamps, are the window
\* of the last two values: Database implements TxtWindow.
WindowOf(s) ==
  IF DOMAIN txt[s] # Slots THEN <<NoValue, NoValue>>
  ELSE IF txt[s][1].lastUpdate <= txt[s][2].lastUpdate
       THEN <<txt[s][1].value, txt[s][2].value>>
       ELSE <<txt[s][2].value, txt[s][1].value>>

Window == INSTANCE TxtWindow WITH open <- DOMAIN records,
                                  window <- [s \in Subdomains |-> WindowOf(s)]

RollingWindow == Window!Spec
==============================================================================
