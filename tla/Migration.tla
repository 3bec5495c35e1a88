------------------------------ MODULE Migration ------------------------------
(***************************************************************************)
(* pkg/database/db.go, Init: opening a database of any earlier version and *)
(* bringing its schema up to DBVersion, one transaction per version, while *)
(* the process may stop between any two of them.  main only logs an error  *)
(* of Init and serves whatever database there is.                          *)
(***************************************************************************)
EXTENDS Naturals, FiniteSets

CONSTANTS
  Subdomains,      \* registrations
  MaxCrashes,      \* bound: stops of the process
  CreateMayFail,   \* a CREATE TABLE may fail; Init drops the error
  InsertMayFail,   \* an INSERT into txt may fail; the error is dropped
  DeleteMayFail,   \* the DELETE FROM txt of the first upgrade may fail; the error is dropped
  StatementMayFail,\* any other statement of Init may fail; Init returns the error
  CommitMayFail,   \* tx.Commit may fail; the error is dropped
  ReadMayFail      \* the SELECT of db_version may fail; the error is dropped

\* What the constants are; MCServices assumes it of its instance.
MigrationAssumption ==
  /\ MaxCrashes \in Nat
  /\ {CreateMayFail, InsertMayFail, DeleteMayFail, StatementMayFail, CommitMayFail, ReadMayFail}
       \subseteq BOOLEAN

DBVersion == 4

VARIABLES
  tables,   \* the tables there are
  columns,  \* the columns of records, as the versions that added them
  versions, \* the rows db_version of acmedns, as a set of values
  records,  \* the registrations in table records
  txt,      \* their rows in table txt: how many, and whether one holds a value
  pc,       \* where the process is
  version,  \* its local copy of the version
  unknown,  \* whether it read no version (versionString == "0")
  crashes,  \* bound
  misread,  \* history: the read of db_version failed at this start
  startFailed \* history: a start ended in an error, and the process served on

disk == <<tables, columns, versions, records, txt>>
vars == <<disk, pc, version, unknown, crashes, misread, startFailed>>

AllTables == {"acmedns", "records", "txt"}
Added == 2..DBVersion
Rows == [count : Nat, value : BOOLEAN]
NoRows == [count |-> 0, value |-> FALSE]
TwoRows == [count |-> 2, value |-> FALSE]

TypeOK == /\ tables \subseteq AllTables
          /\ columns \subseteq Added
          /\ versions \subseteq 0..DBVersion
          /\ records \subseteq Subdomains
          /\ txt \in [Subdomains -> Rows]
          /\ pc \in {"off", "create", "upgrade", "insert", "serving", "failed"}
          /\ version \in 0..DBVersion
          /\ unknown \in BOOLEAN
          /\ crashes \in 0..MaxCrashes
          /\ {misread, startFailed} \subseteq BOOLEAN

\* What an acme-dns of version v leaves behind.  Version 0 kept the values in
\* records, had no table txt and wrote no version; "new" is an empty database.
Fresh == /\ tables = {} /\ columns = {} /\ versions = {} /\ records = {}
         /\ txt = [s \in Subdomains |-> NoRows]

LeftBy(v) == /\ tables = IF v = 0 THEN {"acmedns", "records"} ELSE AllTables
             /\ columns = 2..v
             /\ versions = IF v = 0 THEN {} ELSE {v}
             /\ records = Subdomains
             /\ IF v = 0 THEN txt = [s \in Subdomains |-> NoRows]
                ELSE txt \in [Subdomains -> [count : {2}, value : BOOLEAN]]

Init == /\ Fresh \/ \E v \in 0..DBVersion : LeftBy(v)
        /\ pc = "off" /\ version = 0 /\ unknown = FALSE /\ crashes = 0
        /\ misread = FALSE /\ startFailed = FALSE

------------------------------------------------------------------------------
\* Mutant of ReadVersion: any outdated database starts from 0.
ReadOutdated == IF versions = {} THEN {0} ELSE {IF v = DBVersion THEN v ELSE 0 : v \in versions}

\* Of several rows SQL may answer with any; no table or no row reads as "".
ReadVersion == IF versions = {} THEN {0} ELSE versions

Open ==
  /\ pc = "off"
  /\ \/ version' \in ReadVersion /\ unknown' = (versions = {}) /\ misread' = FALSE
     \/ ReadMayFail /\ version' = 0 /\ unknown' = TRUE /\ misread' = TRUE
  /\ pc' = "create"
  /\ UNCHANGED <<disk, crashes, startFailed>>

\* CREATE TABLE IF NOT EXISTS of the tables tried; a new records has every column.
Create(tried) ==
  \E made \in SUBSET tried :
    /\ CreateMayFail \/ made = tried
    /\ tables' = tables \cup made
    /\ columns' = IF "records" \in made \ tables THEN Added ELSE columns

CreateTables ==
  /\ pc = "create"
  /\ Create(AllTables)
  /\ pc' = "upgrade"
  /\ UNCHANGED <<versions, records, txt, version, unknown, crashes, misread, startFailed>>

\* Mutant of Recorded: the version that comes next.
RecordedNext(v) == IF versions = {} THEN {} ELSE {v + 1}

\* UPDATE acmedns SET Value=v WHERE Name='db_version'
Recorded(v) == IF versions = {} THEN {} ELSE {v}

\* Mutant of Inserted: the two INSERTs of handleDBUpgradeTo1 are one.
OnceInserted == {[count |-> 1, value |-> FALSE]}

\* NewTXTValuesInTransaction
Inserted == IF "txt" \notin tables THEN {NoRows}
            ELSE IF InsertMayFail THEN {[count |-> n, value |-> FALSE] : n \in 0..2}
            ELSE {TwoRows}

\* What DELETE FROM txt leaves.
Emptied == {[s \in Subdomains |-> NoRows]} \cup IF DeleteMayFail THEN {txt} ELSE {}

\* handleDBUpgradeTo1: DELETE FROM txt, then two rows for each registration.
UpgradeTo1 ==
  /\ pc = "upgrade" /\ version = 0 /\ {"records", "acmedns"} \subseteq tables
  /\ version' = 1
  /\ \/ /\ \E left \in Emptied, rows \in [Subdomains -> Inserted \cup {NoRows}] :
             /\ \A s \in Subdomains : rows[s] \in IF s \in records THEN Inserted ELSE {NoRows}
             /\ txt' = [s \in Subdomains |-> [left[s] EXCEPT !.count = @ + rows[s].count]]
        /\ versions' = Recorded(1)
     \/ CommitMayFail /\ UNCHANGED <<txt, versions>>
  /\ UNCHANGED <<tables, columns, records, pc, unknown, crashes, misread, startFailed>>

\* Mutant of AddColumns: the version is recorded outside the transaction, first.
VersionFirst(v) ==
  /\ pc = "upgrade" /\ version = v - 1 /\ {"records", "acmedns"} \subseteq tables
  /\ IF v \in versions \/ versions = {}
     THEN columns' = columns \cup {v} /\ version' = v /\ UNCHANGED versions
     ELSE versions' = Recorded(v) /\ UNCHANGED <<columns, version>>
  /\ UNCHANGED <<tables, records, txt, pc, unknown, crashes, misread, startFailed>>

\* handleDBUpgradeTo2, To3 and To4, through addColumns; a column that is there
\* already is left alone.
AddColumns(v) ==
  /\ pc = "upgrade" /\ version = v - 1 /\ {"records", "acmedns"} \subseteq tables
  /\ version' = v
  /\ \/ columns' = columns \cup {v} /\ versions' = Recorded(v)
     \/ CommitMayFail /\ UNCHANGED <<columns, versions>>
  /\ UNCHANGED <<tables, records, txt, pc, unknown, crashes, misread, startFailed>>

\* Init returns an error, and main logs it and serves.
Fail == pc' = "failed" /\ startFailed' = TRUE

\* A table is missing or a statement fails: the transaction is rolled back.
UpgradeFails ==
  /\ pc = "upgrade" /\ version < DBVersion
  /\ StatementMayFail \/ ~({"records", "acmedns"} \subseteq tables)
  /\ Fail
  /\ UNCHANGED <<disk, version, unknown, crashes, misread>>

\* Mutant of UpgradeDone: a new database gets no version row.
DoneWithoutInsert ==
  /\ pc = "upgrade" /\ version = DBVersion
  /\ pc' = "serving"
  /\ UNCHANGED <<disk, version, unknown, crashes, misread, startFailed>>

UpgradeDone ==
  /\ pc = "upgrade" /\ version = DBVersion
  /\ pc' = IF unknown THEN "insert" ELSE "serving"
  /\ UNCHANGED <<disk, version, unknown, crashes, misread, startFailed>>

\* A database whose version could not be read gets a row with the current one.
InsertVersion ==
  /\ pc = "insert"
  /\ \/ /\ "acmedns" \in tables /\ versions' = versions \cup {DBVersion}
        /\ pc' = "serving" /\ UNCHANGED startFailed
     \/ /\ StatementMayFail \/ "acmedns" \notin tables
        /\ Fail /\ UNCHANGED versions
  /\ UNCHANGED <<tables, columns, records, txt, version, unknown, crashes, misread>>

Up == pc \in {"serving", "failed"}

\* RegisterWithName names the columns of versions 2 and 3.
Register(s) ==
  /\ Up /\ "records" \in tables /\ {2, 3} \subseteq columns
  /\ s \notin records /\ records' = records \cup {s}
  /\ \E rows \in Inserted : txt' = [txt EXCEPT ![s] = rows]
  /\ UNCHANGED <<tables, columns, versions, pc, version, unknown, crashes, misread, startFailed>>

Update(s) ==
  /\ Up /\ txt[s].count > 0
  /\ txt' = [txt EXCEPT ![s].value = TRUE]
  /\ UNCHANGED <<tables, columns, versions, records, pc, version, unknown, crashes, misread, startFailed>>

\* The process stops, in Init or later, also between two CREATEs; what is committed stays.
Stop == /\ pc # "off" /\ crashes < MaxCrashes
        /\ pc' = "off" /\ crashes' = crashes + 1
        /\ \/ UNCHANGED <<tables, columns>>
           \/ pc = "create" /\ (Create({"acmedns"}) \/ Create({"acmedns", "records"}))
        /\ UNCHANGED <<versions, records, txt, version, unknown, misread, startFailed>>

Start == \/ Open \/ CreateTables \/ UpgradeTo1 \/ (\E v \in Added : AddColumns(v))
         \/ UpgradeFails \/ UpgradeDone \/ InsertVersion

Next == Start \/ (\E s \in Subdomains : Register(s) \/ Update(s)) \/ Stop

\* The service manager restarts the process when it failed (acme-dns.service), and Init runs
\* on in its own time.
Spec == Init /\ [][Next]_vars /\ WF_vars(Start)

------------------------------------------------------------------------------
(* Properties *)

\* addColumns "applies additive schema changes and records the new version"
\* (db.go:261): a recorded version means that its columns and all earlier ones
\* are there, wherever the process stopped.  It does not hold when a commit fails:
\* the error is dropped (db.go:277) and the next upgrade records its version.
RecordedVersionIsReached == \A v \in versions : 2..v \subseteq columns

\* Once upgraded, a registration has the two rows its updates need, wherever the
\* process stopped in between (db.go:317-371).
UpgradedHaveRows == versions # {} => \A s \in records : txt[s].count = 2

\* Served values outlast restarts, but for two cases in which the first upgrade empties
\* table txt under them, as the errors of Init are dropped or only logged (db.go:143,
\* main.go:57-59): the version could not be read at this start, or it was never recorded,
\* since an earlier start ended in an error and the process served nevertheless.
ValuesSurvive ==
  \A s \in Subdomains :
    txt[s].value /\ ~txt'[s].value => misread \/ (versions = {} /\ startFailed)
ValuesSurviveRestarts == [][ValuesSurvive]_vars

\* A start of the server that reported no error found or made the current schema.
ServingIsCurrent == pc = "serving" => versions = {DBVersion} /\ columns = Added

\* However often the process stops on the way, in the end the database is current,
\* unless a statement of the last start failed, which main only logs (main.go:57-59).
Settled == \/ versions = {DBVersion} /\ columns = Added /\ pc = "serving"
           \/ pc = "failed"
EventuallyCurrent == <>[]Settled
==============================================================================
