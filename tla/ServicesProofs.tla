---------------------------- MODULE ServicesProofs ----------------------------
(***************************************************************************)
(* What the parts of the server promise, for every value of the constants. *)
(* SessionsProofs and ServerProofs hold the proofs about their parts; those *)
(* about the other parts are here.                                         *)
(***************************************************************************)
EXTENDS Services, FiniteSetTheorems, TLAPS

------------------------------------------------------------------------------
(* A step of the whole is a step of the part that unit names *)

LEMMA OneUnit == ASSUME [Next]_vars PROVE unit' = unit
BY DEF Next, LogIn, Call, CheckDns, LookUpHosts, RunMatch, Migrate, Serve, Rest, vars,
       NotSessions, NotLock, NotCheck, NotHosts, NotMatch, NotMigration, NotServer

LEMMA SessionsStep ==
  ASSUME [Next]_vars, unit = "sessions" PROVE [Sessions!Next]_(Sessions!vars)
BY DEF Next, LogIn, Call, CheckDns, LookUpHosts, RunMatch, Migrate, Serve, Rest, vars,
       ofSessions, Sessions!vars

LEMMA LockStep ==
  ASSUME [Next]_vars, unit = "lock" PROVE [Lock!Next]_(Lock!vars)
BY DEF Next, LogIn, Call, CheckDns, LookUpHosts, RunMatch, Migrate, Serve, Rest, vars,
       ofLock, Lock!vars

LEMMA CheckStep ==
  ASSUME [Next]_vars, unit = "check" PROVE [Check!Next]_(Check!vars)
BY DEF Next, LogIn, Call, CheckDns, LookUpHosts, RunMatch, Migrate, Serve, Rest, vars,
       ofCheck, Check!vars

LEMMA HostsStep ==
  ASSUME [Next]_vars, unit = "hosts" PROVE [Hosts!Next]_(Hosts!vars)
BY DEF Next, LogIn, Call, CheckDns, LookUpHosts, RunMatch, Migrate, Serve, Rest, vars,
       ofHosts, Hosts!vars

LEMMA MatchStep ==
  ASSUME [Next]_vars, unit = "match" PROVE [Match!Next]_(Match!vars)
BY DEF Next, LogIn, Call, CheckDns, LookUpHosts, RunMatch, Migrate, Serve, Rest, vars,
       ofMatch, ofDatabase, Match!vars, Match!dbVars, Match!matchVars

LEMMA MigrationStep ==
  ASSUME [Next]_vars, unit = "migration" PROVE [Migration!Next]_(Migration!vars)
BY DEF Next, LogIn, Call, CheckDns, LookUpHosts, RunMatch, Migrate, Serve, Rest, vars,
       ofMigration, ofDatabase, Migration!vars, Migration!disk

LEMMA ServerStep ==
  ASSUME [Next]_vars, unit = "server" PROVE [Server!Next]_(Server!vars)
BY DEF Next, LogIn, Call, CheckDns, LookUpHosts, RunMatch, Migrate, Serve, Rest, vars,
       ofServer, Server!vars

------------------------------------------------------------------------------
(* Logins *)

LEMMA SessionsHolds == Spec => [](unit = "sessions" => Sessions!GuessesInv)
<1>1. Init => (unit = "sessions" => Sessions!GuessesInv)
  BY InstancesAreSound, Sessions!InitGuesses DEF Init
<1>2. ASSUME unit = "sessions" => Sessions!GuessesInv, [Next]_vars
      PROVE  (unit = "sessions" => Sessions!GuessesInv)'
  BY <1>2, OneUnit, SessionsStep, InstancesAreSound, Sessions!GuessesInvKept
<1>3. QED
  BY <1>1, <1>2, PTL DEF Spec

\* However logins interleave between the check of the lock and the count of a failure,
\* an address tries no more passwords than the limit and the logins that can be past the
\* check at a time allow (adminauth.go, LockedOut, RecordFailure, webAdminLogin).
THEOREM GuessesAreBounded == Spec => []GuessesBounded
<1>1. (unit = "sessions" => Sessions!GuessesInv) => GuessesBounded
  BY InstancesAreSound, Sessions!GuessesFollow DEF GuessesBounded
<1>2. QED
  BY <1>1, SessionsHolds, PTL

\* A lock that runs is lifted by a login of its own address or a restart only, and a
\* session ends by its own logout, its time or a restart: the pruning in Issue, at the
\* login of somebody else, ends neither (adminauth.go, pruneLocked).
THEOREM NothingEndsEarly == Spec => LocksAndSessionsHold
<1>1. ASSUME unit = "sessions" => Sessions!GuessesInv, [Next]_vars
      PROVE  [unit = "sessions" => Sessions!LocksHold /\ Sessions!SessionsHold]_vars
  <2>1. SUFFICES ASSUME unit = "sessions", Sessions!Next
                 PROVE  Sessions!LocksHold /\ Sessions!SessionsHold
    BY <1>1, SessionsStep DEF Next, LogIn, Call, CheckDns, LookUpHosts, RunMatch, Migrate, Serve,
                              Rest
  <2>2. Sessions!TypeOK
    BY <1>1, <2>1 DEF Sessions!GuessesInv
  <2>3. QED
    BY <2>1, <2>2, InstancesAreSound, Sessions!StepEndsNothing
<1>2. QED
  BY <1>1, SessionsHolds, PTL DEF Spec, LocksAndSessionsHold

------------------------------------------------------------------------------
(* Starting and the own certificate *)

LEMMA ServerHolds == Spec => [](unit = "server" => Server!ServerInv)
<1>1. Init => (unit = "server" => Server!ServerInv)
  BY InstancesAreSound, Server!InitServer DEF Init
<1>2. ASSUME unit = "server" => Server!ServerInv, [Next]_vars
      PROVE  (unit = "server" => Server!ServerInv)'
  BY <1>2, OneUnit, ServerStep, InstancesAreSound, Server!ServerInvKept
<1>3. QED
  BY <1>1, <1>2, PTL DEF Spec

\* The API, which orders certificates, starts only after every DNS server has listened,
\* and while an order is presented every query for the own challenge is answered with its
\* key, whichever server's handler answers (initialize.go, main.go, challengeprovider.go).
THEOREM ChallengeIsAnswered == Spec => []OwnChallengeAnswered
<1>1. (unit = "server" => Server!ServerInv) => OwnChallengeAnswered
  BY Server!ServerFollows DEF OwnChallengeAnswered
<1>2. QED
  BY <1>1, ServerHolds, PTL

------------------------------------------------------------------------------
(* Schema upgrades *)

\* The process is somewhere in Init, after it has read the version.
InInit == pc \in {"create", "upgrade", "insert"}

\* ValuesSurvive is not inductive: it takes a version of 0 to mean that none was read,
\* which in turn means that there is none or that the read failed, the rows of what is not
\* registered to be empty, and a database without a version to have served after a start
\* that failed only, and so to have no values before one.
SurvivalInv ==
  /\ Migration!TypeOK
  /\ 0 \notin versions
  /\ InInit /\ version = 0 => unknown
  /\ pc \in {"create", "upgrade"} /\ unknown => versions = {} \/ misread
  /\ \A s \in Subdomains \ records : txt[s] = Migration!NoRows
  /\ InInit /\ versions = {} => unknown
  /\ pc = "serving" => versions # {}
  /\ pc = "failed" => startFailed
  /\ versions = {} /\ ~startFailed => \A s \in Subdomains : ~txt[s].value

\* RecordedVersionIsReached is not inductive: the version in memory has to be reached as
\* well, and to be the one that is recorded, if any is.
ReachedInv ==
  /\ SurvivalInv
  /\ Migration!RecordedVersionIsReached /\ Migration!ServingIsCurrent
  /\ \A v, w \in versions : v = w
  /\ InInit /\ version # 0 => versions \subseteq {version} /\ 2..version \subseteq columns
  /\ pc = "insert" => version = Migration!DBVersion

\* UpgradedHaveRows needs the tables to be there and the rows to be made as soon as the
\* version in memory says so.
RowsInv ==
  /\ ReachedInv
  /\ Migration!UpgradedHaveRows
  /\ pc \notin {"off", "create"} => tables = Migration!AllTables
  /\ InInit /\ version # 0 => \A s \in records : txt[s].count = 2

LEMMA InsertedRows ==
  Migration!NoRows \in Migration!Rows /\ Migration!Inserted \subseteq Migration!Rows
<1>1. \A k \in 0..2 : [count |-> k, value |-> FALSE] \in Migration!Rows
  BY DEF Migration!Rows
<1>2. ASSUME NEW r \in Migration!Inserted
      PROVE  \E k \in 0..2 : r = [count |-> k, value |-> FALSE]
  BY DEF Migration!Inserted, Migration!NoRows, Migration!TwoRows
<1>3. Migration!NoRows \in Migration!Rows
  BY <1>1 DEF Migration!NoRows
<1>4. QED
  BY <1>1, <1>2, <1>3

\* What the statements CREATE TABLE leave, as many as were tried.
LEMMA Created ==
  ASSUME NEW tried \in SUBSET Migration!AllTables, Migration!Create(tried),
         tables \subseteq Migration!AllTables, columns \subseteq Migration!Added
  PROVE  /\ tables' \subseteq Migration!AllTables /\ columns' \subseteq Migration!Added
         /\ columns \subseteq columns'
         /\ CreateMayFail \/ tables' = tables \cup tried
BY DEF Migration!Create

\* The first upgrade adds rows without values, to those it could not delete.
LEMMA UpgradedRows ==
  ASSUME txt \in [Subdomains -> Migration!Rows], Migration!UpgradeTo1,
         \A s \in Subdomains \ records : txt[s] = Migration!NoRows
  PROVE  /\ txt' \in [Subdomains -> Migration!Rows]
         /\ \A s \in Subdomains \ records : txt'[s] = Migration!NoRows
         /\ \A s \in Subdomains : txt'[s].value => txt[s].value
<1>1. CASE txt' = txt
  BY <1>1
<1>2. ASSUME NEW old \in Migration!Emptied, NEW new \in [Subdomains -> Migration!Inserted \cup {Migration!NoRows}],
             \A s \in Subdomains : new[s] \in IF s \in records THEN Migration!Inserted ELSE {Migration!NoRows},
             txt' = [s \in Subdomains |-> [old[s] EXCEPT !.count = @ + new[s].count]]
      PROVE  /\ txt' \in [Subdomains -> Migration!Rows]
             /\ \A s \in Subdomains \ records : txt'[s] = Migration!NoRows
             /\ \A s \in Subdomains : txt'[s].value => txt[s].value
  <2>1. \A s \in Subdomains : /\ old[s] \in Migration!Rows /\ (old[s].value => txt[s].value)
                              /\ s \notin records => old[s] = Migration!NoRows
    <3>1. CASE old = [s \in Subdomains |-> Migration!NoRows]
      <4>1. \A s \in Subdomains : old[s] = Migration!NoRows
        BY <3>1
      <4>2. Migration!NoRows.value = FALSE
        BY DEF Migration!NoRows
      <4>3. QED
        BY <4>1, <4>2, InsertedRows
    <3>2. CASE old = txt
      BY <3>2
    <3>3. QED
      BY <3>1, <3>2 DEF Migration!Emptied
  <2>2. \A s \in Subdomains : new[s] \in Migration!Rows
    BY <1>2, InsertedRows
  <2>3. ASSUME NEW s \in Subdomains
        PROVE  /\ txt'[s] \in Migration!Rows /\ (txt'[s].value => txt[s].value)
               /\ s \notin records => txt'[s] = Migration!NoRows
    <3>1. txt'[s] = [old[s] EXCEPT !.count = @ + new[s].count]
      BY <1>2
    <3>2. old[s] \in Migration!Rows /\ new[s] \in Migration!Rows
      BY <2>1, <2>2
    <3>3. txt'[s] = [count |-> old[s].count + new[s].count, value |-> old[s].value]
      BY <3>1, <3>2 DEF Migration!Rows
    <3>4. old[s].count + new[s].count \in Nat /\ old[s].value \in BOOLEAN
      BY <3>2 DEF Migration!Rows
    <3>5. s \notin records => old[s].count + new[s].count = 0 /\ old[s].value = FALSE
      BY <1>2, <2>1 DEF Migration!NoRows
    <3>6. QED
      BY <2>1, <3>3, <3>4, <3>5 DEF Migration!Rows, Migration!NoRows
  <2>4. txt' = [s \in Subdomains |-> txt'[s]]
    BY <1>2
  <2>5. QED
    BY <2>3, <2>4
<1>3. QED
  BY <1>1, <1>2 DEF Migration!UpgradeTo1

LEMMA InitMigration == ASSUME Migration!MigrationAssumption, Migration!Init PROVE RowsInv
<1> USE DEF Migration!Init, Migration!DBVersion
<1>a. pc \in {"off", "create", "upgrade", "insert", "serving", "failed"} /\ version \in 0..4
  OBVIOUS
<1>b. unknown \in BOOLEAN /\ {misread, startFailed} \subseteq BOOLEAN
  OBVIOUS
<1>c. crashes \in 0..MaxCrashes
  BY DEF Migration!MigrationAssumption
<1>0. /\ pc \in {"off", "create", "upgrade", "insert", "serving", "failed"} /\ version \in 0..4
      /\ unknown \in BOOLEAN /\ {misread, startFailed} \subseteq BOOLEAN /\ crashes \in 0..MaxCrashes
  BY <1>a, <1>b, <1>c
<1>1. CASE Migration!Fresh
  <2>1. Migration!TypeOK
    BY <1>0, <1>1, InsertedRows DEF Migration!Fresh, Migration!TypeOK
  <2>2. SurvivalInv
    BY <1>1, <2>1 DEF Migration!Fresh, SurvivalInv, InInit, Migration!NoRows
  <2>3. ReachedInv
    BY <1>1, <2>2 DEF Migration!Fresh, ReachedInv, InInit,
       Migration!RecordedVersionIsReached, Migration!ServingIsCurrent
  <2>4. Migration!UpgradedHaveRows
    BY <1>1 DEF Migration!Fresh, Migration!UpgradedHaveRows
  <2>5. QED
    BY <2>3, <2>4 DEF RowsInv, InInit
<1>2. ASSUME NEW v \in 0..4, Migration!LeftBy(v) PROVE RowsInv
  <2>1. tables \subseteq Migration!AllTables /\ columns \subseteq Migration!Added
    BY <1>2 DEF Migration!LeftBy, Migration!AllTables, Migration!Added
  <2>a. versions \subseteq 0..4
    BY <1>2 DEF Migration!LeftBy
  <2>b. txt \in [Subdomains -> Migration!Rows]
    <3>1. [count : {2}, value : BOOLEAN] \subseteq Migration!Rows
      BY DEF Migration!Rows
    <3>2. QED
      BY <1>2, <3>1, InsertedRows DEF Migration!LeftBy
  <2>c. Migration!TypeOK
    BY <1>0, <1>2, <2>1, <2>a, <2>b DEF Migration!LeftBy, Migration!TypeOK
  <2>2. SurvivalInv
    BY <1>2, <2>c DEF Migration!LeftBy, SurvivalInv, InInit, Migration!NoRows
  <2>3. ReachedInv
    BY <1>2, <2>2 DEF Migration!LeftBy, ReachedInv, InInit,
       Migration!RecordedVersionIsReached, Migration!ServingIsCurrent
  <2>4. Migration!UpgradedHaveRows
    BY <1>2 DEF Migration!LeftBy, Migration!UpgradedHaveRows
  <2>5. QED
    BY <2>3, <2>4 DEF RowsInv, InInit
<1>3. QED
  BY <1>1, <1>2

\* What a step may do to the recorded version.
LEMMA VersionsMove ==
  ASSUME Migration!Next
  PROVE  \/ versions' = versions
         \/ \E v \in 1..4 : versions' = Migration!Recorded(v)
         \/ versions' = versions \cup {4}
BY DEF Migration!Next, Migration!Start, Migration!Open, Migration!CreateTables,
       Migration!UpgradeTo1,
   Migration!AddColumns, Migration!UpgradeFails, Migration!UpgradeDone, Migration!InsertVersion,
   Migration!Register, Migration!Update, Migration!Stop, Migration!disk, Migration!DBVersion,
          Migration!Added

LEMMA VersionsTyped ==
  ASSUME versions \subseteq 1..4, Migration!Next PROVE versions' \subseteq 1..4
<1>1. CASE versions' = versions
  BY <1>1
<1>2. CASE versions' = versions \cup {4}
  BY <1>2
<1>3. ASSUME NEW v \in 1..4, versions' = Migration!Recorded(v) PROVE versions' \subseteq 1..4
  BY <1>3 DEF Migration!Recorded
<1>4. QED
  BY <1>1, <1>2, <1>3, VersionsMove

LEMMA SurvivalKept ==
  ASSUME Migration!MigrationAssumption, SurvivalInv, [Migration!Next]_(Migration!vars)
  PROVE  SurvivalInv'
<1> USE DEF SurvivalInv, InInit, Migration!TypeOK, Migration!disk
<1>0. ASSUME Migration!Next PROVE versions' \subseteq 1..4 /\ versions' \subseteq 0..4 /\ 0 \notin versions'
  <2>1. versions \subseteq 1..4
    BY DEF Migration!DBVersion
  <2>2. versions' \subseteq 1..4
    BY <1>0, <2>1, VersionsTyped
  <2>3. QED
    BY <2>2
<1>1. CASE Migration!Open
  <2>1. version' \in 0..4 /\ (version' = 0 => unknown') /\ (unknown' => versions = {} \/ misread')
    <3>1. CASE version' \in Migration!ReadVersion /\ unknown' = (versions = {}) /\ misread' = FALSE
      <4>1. CASE versions = {}
        <5>1. Migration!ReadVersion = {0}
          BY <4>1 DEF Migration!ReadVersion
        <5>2. version' = 0 /\ unknown'
          BY <3>1, <4>1, <5>1
        <5>3. QED
          BY <4>1, <5>2
      <4>2. CASE versions # {}
        BY <3>1, <4>2 DEF Migration!ReadVersion, Migration!DBVersion
      <4>3. QED
        BY <4>1, <4>2
    <3>2. CASE version' = 0 /\ unknown' = TRUE /\ misread' = TRUE
      BY <3>2
    <3>3. QED
      BY <1>1, <3>1, <3>2 DEF Migration!Open
  <2>2. unknown' \in BOOLEAN /\ misread' \in BOOLEAN
    BY <1>1 DEF Migration!Open
  <2>3. QED
    BY <1>1, <2>1, <2>2 DEF Migration!Open, Migration!DBVersion
<1>2. CASE Migration!CreateTables
  BY <1>2, Created DEF Migration!CreateTables
<1>3. CASE Migration!UpgradeTo1
  <2>1. /\ txt' \in [Subdomains -> Migration!Rows]
        /\ \A s \in Subdomains \ records : txt'[s] = Migration!NoRows
        /\ \A s \in Subdomains : txt'[s].value => txt[s].value
    BY <1>3, UpgradedRows
  <2>2. version' = 1 /\ (versions = {} <=> versions' = {}) /\ versions' \subseteq 0..4 /\ 0 \notin versions'
    BY <1>3, <1>0 DEF Migration!UpgradeTo1, Migration!Recorded, Migration!Next, Migration!Start
  <2>3. QED
    BY <1>3, <2>1, <2>2 DEF Migration!UpgradeTo1, Migration!DBVersion
<1>4. ASSUME NEW v \in Migration!Added, Migration!AddColumns(v) PROVE SurvivalInv'
  <2>1. version' = v /\ v \in 1..4 /\ (versions = {} <=> versions' = {}) /\ versions' \subseteq 0..4 /\ 0 \notin versions'
    BY <1>4, <1>0 DEF Migration!AddColumns, Migration!Recorded, Migration!Next, Migration!Start,
       Migration!Added, Migration!DBVersion
  <2>2. columns' \subseteq Migration!Added
    <3>1. CASE columns' = columns \cup {v}
      BY <3>1
    <3>2. CASE columns' = columns
      BY <3>2
    <3>3. QED
      BY <1>4, <3>1, <3>2 DEF Migration!AddColumns
  <2>3. QED
    BY <1>4, <2>1, <2>2 DEF Migration!AddColumns, Migration!DBVersion
<1>5. CASE Migration!UpgradeFails
  BY <1>5 DEF Migration!UpgradeFails, Migration!Fail
<1>6. CASE Migration!UpgradeDone
  BY <1>6 DEF Migration!UpgradeDone, Migration!DBVersion
<1>7. CASE Migration!InsertVersion
  <2>1. versions' \subseteq 0..4 /\ 0 \notin versions'
    BY <1>7, <1>0 DEF Migration!Next, Migration!Start
  <2>2. CASE pc' = "serving" /\ UNCHANGED startFailed /\ versions' = versions \cup {4}
    BY <1>7, <2>1, <2>2 DEF Migration!InsertVersion
  <2>3. CASE Migration!Fail /\ UNCHANGED versions
    BY <1>7, <2>1, <2>3 DEF Migration!InsertVersion, Migration!Fail
  <2>4. QED
    BY <1>7, <2>2, <2>3 DEF Migration!InsertVersion, Migration!DBVersion
<1>8. ASSUME NEW s \in Subdomains, Migration!Register(s) PROVE SurvivalInv'
  BY <1>8, InsertedRows DEF Migration!Register, Migration!Up
<1>9. ASSUME NEW s \in Subdomains, Migration!Update(s) PROVE SurvivalInv'
  <2>1. txt' \in [Subdomains -> Migration!Rows]
    BY <1>9 DEF Migration!Update, Migration!Rows
  <2>2. s \in records
    BY <1>9 DEF Migration!Update, Migration!NoRows
  <2>3. QED
    BY <1>9, <2>1, <2>2 DEF Migration!Update, Migration!Up
<1>10. CASE Migration!Stop
  <2>1. tables' \subseteq Migration!AllTables /\ columns' \subseteq Migration!Added
    BY <1>10, Created DEF Migration!Stop, Migration!AllTables
  <2>2. QED
    BY <1>10, <2>1 DEF Migration!Stop, Migration!MigrationAssumption
<1>11. CASE UNCHANGED Migration!vars
  BY <1>11 DEF Migration!vars
<1>12. QED
  BY <1>1, <1>2, <1>3, <1>4, <1>5, <1>6, <1>7, <1>8, <1>9, <1>10, <1>11
  DEF Migration!Next, Migration!Start

LEMMA ReachedKept ==
  ASSUME Migration!MigrationAssumption, ~CommitMayFail, ReachedInv, [Migration!Next]_(Migration!vars)
  PROVE  ReachedInv'
<1>0. SurvivalInv'
  BY SurvivalKept DEF ReachedInv
<1> USE <1>0 DEF ReachedInv, SurvivalInv, InInit, Migration!TypeOK, Migration!disk,
        Migration!RecordedVersionIsReached, Migration!ServingIsCurrent, Migration!DBVersion,
        Migration!Added
<1>1. CASE Migration!Open
  BY <1>1 DEF Migration!Open, Migration!ReadVersion
<1>2. CASE Migration!CreateTables
  <2>1. columns \subseteq columns'
    BY <1>2, Created DEF Migration!CreateTables
  <2>2. QED
    BY <1>2, <2>1 DEF Migration!CreateTables
<1>3. CASE Migration!UpgradeTo1
  BY <1>3 DEF Migration!UpgradeTo1, Migration!Recorded
<1>4. ASSUME NEW v \in Migration!Added, Migration!AddColumns(v) PROVE ReachedInv'
  BY <1>4 DEF Migration!AddColumns, Migration!Recorded
<1>5. CASE Migration!UpgradeFails
  BY <1>5 DEF Migration!UpgradeFails, Migration!Fail
<1>6. CASE Migration!UpgradeDone
  BY <1>6 DEF Migration!UpgradeDone
<1>7. CASE Migration!InsertVersion
  BY <1>7 DEF Migration!InsertVersion, Migration!Fail
<1>8. ASSUME NEW s \in Subdomains, Migration!Register(s) PROVE ReachedInv'
  BY <1>8 DEF Migration!Register, Migration!Up
<1>9. ASSUME NEW s \in Subdomains, Migration!Update(s) PROVE ReachedInv'
  BY <1>9 DEF Migration!Update, Migration!Up
<1>10. CASE Migration!Stop
  <2>1. columns \subseteq columns'
    BY <1>10, Created DEF Migration!Stop, Migration!AllTables
  <2>2. QED
    BY <1>10, <2>1 DEF Migration!Stop
<1>11. CASE UNCHANGED Migration!vars
  BY <1>11 DEF Migration!vars
<1>12. QED
  BY <1>1, <1>2, <1>3, <1>4, <1>5, <1>6, <1>7, <1>8, <1>9, <1>10, <1>11
  DEF Migration!Next, Migration!Start

LEMMA RowsKept ==
  ASSUME Migration!MigrationAssumption, ~CommitMayFail, ~CreateMayFail, ~InsertMayFail,
         ~DeleteMayFail, RowsInv, [Migration!Next]_(Migration!vars)
  PROVE  RowsInv'
<1>0. ReachedInv'
  BY ReachedKept DEF RowsInv
<1> USE <1>0 DEF RowsInv, ReachedInv, SurvivalInv, InInit, Migration!TypeOK, Migration!disk,
        Migration!UpgradedHaveRows
<1>1. CASE Migration!Open
  BY <1>1 DEF Migration!Open, Migration!ReadVersion
<1>2. CASE Migration!CreateTables
  <2>1. tables' = Migration!AllTables
    BY <1>2, Created DEF Migration!CreateTables
  <2>2. QED
    BY <1>2, <2>1 DEF Migration!CreateTables
<1>3. CASE Migration!UpgradeTo1
  <2>1. Migration!Inserted = {Migration!TwoRows}
    BY <1>3 DEF Migration!UpgradeTo1, Migration!Inserted, Migration!AllTables
  <2>2. \A s \in records : txt'[s].count = 2
    <3>1. PICK rows \in [Subdomains -> Migration!Inserted \cup {Migration!NoRows}] :
            /\ \A s \in records : rows[s] = Migration!TwoRows
            /\ txt' = [s \in Subdomains |-> [Migration!NoRows EXCEPT !.count = @ + rows[s].count]]
      BY <1>3, <2>1 DEF Migration!UpgradeTo1, Migration!Emptied
    <3>2. QED
      BY <3>1 DEF Migration!TwoRows, Migration!NoRows
  <2>3. QED
    BY <1>3, <2>2 DEF Migration!UpgradeTo1
<1>4. ASSUME NEW v \in Migration!Added, Migration!AddColumns(v) PROVE RowsInv'
  <2>1. \A s \in records : txt[s].count = 2
    BY <1>4 DEF Migration!AddColumns, Migration!Added, Migration!DBVersion
  <2>2. QED
    BY <1>4, <2>1 DEF Migration!AddColumns
<1>5. CASE Migration!UpgradeFails
  BY <1>5 DEF Migration!UpgradeFails
<1>6. CASE Migration!UpgradeDone
  BY <1>6 DEF Migration!UpgradeDone
<1>7. CASE Migration!InsertVersion
  BY <1>7 DEF Migration!InsertVersion, Migration!DBVersion
<1>8. ASSUME NEW s \in Subdomains, Migration!Register(s) PROVE RowsInv'
  <2>1. Migration!Inserted = {Migration!TwoRows}
    BY <1>8 DEF Migration!Register, Migration!Up, Migration!Inserted, Migration!AllTables
  <2>2. QED
    BY <1>8, <2>1 DEF Migration!Register, Migration!Up, Migration!TwoRows
<1>9. ASSUME NEW s \in Subdomains, Migration!Update(s) PROVE RowsInv'
  BY <1>9 DEF Migration!Update, Migration!Up, Migration!Rows
<1>10. CASE Migration!Stop
  BY <1>10 DEF Migration!Stop
<1>11. CASE UNCHANGED Migration!vars
  BY <1>11 DEF Migration!vars
<1>12. QED
  BY <1>1, <1>2, <1>3, <1>4, <1>5, <1>6, <1>7, <1>8, <1>9, <1>10, <1>11
  DEF Migration!Next, Migration!Start

LEMMA MigrationHolds == Spec => [](unit = "migration" => SurvivalInv)
<1>1. Init => (unit = "migration" => SurvivalInv)
  BY InstancesAreSound, InitMigration DEF Init, RowsInv, ReachedInv
<1>2. ASSUME unit = "migration" => SurvivalInv, [Next]_vars
      PROVE  (unit = "migration" => SurvivalInv)'
  BY <1>2, OneUnit, MigrationStep, InstancesAreSound, SurvivalKept
<1>3. QED
  BY <1>1, <1>2, PTL DEF Spec

\* Whatever statements and commits fail and wherever the process stops, an upgrade takes
\* served values in two cases only: this start could not read the version, or none was ever
\* recorded because an earlier start ended in an error, after which the process served
\* (db.go, Init and handleDBUpgradeTo1; main.go logs the error).
THEOREM ValuesOutliveUpgrades == Spec => ValuesSurviveRestarts
<1>1. ASSUME unit = "migration" => SurvivalInv, [Next]_vars
      PROVE  [unit = "migration" => Migration!ValuesSurvive]_vars
  <2>1. SUFFICES ASSUME unit = "migration", SurvivalInv, Migration!Next
                 PROVE  Migration!ValuesSurvive
    BY <1>1, MigrationStep DEF Next, LogIn, Call, CheckDns, LookUpHosts, RunMatch, Migrate, Serve,
                               Rest
  <2>2. SUFFICES ASSUME NEW s \in Subdomains, txt[s].value, ~txt'[s].value
                 PROVE  misread \/ (versions = {} /\ startFailed)
    BY DEF Migration!ValuesSurvive
  <2>3. CASE txt' = txt
    BY <2>2, <2>3
  <2>4. CASE Migration!UpgradeTo1
    <3>1. unknown /\ (versions = {} \/ misread)
      BY <2>1, <2>4 DEF Migration!UpgradeTo1, SurvivalInv, InInit
    <3>2. QED
      BY <2>1, <2>2, <3>1 DEF SurvivalInv
  <2>5. ASSUME NEW r \in Subdomains, Migration!Register(r)
        PROVE  misread \/ (versions = {} /\ startFailed)
    <3>1. txt[r] = Migration!NoRows /\ ~txt[r].value
      BY <2>1, <2>5 DEF Migration!Register, SurvivalInv, Migration!NoRows
    <3>2. s # r /\ txt' = [txt EXCEPT ![r] = txt'[r]]
      BY <2>1, <2>2, <2>5, <3>1 DEF Migration!Register, SurvivalInv, Migration!TypeOK
    <3>3. QED
      BY <2>1, <2>2, <3>2 DEF SurvivalInv, Migration!TypeOK
  <2>6. ASSUME NEW r \in Subdomains, Migration!Update(r)
        PROVE  misread \/ (versions = {} /\ startFailed)
    BY <2>1, <2>2, <2>6 DEF Migration!Update, SurvivalInv, Migration!TypeOK, Migration!Rows
  <2>7. txt' = txt \/ Migration!UpgradeTo1 \/ (\E r \in Subdomains : Migration!Register(r) \/ Migration!Update(r))
    BY <2>1 DEF Migration!Next, Migration!Start, Migration!Open, Migration!CreateTables,
       Migration!AddColumns, Migration!UpgradeFails, Migration!UpgradeDone,
       Migration!InsertVersion, Migration!Stop, Migration!disk
  <2>8. QED
    BY <2>3, <2>4, <2>5, <2>6, <2>7
<1>2. QED
  BY <1>1, MigrationHolds, PTL DEF Spec, ValuesSurviveRestarts

\* So where the version can be read and no start fails, no served value is ever lost, also
\* when commits, INSERTs and DELETEs fail and the process stops in the middle of an upgrade.
THEOREM ValuesAreNeverLost ==
  ASSUME ~ReadMayFail, ~StatementMayFail, ~CreateMayFail
  PROVE  Spec => [][unit = "migration" => \A s \in Subdomains : txt[s].value => txt'[s].value]_vars
<1> DEFINE Sound == /\ ~misread /\ ~startFailed
                    /\ pc \notin {"off", "create"} => tables = Migration!AllTables
<1>1. Migration!Init => Sound
  BY DEF Migration!Init
<1>2. ASSUME Migration!TypeOK, Sound, [Migration!Next]_(Migration!vars) PROVE Sound'
  <2> USE DEF Migration!disk
  <2>1. CASE Migration!Open
    BY <1>2, <2>1 DEF Migration!Open
  <2>2. CASE Migration!CreateTables
    <3>1. tables' = Migration!AllTables
      BY <1>2, <2>2, Created DEF Migration!CreateTables, Migration!TypeOK
    <3>2. QED
      BY <1>2, <2>2, <3>1 DEF Migration!CreateTables
  <2>3. CASE Migration!UpgradeTo1
    BY <1>2, <2>3 DEF Migration!UpgradeTo1
  <2>4. ASSUME NEW v \in Migration!Added, Migration!AddColumns(v) PROVE Sound'
    BY <1>2, <2>4 DEF Migration!AddColumns
  <2>5. CASE Migration!UpgradeFails
    BY <1>2, <2>5 DEF Migration!UpgradeFails, Migration!AllTables
  <2>6. CASE Migration!UpgradeDone
    BY <1>2, <2>6 DEF Migration!UpgradeDone
  <2>7. CASE Migration!InsertVersion
    BY <1>2, <2>7 DEF Migration!InsertVersion, Migration!AllTables
  <2>8. ASSUME NEW s \in Subdomains, Migration!Register(s) \/ Migration!Update(s) PROVE Sound'
    BY <1>2, <2>8 DEF Migration!Register, Migration!Update
  <2>9. CASE Migration!Stop
    BY <1>2, <2>9 DEF Migration!Stop
  <2>10. CASE UNCHANGED Migration!vars
    BY <1>2, <2>10 DEF Migration!vars
  <2>11. QED
    BY <1>2, <2>1, <2>2, <2>3, <2>4, <2>5, <2>6, <2>7, <2>8, <2>9, <2>10
    DEF Migration!Next, Migration!Start
<1> HIDE DEF Sound
<1>3. Init => (unit = "migration" => Sound)
  BY <1>1, InstancesAreSound DEF Init
<1>4. ASSUME unit = "migration" => SurvivalInv /\ Sound, [Next]_vars
      PROVE  (unit = "migration" => Sound)'
  BY <1>2, <1>4, OneUnit, MigrationStep DEF SurvivalInv
<1>5. Spec => [](unit = "migration" => Sound)
  BY <1>3, <1>4, MigrationHolds, PTL DEF Spec
<1>6. ASSUME unit = "migration" => SurvivalInv, (unit = "migration" => SurvivalInv)',
             unit = "migration" => Sound, [Next]_vars,
             [unit = "migration" => Migration!ValuesSurvive]_vars
      PROVE  [unit = "migration" => \A s \in Subdomains : txt[s].value => txt'[s].value]_vars
  <2>1. unit' = unit
    BY <1>6, OneUnit
  <2>2. QED
    BY <1>6, <2>1 DEF Sound, Migration!ValuesSurvive, SurvivalInv, Migration!TypeOK, Migration!Rows
<1>7. QED
  BY <1>5, <1>6, MigrationHolds, ValuesOutliveUpgrades, PTL DEF Spec, ValuesSurviveRestarts

\* While commits succeed, a recorded version means that its columns and those of all
\* earlier ones are there, and a process that reported no error serves the current
\* schema, whatever other statements fail (db.go, addColumns).
THEOREM RecordedIsReached ==
  ASSUME ~CommitMayFail
  PROVE  Spec => [](unit = "migration" =>
                      Migration!RecordedVersionIsReached /\ Migration!ServingIsCurrent)
<1>1. Init => (unit = "migration" => ReachedInv)
  BY InstancesAreSound, InitMigration DEF Init, RowsInv
<1>2. ASSUME unit = "migration" => ReachedInv, [Next]_vars
      PROVE  (unit = "migration" => ReachedInv)'
  BY <1>2, OneUnit, MigrationStep, InstancesAreSound, ReachedKept
<1>3. (unit = "migration" => ReachedInv)
        => (unit = "migration" => Migration!RecordedVersionIsReached /\ Migration!ServingIsCurrent)
  BY DEF ReachedInv
<1>4. QED
  BY <1>1, <1>2, <1>3, PTL DEF Spec

\* Where, besides, the statements whose errors the code drops succeed, an upgraded
\* registration has the two rows its updates need (db.go, Init and NewTXTValuesInTransaction).
\* Without these conditions neither holds: the code drops those errors and goes on.
THEOREM UpgradesAreSound ==
  ASSUME ~CommitMayFail, ~CreateMayFail, ~InsertMayFail, ~DeleteMayFail
  PROVE  Spec => []SchemaIsSound
<1>1. Init => (unit = "migration" => RowsInv)
  BY InstancesAreSound, InitMigration DEF Init
<1>2. ASSUME unit = "migration" => RowsInv, [Next]_vars
      PROVE  (unit = "migration" => RowsInv)'
  BY <1>2, OneUnit, MigrationStep, InstancesAreSound, RowsKept
<1>3. (unit = "migration" => RowsInv) => SchemaIsSound
  BY DEF SchemaIsSound, RowsInv, ReachedInv
<1>4. QED
  BY <1>1, <1>2, <1>3, PTL DEF Spec

------------------------------------------------------------------------------
(* The lock of the database *)

\* LookupBounded is not inductive: what a lookup has waited for already is measured by
\* the timeouts that still run: of the readers that keep the announced write out, of the
\* write that keeps the lookup out, and then of the lookup itself.
WaitInv ==
  /\ Lock!TypeOK
  /\ \A c \in Lock!Calls : stage[c] = "idle" => waited[c] = 0
  /\ \A w \in Writes : Lock!Locked(w) => w = announced
  /\ announced # Lock!None => stage[announced] # "idle"
  /\ \A c \in LockLookups :
       /\ stage[c] = "locking" =>
            /\ announced # Lock!None
            /\ stage[announced] = "locking" =>
                 /\ waited[c] <= DefaultTimeout
                 /\ \A r \in Lock!Readers : Lock!Locked(r) => waited[c] + left[r] <= DefaultTimeout
            /\ Lock!Locked(announced) => waited[c] + left[announced] <= 2 * DefaultTimeout
       /\ Lock!Locked(c) => waited[c] + left[c] <= Lock!Longest

LEMMA InitLock == ASSUME Lock!DbLockAssumption, Lock!Init PROVE WaitInv
<1>1. Lock!TypeOK
  BY DEF Lock!DbLockAssumption, Lock!Init, Lock!TypeOK, Lock!Longest
<1>2. QED
  BY <1>1 DEF Lock!Init, WaitInv, Lock!Locked, Lock!Calls

LEMMA WaitFollows == ASSUME Lock!DbLockAssumption, WaitInv PROVE Lock!LookupBounded
<1>1. SUFFICES ASSUME NEW c \in LockLookups PROVE waited[c] <= Lock!Longest
  BY DEF Lock!LookupBounded
<1>2. /\ c \in Lock!Calls /\ DefaultTimeout \in Nat /\ ReadTimeout \in Nat
      /\ waited[c] \in Nat /\ left[c] \in Nat /\ Lock!Longest = 2 * DefaultTimeout + ReadTimeout
  BY DEF Lock!DbLockAssumption, WaitInv, Lock!TypeOK, Lock!Calls, Lock!Longest
<1>3. CASE stage[c] = "idle"
  BY <1>2, <1>3 DEF WaitInv
<1>4. CASE stage[c] = "locking"
  <2>1. announced \in Writes /\ left[announced] \in Nat /\ stage[announced] # "idle"
    BY <1>4 DEF WaitInv, Lock!TypeOK, Lock!Calls
  <2>2. stage[announced] = "locking" \/ Lock!Locked(announced)
    BY <2>1 DEF WaitInv, Lock!TypeOK, Lock!Calls, Lock!Locked
  <2>3. QED
    BY <1>2, <1>4, <2>1, <2>2 DEF WaitInv
<1>5. CASE Lock!Locked(c)
  BY <1>2, <1>5 DEF WaitInv
<1>6. QED
  BY <1>2, <1>3, <1>4, <1>5 DEF WaitInv, Lock!TypeOK, Lock!Locked

LEMMA CallsDiffer ==
  ASSUME Lock!DbLockAssumption
  PROVE  /\ Lock!None \notin Writes
         /\ \A r \in Lock!Readers : r \notin Writes /\ r \in Lock!Calls
         /\ \A c \in LockLookups : c \in Lock!Readers /\ c \notin Reads /\ c \notin Writes /\ c \in Lock!Calls
         /\ \A w \in Writes : w \in Lock!Calls /\ w \notin Lock!Readers
         /\ DefaultTimeout \in Nat \ {0} /\ ReadTimeout \in Nat \ {0} /\ ReadTimeout <= DefaultTimeout
         /\ Lock!Longest = 2 * DefaultTimeout + ReadTimeout
         /\ \A c \in LockLookups : Lock!Timeout(c) = ReadTimeout
         /\ \A c \in Lock!Calls : Lock!Timeout(c) \in 0..DefaultTimeout
BY DEF Lock!DbLockAssumption, Lock!None, Lock!Readers, Lock!Calls, Lock!Longest, Lock!Timeout

LEMMA WaitKept ==
  ASSUME Lock!DbLockAssumption, WaitInv, [Lock!Next]_(Lock!vars) PROVE WaitInv'
<1> USE CallsDiffer DEF WaitInv, Lock!TypeOK, Lock!Locked
<1>1. ASSUME NEW c \in Lock!Readers, Lock!CallReader(c) PROVE WaitInv'
  <2>1. CASE announced = Lock!None
    BY <1>1, <2>1 DEF Lock!CallReader, Lock!Enter
  <2>2. CASE announced # Lock!None
    BY <1>1, <2>2 DEF Lock!CallReader
  <2>3. QED
    BY <2>1, <2>2
<1>2. ASSUME NEW c \in Writes, Lock!CallWriter(c) PROVE WaitInv'
  BY <1>2 DEF Lock!CallWriter
<1>3. ASSUME NEW c \in Writes, Lock!Announce(c) PROVE WaitInv'
  BY <1>3 DEF Lock!Announce, Lock!MayAnnounce
<1>4. ASSUME NEW c \in Writes, Lock!Lock(c) PROVE WaitInv'
  BY <1>4 DEF Lock!Lock, Lock!MayLock, Lock!Enter
<1>5. ASSUME NEW c \in Lock!Calls, Lock!Connect(c) PROVE WaitInv'
  BY <1>5 DEF Lock!Connect
<1>6. ASSUME NEW c \in Lock!Calls, Lock!Locked(c), Lock!Return(c) PROVE WaitInv'
  <2>1. CASE c = announced
    BY <1>6, <2>1 DEF Lock!Return, Lock!Released
  <2>2. CASE c # announced
    BY <1>6, <2>2 DEF Lock!Return, Lock!Released
  <2>3. QED
    BY <2>1, <2>2
<1>7. CASE Lock!Tick
  BY <1>7 DEF Lock!Tick, Lock!Due, Lock!Expired, Lock!MayLock
<1>8. CASE UNCHANGED Lock!vars
  BY <1>8 DEF Lock!vars
<1>9. QED
  BY <1>1, <1>2, <1>3, <1>4, <1>5, <1>6, <1>7, <1>8
  DEF Lock!Next, Lock!Finish, Lock!TimeOut, Lock!Expired

LEMMA WaitHolds == Spec => [](unit = "lock" => WaitInv)
<1>1. Init => (unit = "lock" => WaitInv)
  BY InstancesAreSound, InitLock DEF Init
<1>2. ASSUME unit = "lock" => WaitInv, [Next]_vars PROVE (unit = "lock" => WaitInv)'
  BY <1>2, OneUnit, LockStep, InstancesAreSound, WaitKept
<1>3. QED
  BY <1>1, <1>2, PTL DEF Spec

------------------------------------------------------------------------------
(* The DNS check *)

\* VerdictsAreTrue is not inductive: a verdict is true because of what the run had found
\* out when it got that far.
CheckInv ==
  /\ Check!TypeOK
  /\ Check!CnameVerdictIsTrue /\ Check!TokenVerdictIsTrue
  /\ step = "cname" => n <= Resolvers
  /\ step = "judge" /\ failed => n = Resolvers + 1
  /\ step \in {"write", "poll", "pause"} => cname = "right"
  /\ found <=> shown
  /\ step = "pause" => ~found

LEMMA InitCheck == ASSUME Check!DnsCheckAssumption, Check!Init PROVE CheckInv
<1>1. {skip, failed, found, shown} \subseteq BOOLEAN
  BY DEF Check!Init
<1>2. QED
  BY <1>1 DEF Check!DnsCheckAssumption, Check!Init, CheckInv, Check!TypeOK, Check!Verdicts,
     Check!CnameVerdictIsTrue, Check!TokenVerdictIsTrue

\* How long one query takes at most.
LongestQuery == IF Truncation THEN 2 * QueryTimeout ELSE QueryTimeout

LEMMA QueryTimesBounded ==
  ASSUME Check!DnsCheckAssumption
  PROVE  /\ LongestQuery \in Nat /\ DbTimes \subseteq Nat
         /\ Check!Answers \subseteq 0..LongestQuery /\ Check!Failures \subseteq 0..LongestQuery
<1>1. CASE Truncation
  <2>1. QueryTimeout \in Nat /\ LongestQuery = 2 * QueryTimeout /\ DbTimes \subseteq Nat
    BY <1>1 DEF Check!DnsCheckAssumption, LongestQuery
  <2>2. \A s \in QueryTimes : s \in 0..QueryTimeout
    BY DEF Check!DnsCheckAssumption
  <2>3. {s + t : s \in QueryTimes, t \in QueryTimes} \subseteq 0..(2 * QueryTimeout)
    BY <2>1, <2>2
  <2>4. {t + QueryTimeout : t \in QueryTimes} \subseteq 0..(2 * QueryTimeout)
    BY <2>1, <2>2
  <2>5. Check!Answers \subseteq 0..(2 * QueryTimeout)
    BY <1>1, <2>1, <2>2, <2>3 DEF Check!Answers
  <2>6. Check!Failures \subseteq 0..(2 * QueryTimeout)
    BY <1>1, <2>1, <2>4 DEF Check!Failures
  <2>7. QED
    BY <2>1, <2>5, <2>6
<1>2. CASE ~Truncation
  BY <1>2 DEF Check!DnsCheckAssumption, LongestQuery, Check!Answers, Check!Failures
<1>3. QED
  BY <1>1, <1>2

LEMMA CheckKept ==
  ASSUME Check!DnsCheckAssumption, CheckInv, [Check!Next]_(Check!vars) PROVE CheckInv'
<1> USE DEF CheckInv, Check!TypeOK, Check!Verdicts, Check!CnameVerdictIsTrue,
        Check!TokenVerdictIsTrue, Check!After, Check!Done, Check!world
<1>0. /\ Resolvers \in Nat \ {0} /\ PollInterval \in Nat \ {0} /\ TxtTimeout \in Nat
      /\ Check!Answers \subseteq Nat /\ Check!Failures \subseteq Nat /\ DbTimes \subseteq Nat
  BY QueryTimesBounded DEF Check!DnsCheckAssumption
<1>1. CASE Check!CnameAnswered
  <2>1. elapsed' \in Nat /\ start \in 0..elapsed'
    BY <1>0, <1>1 DEF Check!CnameAnswered
  <2>2. ~failed' /\ failed' \in BOOLEAN
    BY <1>1 DEF Check!CnameAnswered
  <2>3. {skip, failed', found, shown} \subseteq BOOLEAN
    BY <2>2
  <2>4. QED
    BY <1>0, <1>1, <2>1, <2>2, <2>3 DEF Check!CnameAnswered
<1>2. CASE Check!CnameFailed
  BY <1>0, <1>2 DEF Check!CnameFailed
<1>3. CASE Check!Judge
  BY <1>0, <1>3 DEF Check!Judge
<1>4. CASE Check!Write
  BY <1>0, <1>4 DEF Check!Write
<1>5. CASE Check!Poll
  BY <1>0, <1>5 DEF Check!Poll
<1>6. CASE Check!RoundEnds
  BY <1>0, <1>6 DEF Check!RoundEnds, Check!TimeIsUp
<1>7. CASE Check!Pause
  BY <1>0, <1>7 DEF Check!Pause
<1>8. CASE UNCHANGED Check!vars
  BY <1>8 DEF Check!vars
<1>9. QED
  BY <1>1, <1>2, <1>3, <1>4, <1>5, <1>6, <1>7, <1>8 DEF Check!Next

\* What webDNSCheck adds to the deadline is enough for two rounds of queries and a write.
SlackSuffices == \A t \in DbTimes \cup {0} : 2 * (Resolvers * LongestQuery) + t <= Slack

\* Where the time has gone.
TimeInv ==
  /\ CheckInv
  /\ step = "cname" => elapsed <= (n - 1) * LongestQuery
  /\ step \in {"judge", "write"} => elapsed <= Resolvers * LongestQuery
  /\ step \in {"poll", "pause"} => start + Resolvers * LongestQuery <= Slack
  /\ step = "poll" => elapsed <= start + TxtTimeout + (n - 1) * LongestQuery
  /\ step = "pause" => elapsed + PollInterval <= start + TxtTimeout
  /\ Check!AnswerInTime

LEMMA Rounded ==
  ASSUME NEW k \in Nat, NEW m \in Nat, NEW q \in Nat, k <= m
  PROVE  k * q \in Nat /\ k * q <= m * q /\ (k + 1 - 1) * q = (k - 1) * q + q
<1>1. k * q <= m * q
  <2>1. PICK d \in Nat : m = k + d
    BY m - k \in Nat
  <2>2. m * q = k * q + d * q /\ d * q >= 0
    BY <2>1
  <2>3. QED
    BY <2>2
<1>2. QED
  BY <1>1

LEMMA TimeKept ==
  ASSUME Check!DnsCheckAssumption, SlackSuffices, TimeInv, [Check!Next]_(Check!vars)
  PROVE  TimeInv'
<1>0. CheckInv'
  BY CheckKept DEF TimeInv
<1> DEFINE q == LongestQuery
<1>1. /\ Resolvers \in Nat \ {0} /\ PollInterval \in Nat \ {0} /\ TxtTimeout \in Nat
      /\ Slack \in Nat /\ q \in Nat /\ DbTimes \subseteq Nat
      /\ Check!Answers \subseteq 0..q /\ Check!Failures \subseteq 0..q
      /\ n \in 1..(Resolvers + 1) /\ elapsed \in Nat /\ start \in 0..elapsed
  BY QueryTimesBounded DEF Check!DnsCheckAssumption, TimeInv, CheckInv, Check!TypeOK
<1> DEFINE all == Resolvers * q  sofar == (n - 1) * q  next == (n + 1 - 1) * q
<1>2. all \in Nat /\ sofar \in Nat /\ next = sofar + q /\ sofar <= all /\ (1 - 1) * q = 0
  <2>1. n - 1 \in Nat /\ n \in Nat /\ n - 1 <= Resolvers
    BY <1>1
  <2>2. sofar \in Nat /\ sofar <= all
    BY <2>1, <1>1, Rounded
  <2>3. next = sofar + q
    BY <2>1, <1>1, Rounded
  <2>4. all \in Nat
    BY <1>1
  <2>5. QED
    BY <1>1, <2>2, <2>3, <2>4
<1>3. n <= Resolvers => next <= all
  <2>1. SUFFICES ASSUME n <= Resolvers PROVE next <= all
    OBVIOUS
  <2>2. n * q <= all /\ n + 1 - 1 = n
    BY <1>1, <2>1, Rounded
  <2>3. QED
    BY <2>2
<1>4. 2 * all <= Slack /\ \A t \in DbTimes : 2 * all + t <= Slack
  BY <1>1, <1>2 DEF SlackSuffices
<1>5. n = Resolvers + 1 => sofar = all
  BY <1>1
<1>d. ASSUME n' = n PROVE (n' - 1) * q = sofar
  BY <1>d
<1>e. ASSUME n' = n + 1 PROVE (n' - 1) * q = next
  <2>1. n' - 1 = n + 1 - 1
    BY <1>1, <1>e
  <2>2. QED
    BY ONLY <2>1
<1>f. ASSUME n' = 1 PROVE (n' - 1) * q = 0
  BY <1>2, <1>f
<1> HIDE DEF all, sofar, next, q
<1>6. /\ step = "cname" => elapsed <= sofar /\ n <= Resolvers
      /\ step \in {"judge", "write"} => elapsed <= all
      /\ step \in {"poll", "pause"} => start + all <= Slack
      /\ step = "poll" => elapsed <= start + TxtTimeout + sofar
      /\ step = "pause" => elapsed + PollInterval <= start + TxtTimeout
      /\ elapsed <= TxtTimeout + Slack
  BY DEF TimeInv, CheckInv, all, sofar, q, Check!AnswerInTime, Check!Deadline
<1>7. SUFFICES
      /\ step' = "cname" => (n' = n /\ elapsed' <= sofar) \/ (n' = n + 1 /\ elapsed' <= next)
      /\ step' \in {"judge", "write"} => elapsed' <= all
      /\ step' \in {"poll", "pause"} => start' + all <= Slack
      /\ step' = "poll" => \/ n' = n /\ elapsed' <= start' + TxtTimeout + sofar
                           \/ n' = n + 1 /\ elapsed' <= start' + TxtTimeout + next
                           \/ n' = 1 /\ elapsed' <= start' + TxtTimeout
      /\ step' = "pause" => elapsed' + PollInterval <= start' + TxtTimeout
      /\ elapsed' <= TxtTimeout + Slack
  <2>1. LongestQuery' = LongestQuery
    BY DEF LongestQuery
  <2>2. (n' = n => (n' - 1) * q = sofar) /\ (n' = n + 1 => (n' - 1) * q = next)
        /\ (n' = 1 => (n' - 1) * q = 0)
    BY <1>d, <1>e, <1>f
  <2>3. (step' = "cname" => elapsed' <= (n' - 1) * q)
    BY <1>7, <2>2
  <2>4. (step' = "poll" => elapsed' <= start' + TxtTimeout + (n' - 1) * q)
    <3>1. start' \in Nat
      BY <1>0 DEF CheckInv, Check!TypeOK
    <3>2. QED
      BY <1>1, <1>7, <2>2, <3>1
  <2>5. QED
    BY <1>0, <1>7, <2>1, <2>3, <2>4 DEF TimeInv, all, q, Check!AnswerInTime, Check!Deadline
<1> USE <1>1, <1>2, <1>3, <1>4, <1>5, <1>6 DEF Check!After, Check!Done, Check!world
<1>8. CASE Check!CnameAnswered
  BY <1>8 DEF Check!CnameAnswered
<1>9. CASE Check!CnameFailed
  BY <1>9 DEF Check!CnameFailed
<1>10. CASE Check!Judge
  BY <1>10 DEF Check!Judge
<1>11. CASE Check!Write
  BY <1>11 DEF Check!Write
<1>12. CASE Check!Poll
  BY <1>12 DEF Check!Poll
<1>13. CASE Check!RoundEnds
  BY <1>13 DEF Check!RoundEnds, Check!TimeIsUp
<1>14. CASE Check!Pause
  BY <1>14 DEF Check!Pause
<1>15. CASE UNCHANGED Check!vars
  BY <1>15 DEF Check!vars
<1>16. QED
  BY <1>8, <1>9, <1>10, <1>11, <1>12, <1>13, <1>14, <1>15 DEF Check!Next

LEMMA InitTime == ASSUME Check!DnsCheckAssumption, Check!Init PROVE TimeInv
<1>1. CheckInv
  BY InitCheck
<1>2. /\ (1 - 1) * LongestQuery = 0 /\ TxtTimeout \in Nat /\ Slack \in Nat
  BY QueryTimesBounded DEF Check!DnsCheckAssumption
<1>3. QED
  BY <1>1, <1>2 DEF TimeInv, Check!Init, Check!AnswerInTime, Check!Deadline

LEMMA CheckHolds == Spec => [](unit = "check" => CheckInv)
<1>1. Init => (unit = "check" => CheckInv)
  BY InstancesAreSound, InitCheck DEF Init
<1>2. ASSUME unit = "check" => CheckInv, [Next]_vars PROVE (unit = "check" => CheckInv)'
  BY <1>2, OneUnit, CheckStep, InstancesAreSound, CheckKept
<1>3. QED
  BY <1>1, <1>2, PTL DEF Spec

\* What a check says of the CNAME is what public DNS has, an error only when no resolver
\* gave an answer; a token is called invisible only when none has shown it up to the last
\* round that could begin, and visible only when one has (dnscheck.go, runDNSCheck,
\* lookupCNAME, pollTXT).
THEOREM VerdictsHold == Spec => []VerdictsAreTrue
<1>1. (unit = "check" => CheckInv) => VerdictsAreTrue
  BY DEF VerdictsAreTrue, CheckInv
<1>2. QED
  BY <1>1, CheckHolds, PTL

LEMMA TimeHolds == ASSUME SlackSuffices PROVE Spec => [](unit = "check" => TimeInv)
<1>1. Init => (unit = "check" => TimeInv)
  BY InstancesAreSound, InitTime DEF Init
<1>2. ASSUME unit = "check" => TimeInv, [Next]_vars PROVE (unit = "check" => TimeInv)'
  BY <1>2, OneUnit, CheckStep, InstancesAreSound, TimeKept
<1>3. QED
  BY <1>1, <1>2, PTL DEF Spec

\* A check is answered before its write deadline when what is added to it covers two
\* queries of every resolver and the write (dnscheck.go:119-120).  For the three resolvers
\* of the default it does exactly, and only without a query over TCP and without waiting
\* for the database.
THEOREM AnswersInTime == ASSUME SlackSuffices PROVE Spec => [](unit = "check" => Check!AnswerInTime)
<1>1. (unit = "check" => TimeInv) => (unit = "check" => Check!AnswerInTime)
  BY DEF TimeInv
<1>2. QED
  BY <1>1, TimeHolds, PTL

------------------------------------------------------------------------------
(* Reverse lookups *)

LEMMA HostsCount ==
  \A S : Hosts!Cardinality(S) = Cardinality(S) /\ (Hosts!IsFiniteSet(S) <=> IsFiniteSet(S))
BY DEF Hosts!Cardinality, Cardinality, Hosts!IsFiniteSet, IsFiniteSet

\* The lookups of request c that began after the last tick.
Begun(c) == {ip \in DOMAIN looking[c] : looking[c][ip] = 1}

\* ListBounded is not inductive: every tick that a request has waited stands for PtrSlots
\* addresses that are looked up already, except the last one, after which none is left to
\* begin with.
ListInv(c) ==
  \/ took[c] * PtrSlots + Cardinality(pending[c]) + Cardinality(Begun(c)) <= Cardinality(asked[c])
  \/ /\ pending[c] = {} /\ Begun(c) = {}
     /\ took[c] * PtrSlots <= Cardinality(asked[c]) + PtrSlots - 1

\* The part of TypeOK that does not follow from ListInv.
HostsTyped ==
  /\ DOMAIN cache \subseteq Ips
  /\ cache \in [DOMAIN cache -> [host : HostNames \cup {NoHost}, left : 0..Ttl]]
  /\ asked \in [Requests -> SUBSET Ips] /\ pending \in [Requests -> SUBSET Ips]
  /\ DOMAIN looking = Requests /\ DOMAIN result = Requests
  /\ \A c \in Requests :
       /\ pending[c] \cup DOMAIN looking[c] \subseteq asked[c]
       /\ pending[c] \cap DOMAIN looking[c] = {}
       /\ Cardinality(DOMAIN looking[c]) <= PtrSlots
       /\ looking[c] \in [DOMAIN looking[c] -> 0..1]
       /\ DOMAIN result[c] \subseteq asked[c]
       /\ result[c] \in [DOMAIN result[c] -> HostNames]
       /\ asked[c] = {} => took[c] = 0
  /\ took \in [Requests -> Nat]
  /\ age \in [Ips -> [HostNames -> 0..Hosts!Forgotten]]

\* HostsAreFresh is not inductive: what the cache still has is at most as old as the time
\* it has been there.
FreshInv ==
  /\ \A ip \in DOMAIN cache : cache[ip].left > 0 /\ cache[ip].host # NoHost
                                => age[ip][cache[ip].host] + cache[ip].left <= Ttl
  /\ Hosts!HostsAreFresh

HostsInv == HostsTyped /\ (\A c \in Requests : ListInv(c)) /\ FreshInv

LEMMA HostsConstants ==
  ASSUME Hosts!PtrAssumption
  PROVE  /\ NoHost \notin HostNames /\ IsFiniteSet(Ips) /\ PtrSlots \in Nat \ {0} /\ Ttl \in Nat \ {0}
         /\ Cardinality(Ips) \in Nat /\ Hosts!Forgotten = Ttl + Cardinality(Ips) + 1
BY HostsCount, FS_CardinalityType DEF Hosts!PtrAssumption, Hosts!Forgotten

LEMMA InitHosts == ASSUME Hosts!PtrAssumption, Hosts!Init PROVE HostsInv
<1> USE HostsConstants DEF Hosts!Init
<1>1. Cardinality({}) = 0
  BY FS_EmptySet
<1>2. HostsTyped
  BY <1>1 DEF HostsTyped, Hosts!Nothing
<1>3. \A c \in Requests : ListInv(c)
  BY <1>1 DEF ListInv, Begun, Hosts!Nothing
<1>4. FreshInv
  BY DEF FreshInv, Hosts!Nothing, Hosts!HostsAreFresh
<1>5. QED
  BY <1>2, <1>3, <1>4 DEF HostsInv

\* What the lists have of addresses is finite.
LEMMA ListsAreFinite ==
  ASSUME Hosts!PtrAssumption, HostsTyped, NEW c \in Requests
  PROVE  /\ IsFiniteSet(asked[c]) /\ IsFiniteSet(pending[c]) /\ IsFiniteSet(DOMAIN looking[c])
         /\ IsFiniteSet(Begun(c)) /\ Begun(c) \subseteq DOMAIN looking[c]
         /\ Cardinality(asked[c]) \in 0..Cardinality(Ips) /\ Cardinality(pending[c]) \in Nat
         /\ Cardinality(Begun(c)) \in Nat
<1>1. asked[c] \subseteq Ips /\ pending[c] \subseteq Ips /\ DOMAIN looking[c] \subseteq Ips
      /\ Begun(c) \subseteq Ips /\ Begun(c) \subseteq DOMAIN looking[c]
  BY DEF HostsTyped, Begun
<1>2. QED
  BY <1>1, HostsConstants, FS_Subset, FS_CardinalityType

LEMMA TypedKept ==
  ASSUME Hosts!PtrAssumption, HostsTyped, [Hosts!Next]_(Hosts!vars) PROVE HostsTyped'
<1> USE HostsConstants DEF HostsTyped
<1>1. ASSUME NEW c \in Requests, NEW ips \in SUBSET Ips \ {{}}, Hosts!Begin(c, ips)
      PROVE  HostsTyped'
  BY <1>1 DEF Hosts!Begin, Hosts!Cached
<1>2. ASSUME NEW c \in Requests, NEW ip \in Ips, Hosts!TakeSlot(c, ip) PROVE HostsTyped'
  <2>1. looking'[c] = Hosts!Put(looking[c], ip, 1) /\ DOMAIN looking'[c] = DOMAIN looking[c] \cup {ip}
        /\ looking'[c] \in [DOMAIN looking'[c] -> 0..1]
    BY <1>2 DEF Hosts!TakeSlot, Hosts!Put
  <2>2. ip \notin DOMAIN looking[c] /\ Cardinality(DOMAIN looking[c]) < PtrSlots
    BY <1>2, HostsCount DEF Hosts!TakeSlot, Hosts!FreeSlot
  <2>3. Cardinality(DOMAIN looking'[c]) <= PtrSlots
    <3>1. IsFiniteSet(DOMAIN looking[c]) /\ Cardinality(DOMAIN looking[c]) \in Nat
      BY ListsAreFinite, FS_CardinalityType
    <3>2. Cardinality(DOMAIN looking[c] \cup {ip}) = Cardinality(DOMAIN looking[c]) + 1
      BY <2>2, <3>1, FS_AddElement
    <3>3. QED
      BY <2>1, <2>2, <3>1, <3>2
  <2>4. QED
    BY <1>2, <2>1, <2>2, <2>3 DEF Hosts!TakeSlot
<1>3. ASSUME NEW c \in Requests, NEW ip \in Ips, NEW h \in HostNames \cup {NoHost},
             Hosts!Answer(c, ip, h)
      PROVE  HostsTyped'
  <2>1. looking'[c] = Hosts!Drop(looking[c], ip) /\ DOMAIN looking'[c] = DOMAIN looking[c] \ {ip}
        /\ looking'[c] \in [DOMAIN looking'[c] -> 0..1] /\ ip \in DOMAIN looking[c]
    BY <1>3 DEF Hosts!Answer, Hosts!Drop
  <2>2. Cardinality(DOMAIN looking'[c]) <= PtrSlots
    <3>1. IsFiniteSet(DOMAIN looking[c]) /\ Cardinality(DOMAIN looking[c]) \in Nat
      BY ListsAreFinite, FS_CardinalityType
    <3>2. Cardinality(DOMAIN looking[c] \ {ip}) = Cardinality(DOMAIN looking[c]) - 1
      BY <2>1, <3>1, FS_RemoveElement
    <3>3. QED
      BY <2>1, <3>1, <3>2
  <2>3. /\ DOMAIN cache' \subseteq Ips
        /\ cache' \in [DOMAIN cache' -> [host : HostNames \cup {NoHost}, left : 0..Ttl]]
    BY <1>3 DEF Hosts!Answer, Hosts!Put
  <2>4. CASE h = NoHost
    BY <1>3, <2>1, <2>2, <2>3, <2>4 DEF Hosts!Answer
  <2>5. CASE h # NoHost
    <3>1. result'[c] = Hosts!Put(result[c], ip, h) /\ DOMAIN result'[c] \subseteq asked[c]
          /\ result'[c] \in [DOMAIN result'[c] -> HostNames]
      BY <1>3, <2>1, <2>5 DEF Hosts!Answer, Hosts!Put
    <3>2. age' = [age EXCEPT ![ip] = [age[ip] EXCEPT ![h] = 0]]
      BY <1>3, <2>5 DEF Hosts!Answer
    <3>3. age' \in [Ips -> [HostNames -> 0..Hosts!Forgotten]]
      BY <2>5, <3>2
    <3>4. QED
      BY <1>3, <2>1, <2>2, <2>3, <2>5, <3>1, <3>3 DEF Hosts!Answer
  <2>6. QED
    BY <2>4, <2>5
<1>4. ASSUME NEW c \in Requests, Hosts!Respond(c) PROVE HostsTyped'
  BY <1>4 DEF Hosts!Respond, Hosts!Nothing
<1>5. CASE Hosts!Tick
  <2>1. cache' \in [DOMAIN cache' -> [host : HostNames \cup {NoHost}, left : 0..Ttl]] /\ DOMAIN cache' = DOMAIN cache
    BY <1>5 DEF Hosts!Tick
  <2>2. age' \in [Ips -> [HostNames -> 0..Hosts!Forgotten]]
    BY <1>5 DEF Hosts!Tick
  <2>3. took' \in [Requests -> Nat] /\ \A c \in Requests : asked[c] = {} => took'[c] = 0
    BY <1>5 DEF Hosts!Tick
  <2>4. QED
    BY <1>5, <2>1, <2>2, <2>3 DEF Hosts!Tick
<1>6. CASE UNCHANGED Hosts!vars
  BY <1>6 DEF Hosts!vars
<1>7. QED
  BY <1>1, <1>2, <1>3, <1>4, <1>5, <1>6 DEF Hosts!Next, Hosts!Lookups
LEMMA FreshKept ==
  ASSUME Hosts!PtrAssumption, HostsTyped, FreshInv, [Hosts!Next]_(Hosts!vars) PROVE FreshInv'
<1> USE HostsConstants DEF HostsTyped, FreshInv, Hosts!HostsAreFresh
<1>1. ASSUME NEW c \in Requests, NEW ips \in SUBSET Ips \ {{}}, Hosts!Begin(c, ips)
      PROVE  FreshInv'
  <2>1. took[c] = 0
    BY <1>1 DEF Hosts!Begin
  <2>2. \A ip \in DOMAIN result'[c] : age[ip][result'[c][ip]] < Ttl + took[c] + 1
    BY <1>1, <2>1 DEF Hosts!Begin, Hosts!Cached
  <2>3. QED
    BY <1>1, <2>2 DEF Hosts!Begin
<1>2. ASSUME NEW c \in Requests, NEW ip \in Ips, Hosts!TakeSlot(c, ip) PROVE FreshInv'
  BY <1>2 DEF Hosts!TakeSlot
<1>3. ASSUME NEW c \in Requests, NEW ip \in Ips, NEW h \in HostNames \cup {NoHost},
             Hosts!Answer(c, ip, h)
      PROVE  FreshInv'
  <2>1. cache' = [i \in DOMAIN cache \cup {ip} |-> IF i = ip THEN [host |-> h, left |-> Ttl] ELSE cache[i]]
    BY <1>3 DEF Hosts!Answer, Hosts!Put
  <2>2. CASE h = NoHost
    BY <1>3, <2>1, <2>2 DEF Hosts!Answer
  <2>3. CASE h # NoHost
    <3>1. age' = [age EXCEPT ![ip] = [age[ip] EXCEPT ![h] = 0]]
      BY <1>3, <2>3 DEF Hosts!Answer
    <3>2. /\ age'[ip][h] = 0
          /\ \A i \in Ips, g \in HostNames : age'[i][g] \in 0..age[i][g]
      BY <2>3, <3>1
    <3>3. /\ \A d \in Requests : d # c => result'[d] = result[d]
          /\ result'[c] = [i \in DOMAIN result[c] \cup {ip} |-> IF i = ip THEN h ELSE result[c][i]]
          /\ took' = took
      BY <1>3, <2>3 DEF Hosts!Answer, Hosts!Put
    <3>4. \A i \in DOMAIN cache' : cache'[i].left > 0 /\ cache'[i].host # NoHost
                                      => age'[i][cache'[i].host] + cache'[i].left <= Ttl
      <4>1. SUFFICES ASSUME NEW i \in DOMAIN cache, i # ip, cache[i].left > 0, cache[i].host # NoHost
                     PROVE  age'[i][cache[i].host] + cache[i].left <= Ttl
        BY <2>1, <2>3, <3>2
      <4>2. i \in Ips /\ cache[i].host \in HostNames /\ cache[i].left \in Nat
        BY <4>1
      <4>3. QED
        BY <4>1, <4>2, <3>2
    <3>5. \A d \in Requests : \A i \in DOMAIN result'[d] : age'[i][result'[d][i]] < Ttl + took[d] + 1
      <4>1. SUFFICES ASSUME NEW d \in Requests, NEW i \in DOMAIN result[d], d # c \/ i # ip
                     PROVE  age'[i][result[d][i]] < Ttl + took[d] + 1
        BY <3>2, <3>3
      <4>2. i \in Ips /\ result[d][i] \in HostNames
        BY <4>1
      <4>3. QED
        BY <4>1, <4>2, <3>2
    <3>6. QED
      BY <3>3, <3>4, <3>5
  <2>4. QED
    BY <2>2, <2>3
<1>4. ASSUME NEW c \in Requests, Hosts!Respond(c) PROVE FreshInv'
  BY <1>4 DEF Hosts!Respond, Hosts!Nothing
<1>5. CASE Hosts!Tick
  <2>1. ASSUME NEW i \in Ips, NEW g \in HostNames
        PROVE  age'[i][g] \in Nat /\ age'[i][g] <= age[i][g] + 1
    <3>1. age'[i][g] = IF age[i][g] < Hosts!Forgotten THEN age[i][g] + 1 ELSE Hosts!Forgotten
      BY <1>5 DEF Hosts!Tick
    <3>2. age[i][g] \in 0..Hosts!Forgotten
      OBVIOUS
    <3>3. QED
      BY <3>1, <3>2
  <2>2. \A i \in DOMAIN cache' : cache'[i].left > 0 /\ cache'[i].host # NoHost
                                      => age'[i][cache'[i].host] + cache'[i].left <= Ttl
    <3>a. ASSUME NEW i \in DOMAIN cache
          PROVE  /\ cache'[i].host = cache[i].host
                 /\ cache'[i].left = IF cache[i].left > 0 THEN cache[i].left - 1 ELSE 0
      BY <1>5 DEF Hosts!Tick
    <3>b. DOMAIN cache' = DOMAIN cache /\ \A i \in DOMAIN cache : cache[i].left \in Nat
      BY <1>5 DEF Hosts!Tick
    <3>1. SUFFICES ASSUME NEW i \in DOMAIN cache, cache[i].left > 1, cache[i].host # NoHost
                   PROVE  age'[i][cache[i].host] + (cache[i].left - 1) <= Ttl
      BY <3>a, <3>b
    <3>2. i \in Ips /\ cache[i].host \in HostNames /\ cache[i].left \in Nat
      BY <3>1
    <3>3. QED
      BY <2>1, <3>1, <3>2
  <2>3. \A d \in Requests : \A i \in DOMAIN result'[d] : age'[i][result'[d][i]] < Ttl + took'[d] + 1
    <3>1. SUFFICES ASSUME NEW d \in Requests, NEW i \in DOMAIN result[d]
                   PROVE  age'[i][result[d][i]] < Ttl + (took[d] + 1) + 1
      BY <1>5 DEF Hosts!Tick
    <3>2. i \in Ips /\ result[d][i] \in HostNames
      BY <3>1
    <3>3. QED
      BY <2>1, <3>1, <3>2
  <2>4. QED
    BY <2>2, <2>3
<1>6. CASE UNCHANGED Hosts!vars
  BY <1>6 DEF Hosts!vars
<1>7. QED
  BY <1>1, <1>2, <1>3, <1>4, <1>5, <1>6 DEF Hosts!Next, Hosts!Lookups
LEMMA ListKept ==
  ASSUME Hosts!PtrAssumption, HostsTyped, [Hosts!Next]_(Hosts!vars), NEW d \in Requests, ListInv(d)
  PROVE  ListInv(d)'
<1> USE HostsConstants
<1>0. /\ took[d] \in Nat /\ (asked[d] = {} => took[d] = 0) /\ d \in DOMAIN looking
      /\ pending[d] \cup DOMAIN looking[d] \subseteq asked[d] /\ pending[d] \cap DOMAIN looking[d] = {}
      /\ looking[d] \in [DOMAIN looking[d] -> 0..1] /\ Cardinality(DOMAIN looking[d]) <= PtrSlots
  BY DEF HostsTyped
<1>a. /\ IsFiniteSet(asked[d]) /\ IsFiniteSet(pending[d]) /\ IsFiniteSet(DOMAIN looking[d])
      /\ IsFiniteSet(Begun(d)) /\ Begun(d) \subseteq DOMAIN looking[d]
      /\ Cardinality(asked[d]) \in Nat /\ Cardinality(pending[d]) \in Nat /\ Cardinality(Begun(d)) \in Nat
  BY ListsAreFinite
<1>b. Cardinality({}) = 0
  BY FS_EmptySet
<1>1. CASE UNCHANGED <<asked[d], pending[d], looking[d], took[d]>>
  BY <1>1 DEF ListInv, Begun
<1>2. ASSUME NEW ips \in SUBSET Ips \ {{}}, Hosts!Begin(d, ips) PROVE ListInv(d)'
  <2>1. took'[d] = 0 /\ Begun(d)' = {} /\ asked'[d] = ips /\ pending'[d] \subseteq ips
    BY <1>0, <1>2 DEF Hosts!Begin, Begun, HostsTyped
  <2>2. Cardinality(pending'[d]) <= Cardinality(ips) /\ Cardinality(pending'[d]) \in Nat /\ Cardinality(ips) \in Nat
    BY <2>1, FS_Subset, FS_CardinalityType
  <2>3. took'[d] * PtrSlots = 0
    BY <2>1
  <2>4. QED
    BY <2>1, <2>2, <2>3, <1>b DEF ListInv
<1>3. ASSUME NEW ip \in Ips, Hosts!TakeSlot(d, ip) PROVE ListInv(d)'
  <2>1. /\ ip \in pending[d] /\ ip \notin DOMAIN looking[d]
        /\ pending'[d] = pending[d] \ {ip} /\ UNCHANGED <<asked, took>>
        /\ looking'[d] = Hosts!Put(looking[d], ip, 1)
    BY <1>0, <1>3 DEF Hosts!TakeSlot, HostsTyped
  <2>2. Begun(d)' = Begun(d) \cup {ip} /\ ip \notin Begun(d)
    BY <2>1 DEF Begun, Hosts!Put
  <2>3. Cardinality(pending'[d]) = Cardinality(pending[d]) - 1
    BY <2>1, <1>a, FS_RemoveElement
  <2>4. Cardinality(Begun(d)') = Cardinality(Begun(d)) + 1
    BY <2>2, <1>a, FS_AddElement
  <2>5. pending[d] # {}
    BY <2>1
  <2>6. took[d] * PtrSlots \in Nat
    BY <1>0
  <2>7. QED
    BY <1>a, <2>1, <2>3, <2>4, <2>5, <2>6 DEF ListInv
<1>4. ASSUME NEW ip \in Ips, NEW h \in HostNames \cup {NoHost}, Hosts!Answer(d, ip, h)
      PROVE  ListInv(d)'
  <2>1. /\ UNCHANGED <<asked, pending, took>>
        /\ looking'[d] = Hosts!Drop(looking[d], ip)
    BY <1>0, <1>4 DEF Hosts!Answer
  <2>2. Begun(d)' \subseteq Begun(d)
    BY <2>1 DEF Begun, Hosts!Drop
  <2>3. Cardinality(Begun(d)') <= Cardinality(Begun(d)) /\ Cardinality(Begun(d)') \in Nat
    BY <2>2, <1>a, FS_Subset, FS_CardinalityType
  <2>4. took[d] * PtrSlots \in Nat
    BY <1>0
  <2>5. QED
    BY <1>a, <2>1, <2>2, <2>3, <2>4 DEF ListInv
<1>5. CASE Hosts!Respond(d)
  <2>1. took'[d] = 0 /\ pending'[d] = {} /\ asked'[d] = {} /\ Begun(d)' = {}
    BY <1>0, <1>5 DEF Hosts!Respond, Hosts!Nothing, Begun, HostsTyped
  <2>2. QED
    BY <2>1, <1>b DEF ListInv
<1>6. CASE Hosts!Tick
  <2>1. /\ UNCHANGED <<asked, pending>> /\ Begun(d)' = {}
        /\ took'[d] = IF asked[d] = {} THEN 0 ELSE took[d] + 1
    BY <1>0, <1>6 DEF Hosts!Tick, Begun
  <2>2. /\ pending[d] # {} => Cardinality(DOMAIN looking[d]) >= PtrSlots
        /\ Begun(d) = DOMAIN looking[d]
        /\ asked[d] # {} => DOMAIN looking[d] # {}
    <3>1. Hosts!Settled(d) /\ Cardinality(DOMAIN looking[d]) \in Nat
      BY <1>6, <1>a, FS_CardinalityType DEF Hosts!Tick
    <3>2. looking[d] = [ip \in DOMAIN looking[d] |-> looking[d][ip]]
      BY <1>0
    <3>3. DOMAIN looking[d] = {} => looking[d] = Hosts!Nothing
      BY <3>2 DEF Hosts!Nothing
    <3>4. pending[d] # {} => ~(Cardinality(DOMAIN looking[d]) < PtrSlots)
      BY <3>1, HostsCount DEF Hosts!Settled, Hosts!FreeSlot
    <3>5. QED
      BY <3>1, <3>3, <3>4 DEF Hosts!Settled, Begun
  <2>3. CASE asked[d] = {}
    <3>1. pending[d] = {} /\ took'[d] = 0
      BY <1>0, <2>1, <2>3
    <3>2. QED
      BY <1>b, <2>1, <2>3, <3>1 DEF ListInv
  <2>4. CASE asked[d] # {}
    <3>1. took'[d] = took[d] + 1 /\ Begun(d) # {} /\ Cardinality(Begun(d)) > 0
      BY <1>a, <2>1, <2>2, <2>4, FS_EmptySet
    <3>2. took[d] * PtrSlots + Cardinality(pending[d]) + Cardinality(Begun(d)) <= Cardinality(asked[d])
      BY <3>1 DEF ListInv
    <3>3. took'[d] * PtrSlots = took[d] * PtrSlots + PtrSlots /\ took[d] * PtrSlots \in Nat
      BY <1>0, <3>1
    <3>4. CASE pending[d] # {}
      BY <1>a, <1>b, <2>1, <2>2, <3>2, <3>3, <3>4 DEF ListInv
    <3>5. CASE pending[d] = {}
      BY <1>a, <1>b, <2>1, <3>1, <3>2, <3>3, <3>5 DEF ListInv
    <3>6. QED
      BY <3>4, <3>5
  <2>5. QED
    BY <2>3, <2>4
<1>7. CASE UNCHANGED Hosts!vars
  BY <1>1, <1>7 DEF Hosts!vars
<1>8. ASSUME NEW c \in Requests, c # d,
             (\E ips \in SUBSET Ips \ {{}} : Hosts!Begin(c, ips)) \/ Hosts!Lookups(c) \/ Hosts!Respond(c)
      PROVE  ListInv(d)'
  <2>1. d \in DOMAIN asked /\ d \in DOMAIN pending /\ d \in DOMAIN looking /\ d \in DOMAIN took
    BY DEF HostsTyped
  <2>2. UNCHANGED <<asked[d], pending[d], looking[d], took[d]>>
    BY <1>8, <2>1 DEF Hosts!Begin, Hosts!Lookups, Hosts!TakeSlot, Hosts!Answer, Hosts!Respond
  <2>3. QED
    BY <1>1, <2>2
<1>9. QED
  BY <1>2, <1>3, <1>4, <1>5, <1>6, <1>7, <1>8 DEF Hosts!Next, Hosts!Lookups

LEMMA HostsKept ==
  ASSUME Hosts!PtrAssumption, HostsInv, [Hosts!Next]_(Hosts!vars) PROVE HostsInv'
BY TypedKept, FreshKept, ListKept DEF HostsInv

LEMMA QuotientBound ==
  ASSUME NEW k \in Nat, NEW m \in Nat, NEW s \in Nat \ {0}, k * s <= m
  PROVE  k <= m \div s
<1>1. m = s * (m \div s) + (m % s) /\ m % s \in 0..(s - 1) /\ m \div s \in Nat
  OBVIOUS
<1>2. QED
  BY <1>1

LEMMA HostsFollow ==
  ASSUME Hosts!PtrAssumption, HostsInv
  PROVE  Hosts!TypeOK /\ Hosts!ListBounded /\ Hosts!HostsAreFresh
<1>1. ASSUME NEW c \in Requests
      PROVE  /\ took[c] \in 0..(Cardinality(Ips) + 1)
             /\ took[c] <= (Cardinality(asked[c]) + PtrSlots - 1) \div PtrSlots
  <2>1. /\ took[c] \in Nat /\ PtrSlots \in Nat \ {0} /\ Cardinality(asked[c]) \in 0..Cardinality(Ips)
        /\ Cardinality(pending[c]) \in Nat /\ Cardinality(Begun(c)) \in Nat /\ Cardinality(Ips) \in Nat
        /\ took[c] * PtrSlots \in Nat
    BY ListsAreFinite, HostsConstants DEF HostsInv, HostsTyped
  <2>2. took[c] * PtrSlots <= Cardinality(asked[c]) + PtrSlots - 1
    BY <2>1 DEF HostsInv, ListInv
  <2>3. took[c] <= (Cardinality(asked[c]) + PtrSlots - 1) \div PtrSlots
    <3>1. Cardinality(asked[c]) + PtrSlots - 1 \in Nat
      BY <2>1
    <3>2. QED
      BY <2>1, <2>2, <3>1, QuotientBound
  <2>4. took[c] <= Cardinality(Ips) + 1
    <3>1. CASE took[c] = 0
      BY <2>1, <3>1
    <3>2. CASE took[c] # 0
      <4>1. (took[c] - 1) * PtrSlots = took[c] * PtrSlots - PtrSlots /\ took[c] - 1 \in Nat
        BY <2>1, <3>2
      <4>2. took[c] - 1 <= (took[c] - 1) * PtrSlots
        BY <2>1, <4>1
      <4>3. QED
        BY <2>1, <2>2, <4>1, <4>2
    <3>3. QED
      BY <3>1, <3>2
  <2>5. QED
    BY <2>1, <2>3, <2>4
<1>2. Hosts!ListBounded
  BY <1>1, HostsCount DEF Hosts!ListBounded, Hosts!Rounds
<1>3. Hosts!TypeOK
  BY <1>1, HostsCount DEF Hosts!TypeOK, HostsInv, HostsTyped
<1>4. QED
  BY <1>2, <1>3 DEF HostsInv, FreshInv

LEMMA HostsHold == Spec => [](unit = "hosts" => HostsInv)
<1>1. Init => (unit = "hosts" => HostsInv)
  BY InstancesAreSound, InitHosts DEF Init
<1>2. ASSUME unit = "hosts" => HostsInv, [Next]_vars PROVE (unit = "hosts" => HostsInv)'
  BY <1>2, OneUnit, HostsStep, InstancesAreSound, HostsKept
<1>3. QED
  BY <1>1, <1>2, PTL DEF Spec

\* Whichever request looked an address up, a host that is shown was found no longer ago
\* than the cache's time to live and the time this request has taken (identify.go,
\* resolvePTRs).
THEOREM ShownHostsAreFresh == Spec => []HostsAreFresh
<1>1. (unit = "hosts" => HostsInv) => HostsAreFresh
  BY DEF HostsAreFresh, HostsInv, FreshInv
<1>2. QED
  BY <1>1, HostsHold, PTL

------------------------------------------------------------------------------
(* Match runs *)

\* A registration that was not matched so far is called what it was when the run began;
\* one that was has the domain of a match, unless its write failed.
Labelled(s) ==
  \/ /\ Match!MatchedTo(s) = {}
     /\ s \in DOMAIN read => records[s].domainName = read[s]
  \/ \E e \in Match!MatchedTo(s) : e.failed \/ records[s].domainName = e.domain

\* AppliedRunLabels is not inductive: it says nothing of a run that is not over.
LabelInv ==
  /\ todo \in Seq(Candidates)
  /\ results \in Seq(Match!Result)
  /\ \A s \in DOMAIN records : "domainName" \in DOMAIN records[s]
  /\ apply => \A s \in DOMAIN records \ meddled : Labelled(s)

LEMMA InitMatch == ASSUME Match!MatchAssumption, Match!Init PROVE LabelInv
BY DEF Match!MatchAssumption, Match!Init, Match!DbInit, LabelInv

LEMMA MatchFollows == ASSUME LabelInv PROVE Match!AppliedRunLabels
BY DEF LabelInv, Labelled, Match!AppliedRunLabels

LEMMA AppendedIsIn ==
  ASSUME NEW T, NEW s \in Seq(T), NEW e \in T
  PROVE  {Append(s, e)[i] : i \in 1..Len(Append(s, e))} = {s[i] : i \in 1..Len(s)} \cup {e}
<1>1. Len(Append(s, e)) = Len(s) + 1 /\ Append(s, e)[Len(s) + 1] = e
      /\ \A i \in 1..Len(s) : Append(s, e)[i] = s[i]
  OBVIOUS
<1>2. 1..(Len(s) + 1) = 1..Len(s) \cup {Len(s) + 1} /\ Len(s) + 1 \notin 1..Len(s)
  OBVIOUS
<1>3. QED
  BY <1>1, <1>2

\* Every answer of the run adds one entry to the response.
LEMMA AnswerAdds ==
  ASSUME LabelInv, Match!Running, NEW e \in Match!Result, results' = Append(results, e),
         todo' = Tail(todo)
  PROVE  /\ Match!Entries' = Match!Entries \cup {e}
         /\ results' \in Seq(Match!Result) /\ todo' \in Seq(Candidates)
<1>1. Match!Entries' = Match!Entries \cup {e}
  BY AppendedIsIn DEF Match!Entries, LabelInv
<1>2. todo # <<>> /\ todo \in Seq(Candidates)
  BY DEF LabelInv, Match!Running
<1>3. QED
  BY <1>1, <1>2 DEF LabelInv

\* An entry for a registration does not change what the others are called.
LEMMA OthersStayLabelled ==
  ASSUME NEW e, NEW t, Match!Entries' = Match!Entries \cup {e}, UNCHANGED read,
         records'[t].domainName = records[t].domainName, Labelled(t),
         e.status # "matched" \/ e.subdomain # t
  PROVE  Labelled(t)'
<1>1. Match!MatchedTo(t)' = Match!MatchedTo(t)
  BY DEF Match!MatchedTo
<1>2. QED
  BY <1>1 DEF Labelled

LEMMA MatchedIsLabelled ==
  ASSUME NEW e, NEW t, Match!Entries' = Match!Entries \cup {e},
         e.status = "matched", e.subdomain = t, e.failed \/ records'[t].domainName = e.domain
  PROVE  Labelled(t)'
BY DEF Labelled, Match!MatchedTo

\* A match labels its registration, or says that it failed to, and keeps the others.
LEMMA MatchKeeps ==
  ASSUME LabelInv, Match!Running, NEW lookup \in Match!Lookup, NEW s \in Subdomains,
         NEW applied \in BOOLEAN, NEW fails \in BOOLEAN,
         Match!Answered("matched", lookup, s, applied, fails),
         DOMAIN records' = DOMAIN records,
         \A t \in DOMAIN records \ {s} : records'[t] = records[t],
         \A t \in DOMAIN records : "domainName" \in DOMAIN records'[t],
         \/ fails \/ (s \in DOMAIN records => records'[s].domainName = Head(todo))
         \/ UNCHANGED records /\ s \in DOMAIN read /\ (apply => read[s] = Head(todo))
  PROVE  LabelInv'
<1> DEFINE e == [domain |-> Head(todo), status |-> "matched", lookup |-> lookup, subdomain |-> s,
                 applied |-> applied, failed |-> fails]
<1>1. e \in Match!Result
  <2>1. Head(todo) \in Candidates
    BY DEF LabelInv, Match!Running
  <2>2. QED
    BY <2>1 DEF Match!Result
<1>2. results' = Append(results, e) /\ todo' = Tail(todo) /\ UNCHANGED <<apply, read, meddled>>
  BY DEF Match!Answered
<1>3. e.status = "matched" /\ e.subdomain = s /\ e.domain = Head(todo) /\ (e.failed <=> fails)
  OBVIOUS
<1> HIDE DEF e
<1>4. /\ Match!Entries' = Match!Entries \cup {e}
      /\ results' \in Seq(Match!Result) /\ todo' \in Seq(Candidates)
  BY <1>1, <1>2, AnswerAdds
<1>5. ASSUME apply, NEW t \in DOMAIN records \ meddled PROVE Labelled(t)'
  <2>1. Labelled(t)
    BY <1>5 DEF LabelInv
  <2>2. CASE t # s
    BY <1>2, <1>3, <1>4, <1>5, <2>1, <2>2, OthersStayLabelled
  <2>3. CASE t = s /\ (e.failed \/ records'[s].domainName = e.domain)
    BY <1>3, <1>4, <2>3, MatchedIsLabelled
  <2>4. CASE t = s /\ UNCHANGED records /\ s \in DOMAIN read /\ read[s] = Head(todo)
    <3>1. CASE Match!MatchedTo(s) = {} /\ records[s].domainName = read[s]
      BY <1>3, <2>3, <2>4, <3>1
    <3>2. CASE \E d \in Match!MatchedTo(s) : d.failed \/ records[s].domainName = d.domain
      BY <1>4, <2>4, <3>2 DEF Labelled, Match!MatchedTo
    <3>3. QED
      BY <2>1, <2>4, <3>1, <3>2 DEF Labelled
  <2>5. QED
    BY <1>3, <1>5, <2>2, <2>3, <2>4
<1>6. QED
  BY <1>2, <1>4, <1>5 DEF LabelInv

\* So does an answer that is no match.
LEMMA UnmatchedKeeps ==
  ASSUME LabelInv, Match!Running, NEW lookup \in Match!Lookup,
         NEW status \in {"foreign", "no_cname", "error"},
         NEW applied \in BOOLEAN, NEW fails \in BOOLEAN,
         Match!Answered(status, lookup, Match!NoSubdomain, applied, fails), UNCHANGED records
  PROVE  LabelInv'
<1> DEFINE e == [domain |-> Head(todo), status |-> status, lookup |-> lookup,
                 subdomain |-> Match!NoSubdomain, applied |-> applied, failed |-> fails]
<1>1. e \in Match!Result
  <2>1. Head(todo) \in Candidates
    BY DEF LabelInv, Match!Running
  <2>2. QED
    BY <2>1 DEF Match!Result
<1>2. results' = Append(results, e) /\ todo' = Tail(todo) /\ UNCHANGED <<apply, read, meddled>>
  BY DEF Match!Answered
<1>3. e.status # "matched"
  OBVIOUS
<1> HIDE DEF e
<1>4. /\ Match!Entries' = Match!Entries \cup {e}
      /\ results' \in Seq(Match!Result) /\ todo' \in Seq(Candidates)
  BY <1>1, <1>2, AnswerAdds
<1>5. ASSUME apply, NEW t \in DOMAIN records \ meddled PROVE Labelled(t)'
  BY <1>2, <1>3, <1>4, <1>5, OthersStayLabelled DEF LabelInv
<1>6. QED
  BY <1>2, <1>4, <1>5 DEF LabelInv

LEMMA LabelKept ==
  ASSUME Match!MatchAssumption, LabelInv, [Match!Next]_(Match!vars) PROVE LabelInv'
<1>1. ASSUME NEW list \in Lists, NEW a \in BOOLEAN, Match!Begin(list, a) PROVE LabelInv'
  <2>1. list \in Seq(Candidates) /\ results' = <<>> /\ meddled' = {} /\ read' = Match!Labels
        /\ UNCHANGED records /\ todo' = list
    BY <1>1 DEF Match!Begin, Match!MatchAssumption, Match!dbVars
  <2>2. \A s : Match!MatchedTo(s)' = {}
    BY <2>1 DEF Match!MatchedTo, Match!Entries
  <2>3. \A s \in DOMAIN records : Labelled(s)'
    BY <2>1, <2>2 DEF Labelled, Match!Labels
  <2>4. QED
    BY <2>1, <2>3 DEF LabelInv
<1>2. ASSUME NEW lookup \in Match!Lookup, Match!Running, Match!Unmatched(lookup) PROVE LabelInv'
  <2>1. UNCHANGED records
    BY <1>2 DEF Match!Unmatched, Match!dbVars
  <2>2. PICK status \in {"foreign", "no_cname", "error"}, applied \in BOOLEAN, fails \in BOOLEAN :
          Match!Answered(status, lookup, Match!NoSubdomain, applied, fails)
    BY <1>2 DEF Match!Unmatched
  <2>3. QED
    BY <1>2, <2>1, <2>2, UnmatchedKeeps
<1>3. ASSUME NEW lookup \in Match!Lookup, Match!Running, NEW s \in Subdomains, Match!Keep(lookup, s)
      PROVE  LabelInv'
  <2>1. UNCHANGED records /\ s \in DOMAIN read /\ (apply => read[s] = Head(todo))
    BY <1>3 DEF Match!Keep, Match!dbVars, Match!Matches, Match!Wanted
  <2>2. PICK applied \in BOOLEAN, fails \in BOOLEAN :
          Match!Answered("matched", lookup, s, applied, fails)
    BY <1>3 DEF Match!Keep
  <2>3. \A t \in DOMAIN records : "domainName" \in DOMAIN records'[t]
    BY <2>1 DEF LabelInv
  <2>4. QED
    BY <1>3, <2>1, <2>2, <2>3, MatchKeeps
<1>4. ASSUME NEW lookup \in Match!Lookup, Match!Running, NEW s \in Subdomains, Match!Apply(lookup, s)
      PROVE  LabelInv'
  <2>1. PICK applied \in BOOLEAN, fails \in BOOLEAN :
          /\ Match!Answered("matched", lookup, s, applied, fails)
          /\ \/ Match!UpdateDomainName(s, Head(todo))
             \/ fails /\ UNCHANGED records
    BY <1>4 DEF Match!Apply, Match!dbVars
  <2>2. /\ DOMAIN records' = DOMAIN records
        /\ fails \/ (s \in DOMAIN records => records'[s].domainName = Head(todo))
        /\ \A t \in DOMAIN records \ {s} : records'[t] = records[t]
        /\ \A t \in DOMAIN records : "domainName" \in DOMAIN records'[t]
    BY <2>1 DEF Match!UpdateDomainName, Match!SetRecord, Match!Exists, LabelInv
  <2>3. QED
    BY <1>4, <2>1, <2>2, MatchKeeps
<1>5. ASSUME NEW s \in Subdomains, Match!Administrate(s) PROVE LabelInv'
  <2>1. /\ DOMAIN records' \subseteq DOMAIN records \cup {s}
        /\ \A t \in DOMAIN records' \ {s} : records'[t] = records[t]
        /\ \A t \in DOMAIN records' : "domainName" \in DOMAIN records'[t]
    <3>1. CASE UNCHANGED records
      BY <3>1 DEF LabelInv
    <3>2. ASSUME NEW r, "domainName" \in DOMAIN r,
                 records' = [t \in DOMAIN records \cup {s} |-> IF t = s THEN r ELSE records[t]]
          PROVE  /\ DOMAIN records' \subseteq DOMAIN records \cup {s}
                 /\ \A t \in DOMAIN records' \ {s} : records'[t] = records[t]
                 /\ \A t \in DOMAIN records' : "domainName" \in DOMAIN records'[t]
      BY <3>2 DEF LabelInv
    <3>3. ASSUME NEW name, Match!Exists(s), Match!SetRecord(s, [records[s] EXCEPT !.domainName = name])
          PROVE  /\ DOMAIN records' \subseteq DOMAIN records \cup {s}
                 /\ \A t \in DOMAIN records' \ {s} : records'[t] = records[t]
                 /\ \A t \in DOMAIN records' : "domainName" \in DOMAIN records'[t]
      BY <3>3 DEF Match!SetRecord, Match!Exists, LabelInv
    <3>4. CASE records' = [t \in DOMAIN records \ {s} |-> records[t]]
      BY <3>4 DEF LabelInv
    <3>5. \A name : "domainName" \in DOMAIN Match!NewRecord({}, name)
      BY DEF Match!NewRecord
    <3>6. ASSUME NEW name \in Names, Match!RegisterWithName(s, {}, name)
          PROVE  /\ DOMAIN records' \subseteq DOMAIN records \cup {s}
                 /\ \A t \in DOMAIN records' \ {s} : records'[t] = records[t]
                 /\ \A t \in DOMAIN records' : "domainName" \in DOMAIN records'[t]
      BY <3>1, <3>2, <3>5, <3>6 DEF Match!RegisterWithName
    <3>7. ASSUME NEW name \in Names, Match!UpdateDomainName(s, name)
          PROVE  /\ DOMAIN records' \subseteq DOMAIN records \cup {s}
                 /\ \A t \in DOMAIN records' \ {s} : records'[t] = records[t]
                 /\ \A t \in DOMAIN records' : "domainName" \in DOMAIN records'[t]
      BY <3>3, <3>7 DEF Match!UpdateDomainName
    <3>8. QED
      BY <1>5, <3>1, <3>4, <3>6, <3>7 DEF Match!Administrate, Match!DeleteDomain
  <2>2. meddled' = meddled \cup {s} /\ UNCHANGED <<todo, apply, read, results>>
    BY <1>5 DEF Match!Administrate
  <2>3. ASSUME apply, NEW t \in DOMAIN records' \ meddled' PROVE Labelled(t)'
    <3>1. t # s /\ t \in DOMAIN records \ meddled /\ records'[t] = records[t]
      BY <2>1, <2>2, <2>3
    <3>2. Match!MatchedTo(t)' = Match!MatchedTo(t)
      BY <2>2 DEF Match!MatchedTo, Match!Entries
    <3>3. QED
      BY <2>2, <2>3, <3>1, <3>2 DEF LabelInv, Labelled
  <2>4. QED
    BY <2>1, <2>2, <2>3 DEF LabelInv
<1>6. CASE UNCHANGED Match!vars
  <2>1. UNCHANGED <<todo, apply, read, results, meddled, records>>
    BY <1>6 DEF Match!vars, Match!dbVars, Match!matchVars
  <2>2. \A s : Labelled(s)' <=> Labelled(s)
    BY <2>1 DEF Labelled, Match!MatchedTo, Match!Entries
  <2>3. QED
    BY <2>1, <2>2 DEF LabelInv
<1>7. QED
  BY <1>1, <1>2, <1>3, <1>4, <1>5, <1>6 DEF Match!Next, Match!Step

LEMMA MatchHolds == Spec => [](unit = "match" => LabelInv)
<1>1. Init => (unit = "match" => LabelInv)
  BY InstancesAreSound, InitMatch DEF Init
<1>2. ASSUME unit = "match" => LabelInv, [Next]_vars PROVE (unit = "match" => LabelInv)'
  BY <1>2, OneUnit, MatchStep, InstancesAreSound, LabelKept
<1>3. QED
  BY <1>1, <1>2, PTL DEF Spec

\* However administrators create, rename and delete registrations during an applied match
\* run, it leaves every registration it matched, and they left alone, with a domain that
\* resolved to it, unless the write failed (identify.go, webAdminMatchDomains).
LEMMA LabelsHold == Spec => [](unit = "match" => Match!AppliedRunLabels)
<1>1. (unit = "match" => LabelInv) => (unit = "match" => Match!AppliedRunLabels)
  BY MatchFollows
<1>2. QED
  BY <1>1, MatchHolds, PTL

\* What a run reports as applied was written: the registration was there and has the label
\* now; a result that was not applied has changed no label, whatever happened meanwhile to
\* the registrations the run has read at its beginning (identify.go, webAdminMatchDomains).
LEMMA ResultsHold == Spec => [][unit = "match" => Match!AppliedIsWritten]_vars
<1>1. ASSUME LabelInv, [Match!Next]_(Match!vars) PROVE Match!AppliedIsWritten
  <2> SUFFICES ASSUME Len(results') > Len(results)
               PROVE  LET e == results'[Len(results')]
                      IN IF e.applied THEN e.subdomain \in DOMAIN records /\ Match!Labels'[e.subdomain] = e.domain
                         ELSE Match!Labels' = Match!Labels
    BY DEF Match!AppliedIsWritten
  <2>1. results \in Seq(Match!Result) /\ Len(results) \in Nat
    BY <1>1 DEF LabelInv
  <2>2. ASSUME NEW status, NEW lookup, NEW s, NEW applied, NEW fails,
               Match!Answered(status, lookup, s, applied, fails)
        PROVE  /\ results'[Len(results')].applied = applied
               /\ results'[Len(results')].subdomain = s
               /\ results'[Len(results')].domain = Head(todo)
    <3> DEFINE e == [domain |-> Head(todo), status |-> status, lookup |-> lookup, subdomain |-> s,
                     applied |-> applied, failed |-> fails]
    <3>1. results' = Append(results, e)
      BY <2>2 DEF Match!Answered
    <3>2. e.applied = applied /\ e.subdomain = s /\ e.domain = Head(todo)
      OBVIOUS
    <3> HIDE DEF e
    <3>3. results'[Len(results')] = e
      BY <2>1, <3>1
    <3>4. QED
      BY <3>2, <3>3
  <2>3. ASSUME NEW lookup, Match!Unmatched(lookup)
        PROVE  results'[Len(results')].applied = FALSE /\ UNCHANGED records
    BY <2>2, <2>3 DEF Match!Unmatched, Match!dbVars
  <2>4. ASSUME NEW lookup, NEW s, Match!Keep(lookup, s)
        PROVE  results'[Len(results')].applied = FALSE /\ UNCHANGED records
    BY <2>2, <2>4 DEF Match!Keep, Match!dbVars
  <2>5. ASSUME NEW lookup, NEW s, Match!Apply(lookup, s)
        PROVE  \/ results'[Len(results')].applied = FALSE /\ UNCHANGED records
               \/ /\ results'[Len(results')].applied = TRUE
                  /\ results'[Len(results')].subdomain = s /\ results'[Len(results')].domain = Head(todo)
                  /\ Match!UpdateDomainName(s, Head(todo))
    BY <2>2, <2>5 DEF Match!Apply, Match!dbVars
  <2>6. ASSUME NEW s, Match!UpdateDomainName(s, Head(todo))
        PROVE  s \in DOMAIN records /\ Match!Labels'[s] = Head(todo)
    BY <1>1, <2>6 DEF Match!UpdateDomainName, Match!SetRecord, Match!Exists, Match!Labels, LabelInv
  <2>7. UNCHANGED records => Match!Labels' = Match!Labels
    BY DEF Match!Labels
  <2>8. \E lookup \in Match!Lookup :
           Match!Unmatched(lookup) \/ \E s \in Subdomains : Match!Keep(lookup, s) \/ Match!Apply(lookup, s)
    <3>1. results' # <<>> /\ results' # results
      BY <2>1
    <3>2. QED
      BY <1>1, <3>1 DEF Match!Next, Match!Step, Match!Begin, Match!Administrate, Match!vars, Match!matchVars
  <2>9. \/ results'[Len(results')].applied = FALSE /\ UNCHANGED records
        \/ \E s : /\ results'[Len(results')].applied = TRUE
                  /\ results'[Len(results')].subdomain = s /\ results'[Len(results')].domain = Head(todo)
                  /\ Match!UpdateDomainName(s, Head(todo))
    BY <2>3, <2>4, <2>5, <2>8
  <2>10. QED
    BY <2>6, <2>7, <2>9
<1>2. ASSUME unit = "match" => LabelInv, [Next]_vars PROVE unit = "match" => Match!AppliedIsWritten
  BY <1>1, <1>2, MatchStep
<1>3. QED
  BY <1>2, MatchHolds, PTL DEF Spec

\* A match run tells the truth about what it wrote and leaves the labels it found, next to
\* administrators who create, rename and delete registrations after it has read them
\* (identify.go, webAdminMatchDomains).
THEOREM RunsAreTrue == Spec => MatchRunsAreTrue
<1>1. QED
  BY LabelsHold, ResultsHold, PTL DEF MatchRunsAreTrue

------------------------------------------------------------------------------
(* The parts together *)

\* A DNS lookup waits for three timeouts at most behind whatever stalls (db.go), a list of
\* hosts for one timeout for every ptrConcurrency addresses (identify.go), and a check is
\* answered before its deadline if what is added to it covers its queries (dnscheck.go).
THEOREM WaitsEnd == ASSUME SlackSuffices PROVE Spec => []WaitsAreBounded
<1>1. /\ unit = "lock" => WaitInv
      /\ unit = "hosts" => HostsInv
      /\ unit = "check" => TimeInv
      => WaitsAreBounded
  BY InstancesAreSound, WaitFollows, HostsFollow DEF WaitsAreBounded, TimeInv
<1>2. Spec => [](unit = "check" => TimeInv)
  BY TimeHolds
<1>3. QED
  BY <1>1, <1>2, WaitHolds, HostsHold, PTL

\* Every part's state is one its code can be in.
THEOREM TypeCorrect == Spec => []TypeOK
<1>1. /\ unit = "sessions" => Sessions!GuessesInv
      /\ unit = "lock" => WaitInv
      /\ unit = "check" => CheckInv
      /\ unit = "hosts" => HostsInv
      /\ unit = "migration" => SurvivalInv
      /\ unit = "server" => Server!ServerInv
      => TypeOK
  BY InstancesAreSound, HostsFollow, Server!ServerTyped
  DEF TypeOK, Sessions!GuessesInv, WaitInv, CheckInv, SurvivalInv
<1>2. QED
  BY <1>1, SessionsHolds, WaitHolds, CheckHolds, HostsHold, MigrationHolds, ServerHolds, PTL

==============================================================================
