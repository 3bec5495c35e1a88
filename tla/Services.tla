------------------------------- MODULE Services -------------------------------
(***************************************************************************)
(* The parts of the server that do not depend on what the others do, each  *)
(* by itself: a behaviour is one of the part that unit names, and the      *)
(* variables of the others keep the value "idle".  A constant has the name *)
(* it has in its part, except where two parts use one name for two things. *)
(***************************************************************************)
EXTENDS Naturals, FiniteSets, Sequences

CONSTANTS
  \* Sessions
  Sources, Tokens, Logins, MaxFailures, Lockout, TTL,
  \* DbLock
  LockLookups, Reads, Writes, DefaultTimeout, ReadTimeout, PoolSize,
  \* DnsCheck
  Resolvers, QueryTimeout, PollInterval, TxtTimeout, Slack, QueryTimes, DbTimes, Truncation,
  \* PtrLookup
  Requests, Ips, HostNames, NoHost, PtrSlots, Ttl,
  \* Database, for MatchRun and Migration
  Subdomains, Values, NoValue, Names, Addresses, NoAddress, AllowFroms, CipherKeys, NoKey,
  MaxTime, MaxPasswords, ClockMayStepBack, InsertMayFail, CommitMayFail,
  \* MatchRun
  Candidates, Lists, Stranger, DbMayFail,
  \* Migration
  MaxCrashes, CreateMayFail, DeleteMayFail, StatementMayFail, ReadMayFail,
  \* Server
  Protos, Layouts, Taken, MayFail, ApiMayFail, Keys, NoChallenge

VARIABLES
  unit,
  tokens, failures, login, tries,
  stage, announced, left, waited,
  step, n, elapsed, start, skip, cname, failed, found, shown, verdict,
  cache, asked, pending, looking, result, took, age,
  records, txt, now, cipher, passwords, answered, written, todo, apply, read, results, meddled,
  tables, columns, versions, pc, version, unknown, crashes, misread, startFailed,
  layout, main, waitLock, dns, handler, api, errChan, acme, authKey

ofSessions == <<tokens, failures, login, tries>>
ofLock == <<stage, announced, left, waited>>
ofCheck == <<step, n, elapsed, start, skip, cname, failed, found, shown, verdict>>
ofHosts == <<cache, asked, pending, looking, result, took, age>>
ofMatch == <<now, cipher, passwords, answered, written, todo, apply, read, results, meddled>>
ofMigration == <<tables, columns, versions, pc, version, unknown, crashes, misread, startFailed>>
ofServer == <<layout, main, waitLock, dns, handler, api, errChan, acme, authKey>>
ofDatabase == <<records, txt>>
vars == <<unit, ofSessions, ofLock, ofCheck, ofHosts, ofMatch, ofMigration, ofServer, ofDatabase>>

\* Sessions and Server come with what is proved about them, for the theorems of
\* ServicesProofs.
Sessions == INSTANCE SessionsProofs WITH Addresses <- Sources
Lock == INSTANCE DbLock WITH Lookups <- LockLookups
Check == INSTANCE DnsCheck
Hosts == INSTANCE PtrLookup WITH Hosts <- HostNames, Slots <- PtrSlots
Match == INSTANCE MatchRun
Migration == INSTANCE Migration
Server == INSTANCE ServerProofs WITH NoKey <- NoChallenge

ASSUME InstancesAreSound ==
  /\ Sessions!SessionsAssumption /\ Lock!DbLockAssumption /\ Check!DnsCheckAssumption
  /\ Hosts!PtrAssumption /\ Match!DatabaseAssumption /\ Match!MatchAssumption
  /\ Migration!MigrationAssumption /\ Server!ServerAssumption

------------------------------------------------------------------------------
(* One part at a time *)

SessionsRest == tokens = "idle" /\ failures = "idle" /\ login = "idle" /\ tries = "idle"
LockRest == stage = "idle" /\ announced = "idle" /\ left = "idle" /\ waited = "idle"
CheckRest == step = "idle" /\ n = "idle" /\ elapsed = "idle" /\ start = "idle" /\ skip = "idle"
             /\ cname = "idle" /\ failed = "idle" /\ found = "idle" /\ shown = "idle"
             /\ verdict = "idle"
HostsRest == cache = "idle" /\ asked = "idle" /\ pending = "idle" /\ looking = "idle"
             /\ result = "idle" /\ took = "idle" /\ age = "idle"
MatchRest == now = "idle" /\ cipher = "idle" /\ passwords = "idle" /\ answered = "idle"
             /\ written = "idle" /\ todo = "idle" /\ apply = "idle" /\ read = "idle"
             /\ results = "idle" /\ meddled = "idle"
MigrationRest == tables = "idle" /\ columns = "idle" /\ versions = "idle" /\ pc = "idle"
                 /\ version = "idle" /\ unknown = "idle" /\ crashes = "idle" /\ misread = "idle"
                 /\ startFailed = "idle"
ServerRest == layout = "idle" /\ main = "idle" /\ waitLock = "idle" /\ dns = "idle"
              /\ handler = "idle" /\ api = "idle" /\ errChan = "idle" /\ acme = "idle"
              /\ authKey = "idle"
DatabaseRests == records = "idle" /\ txt = "idle"

Init ==
  \/ /\ unit = "sessions" /\ Sessions!Init /\ DatabaseRests
     /\ LockRest /\ CheckRest /\ HostsRest /\ MatchRest /\ MigrationRest /\ ServerRest
  \/ /\ unit = "lock" /\ Lock!Init /\ DatabaseRests
     /\ SessionsRest /\ CheckRest /\ HostsRest /\ MatchRest /\ MigrationRest /\ ServerRest
  \/ /\ unit = "check" /\ Check!Init /\ DatabaseRests
     /\ SessionsRest /\ LockRest /\ HostsRest /\ MatchRest /\ MigrationRest /\ ServerRest
  \/ /\ unit = "hosts" /\ Hosts!Init /\ DatabaseRests
     /\ SessionsRest /\ LockRest /\ CheckRest /\ MatchRest /\ MigrationRest /\ ServerRest
  \/ /\ unit = "match" /\ Match!Init
     /\ SessionsRest /\ LockRest /\ CheckRest /\ HostsRest /\ MigrationRest /\ ServerRest
  \/ /\ unit = "migration" /\ Migration!Init
     /\ SessionsRest /\ LockRest /\ CheckRest /\ HostsRest /\ MatchRest /\ ServerRest
  \/ /\ unit = "server" /\ Server!Init /\ DatabaseRests
     /\ SessionsRest /\ LockRest /\ CheckRest /\ HostsRest /\ MatchRest /\ MigrationRest

NotSessions == UNCHANGED <<unit, ofLock, ofCheck, ofHosts, ofMatch, ofMigration, ofServer, ofDatabase>>
NotLock == UNCHANGED <<unit, ofSessions, ofCheck, ofHosts, ofMatch, ofMigration, ofServer, ofDatabase>>
NotCheck == UNCHANGED <<unit, ofSessions, ofLock, ofHosts, ofMatch, ofMigration, ofServer, ofDatabase>>
NotHosts == UNCHANGED <<unit, ofSessions, ofLock, ofCheck, ofMatch, ofMigration, ofServer, ofDatabase>>
NotMatch == UNCHANGED <<unit, ofSessions, ofLock, ofCheck, ofHosts, ofMigration, ofServer>>
NotMigration == UNCHANGED <<unit, ofSessions, ofLock, ofCheck, ofHosts, ofMatch, ofServer>>
NotServer == UNCHANGED <<unit, ofSessions, ofLock, ofCheck, ofHosts, ofMatch, ofMigration, ofDatabase>>

LogIn == unit = "sessions" /\ Sessions!Next /\ NotSessions
Call == unit = "lock" /\ Lock!Next /\ NotLock
CheckDns == unit = "check" /\ Check!Next /\ NotCheck
LookUpHosts == unit = "hosts" /\ Hosts!Next /\ NotHosts
RunMatch == unit = "match" /\ Match!Next /\ NotMatch
Migrate == unit = "migration" /\ Migration!Next /\ NotMigration
Serve == unit = "server" /\ Server!Next /\ NotServer

\* A check that is done, a process that has ended and a database whose stops are used
\* up may stay as they are; the other parts always go on.
Rest == unit \in {"check", "migration", "server"} /\ UNCHANGED vars

Next == LogIn \/ Call \/ CheckDns \/ LookUpHosts \/ RunMatch \/ Migrate \/ Serve \/ Rest

\* The fairness the parts state for themselves; no property of the hosts needs theirs.
Fairness ==
  /\ WF_vars(unit = "sessions" /\ Sessions!Tick /\ NotSessions)
  /\ WF_vars(unit = "lock" /\ Lock!Tick /\ NotLock)
  /\ \A c \in Lock!Calls : WF_vars(unit = "lock" /\ Lock!TimeOut(c) /\ NotLock)
  /\ \A c \in Writes : /\ SF_vars(unit = "lock" /\ Lock!Announce(c) /\ NotLock)
                    /\ WF_vars(unit = "lock" /\ Lock!Lock(c) /\ NotLock)
  /\ WF_vars(unit = "migration" /\ Migration!Start /\ NotMigration)
  /\ WF_vars(unit = "server" /\ Server!Main /\ NotServer)
  /\ \A p \in Protos : WF_vars(unit = "server" /\ Server!Goroutine(p) /\ NotServer)
  /\ WF_vars(unit = "server" /\ Server!ApiGoroutine /\ NotServer)

Spec == Init /\ [][Next]_vars /\ Fairness

------------------------------------------------------------------------------
(* Properties: what the parts promise, stated and explained in their modules *)

\* Each part's state is one its code can be in.
TypeOK ==
  /\ unit = "sessions" => Sessions!TypeOK
  /\ unit = "lock" => Lock!TypeOK
  /\ unit = "check" => Check!TypeOK
  /\ unit = "hosts" => Hosts!TypeOK
  /\ unit = "migration" => Migration!TypeOK
  /\ unit = "server" => Server!TypeOK

\* No more passwords are tried than the limit and the logins past its check allow,
\* and neither a lock nor a session ends before its time through the logins of others
\* (adminauth.go: LockedOut, RecordFailure, Issue).
GuessesBounded == unit = "sessions" => Sessions!GuessesBounded
LocksAndSessionsHold == [][unit = "sessions" => Sessions!LocksHold /\ Sessions!SessionsHold]_vars

\* A DNS lookup waits for a bounded time behind stalled statements (db.go), a list of
\* hosts for one timeout for every so many addresses (identify.go), and a check is
\* answered before its write deadline (dnscheck.go).
WaitsAreBounded ==
  /\ unit = "lock" => Lock!LookupBounded
  /\ unit = "hosts" => Hosts!ListBounded
  /\ unit = "check" => Check!AnswerInTime

\* A host that is shown was found no longer ago than the cache may keep it (identify.go).
HostsAreFresh == unit = "hosts" => Hosts!HostsAreFresh

\* An applied match run leaves registrations with a domain that resolved to them, unless an
\* administrator changed them meanwhile; and whatever one has renamed or deleted since the
\* run read its registrations, what it reports as applied was written to a registration that
\* was there, and nothing else was (identify.go, webAdminMatchDomains).
MatchRunsAreTrue == /\ [](unit = "match" => Match!AppliedRunLabels)
                    /\ [][unit = "match" => Match!AppliedIsWritten]_vars

\* What a check says of the CNAME and of the token is what the resolvers have shown
\* (dnscheck.go).
VerdictsAreTrue == unit = "check" => Check!CnameVerdictIsTrue /\ Check!TokenVerdictIsTrue

\* The recorded version of the database means that its upgrades were made, wherever the
\* process stopped, and a server that serves has the current one (db.go).
SchemaIsSound ==
  unit = "migration" =>
    Migration!RecordedVersionIsReached /\ Migration!UpgradedHaveRows /\ Migration!ServingIsCurrent

\* Upgrades keep the values that are served, unless this start could not read the version
\* or one before it failed and left none (db.go, Init and handleDBUpgradeTo1 to To4).
ValuesSurviveRestarts == [][unit = "migration" => Migration!ValuesSurvive]_vars

\* The certificate's challenge is answered by every socket while its order waits, and
\* no certificate is ordered before the sockets listen (initialize.go, main.go).
OwnChallengeAnswered == unit = "server" => Server!ApiAfterDns /\ Server!OwnChallengeAnswered
=============================================================================
