------------------------------- MODULE MatchRun -------------------------------
(***************************************************************************)
(* pkg/api/identify.go, webAdminMatchDomains: one request that reads all   *)
(* registrations, then asks public DNS for the CNAME of each candidate     *)
(* domain in turn, reports which registration it belongs to and, with      *)
(* Apply, writes the domain onto its label.  Administrators create, rename *)
(* and delete registrations meanwhile; the run keeps what it read.         *)
(***************************************************************************)
EXTENDS Database, Sequences, SequencesExt

CONSTANTS
  Candidates, \* the domains of a request, as labels
  Lists,      \* the lists of them a request may send, duplicates removed
  Stranger,   \* a first label that is no registration's
  DbMayFail   \* UpdateDomainName may return an error

\* What the constants are; MCServices assumes it of its instance.
MatchAssumption == /\ Candidates \subseteq Names
                   /\ Lists \subseteq Seq(Candidates) /\ <<>> \notin Lists
                   /\ Stranger \notin Subdomains
                   /\ DbMayFail \in BOOLEAN

VARIABLES
  todo,     \* the candidates that are left; empty between runs
  apply,    \* the request's apply
  read,     \* bySubdomain: the labels when the run began, a partial function
  results,  \* response.Results
  meddled   \* history: registrations an administrator has changed during the run

matchVars == <<todo, apply, read, results, meddled>>
vars == <<dbVars, matchVars>>

\* lookupCNAME: a failed query, no CNAME, or a target, whose first label decides
\* whatever zone it is in.
Lookup == {[kind |-> "error"], [kind |-> "none"]}
          \cup [kind : {"target"}, label : Subdomains \cup {Stranger}]

NoSubdomain == "none"
Result == [domain : Candidates, status : {"matched", "foreign", "no_cname", "error"},
           lookup : Lookup, subdomain : Subdomains \cup {NoSubdomain},
           applied : BOOLEAN, failed : BOOLEAN]

TypeOK == /\ DbTypeOK
          /\ todo \in UNION {{SubSeq(list, n, Len(list)) : n \in 1..(Len(list) + 1)} : list \in Lists}
          /\ apply \in BOOLEAN
          /\ DOMAIN read \subseteq Subdomains /\ read \in [DOMAIN read -> Names]
          /\ \A n \in 1..Len(results) : results[n] \in Result
          /\ meddled \subseteq Subdomains

Init == /\ DbInit
        /\ todo = <<>> /\ apply = FALSE /\ results = <<>> /\ meddled = {}
        /\ read = [s \in {} |-> {}]

Labels == [s \in DOMAIN records |-> records[s].domainName]
Running == todo # <<>>

------------------------------------------------------------------------------
Begin(list, a) ==
  /\ ~Running
  /\ todo' = list /\ apply' = a /\ read' = Labels /\ results' = <<>> /\ meddled' = {}
  /\ UNCHANGED dbVars

\* The candidate leaves the list with its result.
Answered(status, lookup, s, applied, failed) ==
  /\ results' = Append(results,
       [domain |-> Head(todo), status |-> status, lookup |-> lookup, subdomain |-> s,
        applied |-> applied, failed |-> failed])
  /\ todo' = Tail(todo)
  /\ UNCHANGED <<apply, read, meddled>>

Unmatched(lookup) ==
  /\ \/ lookup.kind = "error" /\ Answered("error", lookup, NoSubdomain, FALSE, FALSE)
     \/ lookup.kind = "none" /\ Answered("no_cname", lookup, NoSubdomain, FALSE, FALSE)
     \/ /\ lookup.kind = "target" /\ lookup.label \notin DOMAIN read
        /\ Answered("foreign", lookup, NoSubdomain, FALSE, FALSE)
  /\ UNCHANGED dbVars

Matches(lookup, s) == lookup.kind = "target" /\ lookup.label = s /\ s \in DOMAIN read

\* Mutant of Wanted: only registrations without a label get one.
OnlyUnlabelled(s) == apply /\ read[s] \notin Candidates

Wanted(s) == apply /\ read[s] # Head(todo)

Keep(lookup, s) ==
  /\ Matches(lookup, s) /\ ~Wanted(s)
  /\ Answered("matched", lookup, s, FALSE, FALSE)
  /\ UNCHANGED dbVars

\* Mutant of Apply: the error of the write is not looked at.
ApplyUnchecked(lookup, s) ==
  /\ Matches(lookup, s) /\ Wanted(s)
  /\ Answered("matched", lookup, s, TRUE, FALSE)
  /\ UpdateDomainName(s, Head(todo)) \/ UNCHANGED dbVars

\* The row may be gone by now, or the statement may fail: the result says so.
Apply(lookup, s) ==
  /\ Matches(lookup, s) /\ Wanted(s)
  /\ \/ UpdateDomainName(s, Head(todo)) /\ Answered("matched", lookup, s, TRUE, FALSE)
     \/ /\ ~Exists(s) \/ DbMayFail
        /\ Answered("matched", lookup, s, FALSE, TRUE)
        /\ UNCHANGED dbVars

Step(lookup) == Unmatched(lookup) \/ \E s \in Subdomains : Keep(lookup, s) \/ Apply(lookup, s)

\* The administrators' other requests, each one writing call.
Administrate(s) ==
  /\ \/ \E name \in Names : RegisterWithName(s, {}, name)
     \/ \E name \in Names : UpdateDomainName(s, name)
     \/ DeleteDomain(s)
  /\ meddled' = meddled \cup {s}
  /\ UNCHANGED <<todo, apply, read, results>>

Next == \/ \E list \in Lists, a \in BOOLEAN : Begin(list, a)
        \/ Running /\ \E lookup \in Lookup : Step(lookup)
        \/ \E s \in Subdomains : Administrate(s)

Spec == Init /\ [][Next]_vars

------------------------------------------------------------------------------
(* Properties *)

Entries == {results[n] : n \in 1..Len(results)}
MatchedTo(s) == {e \in Entries : e.status = "matched" /\ e.subdomain = s}

\* After a run that was to apply its matches, a registration carries one of the
\* domains that resolved to it, whatever it was called when the run began, unless
\* the write failed or an administrator changed it meanwhile.
AppliedRunLabels ==
  ~Running /\ apply =>
    \A s \in DOMAIN records \ meddled :
      MatchedTo(s) = {} \/ (\E e \in MatchedTo(s) : e.failed \/ records[s].domainName = e.domain)

\* A match that is reported as applied was so: the registration existed and got the
\* label, and a result that was not applied did not change one.
AppliedIsWritten ==
  Len(results') > Len(results) =>
    LET e == results'[Len(results')]
    IN IF e.applied THEN e.subdomain \in DOMAIN records /\ Labels'[e.subdomain] = e.domain
       ELSE Labels' = Labels
==============================================================================
