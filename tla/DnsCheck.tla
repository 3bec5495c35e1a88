------------------------------- MODULE DnsCheck -------------------------------
(***************************************************************************)
(* pkg/api/dnscheck.go: one verification run.  The CNAME of the challenge  *)
(* name is asked of the resolvers in turn until one gives a definitive     *)
(* answer; then a token is written into the registration and all resolvers *)
(* are polled for it until one shows it or the time is up.  Time is kept   *)
(* in seconds, since the response has a deadline of its own to meet.       *)
(***************************************************************************)
EXTENDS Naturals

CONSTANTS
  Resolvers,     \* how many resolvers are asked
  QueryTimeout,  \* dnsQueryTimeout
  PollInterval,  \* txtPollInterval
  TxtTimeout,    \* txtTimeout()
  Slack,         \* what webDNSCheck adds to it for the write deadline
  QueryTimes,    \* bound: how long an answered query may take
  DbTimes,       \* bound: how long DB.Update may take
  Truncation     \* an answer over UDP may be truncated and asked for again over TCP

\* What the constants are; MCServices assumes it of its instance.
DnsCheckAssumption ==
  /\ {Resolvers, QueryTimeout, PollInterval} \subseteq Nat \ {0}
  /\ {TxtTimeout, Slack} \subseteq Nat
  /\ QueryTimes \subseteq 0..QueryTimeout
  /\ DbTimes \subseteq Nat
  /\ Truncation \in BOOLEAN

VARIABLES
  step,     \* what the run does next
  n,        \* the resolver to ask next
  elapsed,  \* seconds since the write deadline was set
  start,    \* when polling began
  skip,     \* the request's skip_txt
  cname,    \* what public DNS has at the challenge name
  failed,   \* whether a query for the CNAME has failed
  found,    \* whether a resolver of this round showed the token
  shown,    \* history: whether a resolver ever showed it
  verdict   \* the response

vars == <<step, n, elapsed, start, skip, cname, failed, found, shown, verdict>>
world == <<skip, cname>>

Verdicts == {"pending", "dns_error", "no_cname", "wrong_target", "db_error", "not_found", "valid"}

TypeOK == /\ step \in {"cname", "judge", "write", "poll", "pause", "done"}
          /\ n \in 1..(Resolvers + 1)
          /\ elapsed \in Nat /\ start \in 0..elapsed
          /\ {skip, failed, found, shown} \subseteq BOOLEAN
          /\ cname \in {"right", "wrong", "none"}
          /\ verdict \in Verdicts
          /\ verdict = "pending" <=> step # "done"

Init == /\ step = "cname" /\ n = 1 /\ elapsed = 0 /\ start = 0
        /\ skip \in BOOLEAN /\ cname \in {"right", "wrong", "none"}
        /\ failed = FALSE /\ found = FALSE /\ shown = FALSE
        /\ verdict = "pending"

\* How long an answered query takes, and one that fails: at once, or by its timeout.
Answers == QueryTimes
           \cup IF Truncation THEN {s + t : s \in QueryTimes, t \in QueryTimes} ELSE {}
Failures == {0, QueryTimeout}
            \cup IF Truncation THEN {t + QueryTimeout : t \in QueryTimes} ELSE {}

After(t) == elapsed' = elapsed + t
Done(v) == step' = "done" /\ verdict' = v

------------------------------------------------------------------------------
(* lookupCNAME *)

CnameAnswered ==
  /\ step = "cname" /\ n <= Resolvers
  /\ \E t \in Answers : After(t)
  /\ step' = "judge"
  /\ failed' = FALSE
  /\ UNCHANGED <<n, start, world, found, shown, verdict>>

\* A timeout, or an answer such as SERVFAIL: the next resolver is asked.
CnameFailed ==
  /\ step = "cname" /\ n <= Resolvers
  /\ \E t \in Failures \cup Answers : After(t)
  /\ failed' = TRUE
  /\ n' = n + 1
  /\ step' = IF n = Resolvers THEN "judge" ELSE "cname"
  /\ UNCHANGED <<start, world, found, shown, verdict>>

\* Mutant of Judge: without a definitive answer there is no CNAME, and no error.
JudgeLastAnswer ==
  /\ step = "judge"
  /\ IF failed \/ cname = "none" THEN Done("no_cname")
     ELSE IF cname = "wrong" THEN Done("wrong_target")
     ELSE IF skip THEN Done("valid") ELSE step' = "write" /\ UNCHANGED verdict
  /\ UNCHANGED <<n, elapsed, start, world, failed, found, shown>>

\* Mutant of Judge: a CNAME to the wrong target does not end the run.
JudgeGoesOn ==
  /\ step = "judge"
  /\ IF failed THEN Done("dns_error")
     ELSE IF cname = "none" THEN Done("no_cname")
     ELSE IF cname = "wrong" THEN step' = "write" /\ verdict' = "wrong_target"
     ELSE IF skip THEN Done("valid") ELSE step' = "write" /\ UNCHANGED verdict
  /\ UNCHANGED <<n, elapsed, start, world, failed, found, shown>>

\* runDNSCheck after lookupCNAME
Judge ==
  /\ step = "judge"
  /\ IF failed THEN Done("dns_error")
     ELSE IF cname = "none" THEN Done("no_cname")
     ELSE IF cname = "wrong" THEN Done("wrong_target")
     ELSE IF skip THEN Done("valid") ELSE step' = "write" /\ UNCHANGED verdict
  /\ UNCHANGED <<n, elapsed, start, world, failed, found, shown>>

------------------------------------------------------------------------------
(* The token *)

Write ==
  /\ step = "write"
  /\ \E t \in DbTimes : /\ After(t)
                        /\ \/ step' = "poll" /\ start' = elapsed + t /\ UNCHANGED verdict
                           \/ Done("db_error") /\ UNCHANGED start
  /\ n' = 1
  /\ UNCHANGED <<world, failed, found, shown>>

\* Mutant of Poll: only the last answer of a round counts.
PollLastAnswer ==
  /\ step = "poll" /\ n <= Resolvers
  /\ \/ \E t \in Answers, sees \in BOOLEAN :
          After(t) /\ found' = sees /\ shown' = (shown \/ sees)
     \/ \E t \in Failures : After(t) /\ UNCHANGED <<found, shown>>
  /\ n' = n + 1
  /\ UNCHANGED <<step, start, world, failed, verdict>>

\* lookupTXT asks every resolver, also after one has shown the token.
Poll ==
  /\ step = "poll" /\ n <= Resolvers
  /\ \/ \E t \in Answers, sees \in BOOLEAN :
          After(t) /\ found' = (found \/ sees) /\ shown' = (shown \/ sees)
     \/ \E t \in Failures : After(t) /\ UNCHANGED <<found, shown>>
  /\ n' = n + 1
  /\ UNCHANGED <<step, start, world, failed, verdict>>

\* Mutant of TimeIsUp: the pause before the next round is left out of the count.
DeadlinePassed == elapsed > start + TxtTimeout

\* pollTXT gives up when the next round could not begin in time.
TimeIsUp == elapsed + PollInterval > start + TxtTimeout

RoundEnds ==
  /\ step = "poll" /\ n = Resolvers + 1
  /\ IF found THEN Done("valid")
     ELSE IF TimeIsUp THEN Done("not_found") ELSE step' = "pause" /\ UNCHANGED verdict
  /\ UNCHANGED <<n, elapsed, start, world, failed, found, shown>>

Pause ==
  /\ step = "pause"
  /\ After(PollInterval) /\ step' = "poll" /\ n' = 1
  /\ UNCHANGED <<start, world, failed, found, shown, verdict>>

Next == CnameAnswered \/ CnameFailed \/ Judge \/ Write \/ Poll \/ RoundEnds \/ Pause

Spec == Init /\ [][Next]_vars

------------------------------------------------------------------------------
(* Properties *)

\* What the response says of the CNAME is what public DNS has, as soon as one
\* resolver gives a definitive answer, and an error only when none does
\* (dnscheck.go:260-283).
CnameVerdictIsTrue ==
  /\ verdict = "no_cname" => cname = "none"
  /\ verdict = "wrong_target" => cname = "wrong"
  /\ verdict \in {"valid", "not_found", "db_error"} => cname = "right"
  /\ verdict = "dns_error" => n = Resolvers + 1

\* The token is not declared invisible before every resolver has been asked up to
\* the last moment a round can begin, nor when one has shown it (dnscheck.go:303-317).
TokenVerdictIsTrue ==
  /\ verdict = "not_found" => ~shown /\ elapsed + PollInterval > start + TxtTimeout
  /\ verdict = "valid" => skip \/ shown

Deadline == TxtTimeout + Slack

\* dnscheck.go:119-120 pushes the "deadline out so the connection is not closed
\* mid-check": so it does for three resolvers that answer over UDP and a write that
\* takes no time.  It does not for a longer list of resolvers, nor when an answer
\* has to be asked for again over TCP or the database keeps the run waiting.
AnswerInTime == elapsed <= Deadline
==============================================================================
