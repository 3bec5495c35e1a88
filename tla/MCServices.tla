------------------------------ MODULE MCServices ------------------------------
(***************************************************************************)
(* Instances of Services for TLC.  Sessions: two addresses, two logins in  *)
(* flight, two failures lock.  Lock: a DNS lookup, another read and two    *)
(* writes on a pool of one connection.  Check: the three default           *)
(* resolvers.  Hosts: two lists at a time over one cache and one slot for  *)
(* two addresses.  Match: two candidates that may both resolve to one      *)
(* registration.  Migration: two registrations and three stops of the      *)
(* process.  Server: one DNS server or two, and an address in use for one  *)
(* of them.                                                                *)
(***************************************************************************)
EXTENDS Services

\* Everybody may update: what the lists do is in module Api.
Unrestricted == {{}}

OneOrTwoCandidates == {<<"d1">>, <<"d1", "d2">>}
OneOrTwoServers == {<<"udp">>, <<"tcp">>, <<"udp", "tcp">>}

------------------------------------------------------------------------------
(* What must happen in the end; no theorem states it *)

\* Every call of the database returns, no address stays locked out, and the failure of
\* a server ends the process (db.go, adminauth.go, main.go); of the two writes and the
\* two addresses, which are alike, one stands for both.
NothingWaitsForever ==
  /\ \A c \in {"q1", "r1", "w1"} :
       (unit = "lock" /\ stage[c] # "idle") ~> (unit = "lock" => stage[c] = "idle")
  /\ (unit = "sessions" /\ Sessions!LockedOut("ip1"))
       ~> (unit = "sessions" => ~Sessions!LockedOut("ip1"))
  /\ (unit = "server" /\ \E p \in Protos : Server!Fatal(p))
       ~> (unit = "server" => main.at = "gone")

\* However often the process stops, the database is current in the end (db.go, Init).
EventuallyCurrent == <>[](unit = "migration" => Migration!Settled)
==============================================================================
