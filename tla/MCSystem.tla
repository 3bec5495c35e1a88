------------------------------- MODULE MCSystem -------------------------------
(***************************************************************************)
(* Instances of System for TLC.  One registration, as two meet only in the *)
(* keys of the tables; two requests in flight, so that every pair of       *)
(* handlers interleaves; two seconds, so that writes share one or do not.  *)
(* The zone has an address, an alias and a TXT record of its own; queries  *)
(* are for each of these names, for the registration here and in another   *)
(* zone, and for strangers.                                                *)
(***************************************************************************)
EXTENDS System, TLC

CONSTANTS ip1, ip2, s1

\* Two requests differ in their names only.
Interchangeable == Permutations(Requests)

\* One list admits everybody, the other a single address.
SomeLists == {{}, {ip1}}

Own == <<"auth", "org">>
MCStatic == {RR(Own, "SOA", "soa"), RR(Own, "A", "addr"), RR(Own, "TXT", "note"),
             RR(<<"www", "org">>, "CNAME", "alias")}
MCQueryNames == {Own, <<"org">>, <<"www", "org">>, <<Challenge>> \o Own,
                 <<s1>> \o Own, <<s1, "net">>}
==============================================================================
