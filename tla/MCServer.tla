------------------------------ MODULE MCServer ------------------------------
(***************************************************************************)
(* Instances of Server for TLC: general.protocol "udp", "tcp" or "both",   *)
(* and two orders with a key of their own.                                 *)
(***************************************************************************)
EXTENDS Server

MCProtos == {"udp", "tcp"}
MCLayouts == {<<"udp">>, <<"tcp">>, <<"udp", "tcp">>}
Both == {<<"udp", "tcp">>}
=============================================================================
