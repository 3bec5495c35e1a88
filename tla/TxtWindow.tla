------------------------------ MODULE TxtWindow ------------------------------
(***************************************************************************)
(* What a registration's TXT storage promises, without rows or clocks: a   *)
(* registration that exists answers with the two values written last, the  *)
(* older one first.  README.md calls it the "rolling update of two TXT     *)
(* records", which a certificate for both example.org and *.example.org    *)
(* needs.  Database implements it (see RollingWindow there).               *)
(***************************************************************************)
CONSTANTS Subdomains, Values, NoValue

VARIABLES open,    \* the registrations that exist
          window   \* the last two values written, <<older, newer>>

Empty == <<NoValue, NoValue>>

Init == /\ open = {}
        /\ window = [s \in Subdomains |-> Empty]

\* A new registration starts without values.
Open(s) == /\ s \notin open
           /\ open' = open \cup {s}
           /\ window' = [window EXCEPT ![s] = Empty]

\* A write pushes the oldest value out.
Write(s, v) == /\ s \in open
               /\ window' = [window EXCEPT ![s] = <<window[s][2], v>>]
               /\ UNCHANGED open

Close(s) == /\ s \in open
            /\ open' = open \ {s}
            /\ window' = [window EXCEPT ![s] = Empty]

Next == \E s \in Subdomains : \/ Open(s)
                              \/ \E v \in Values : Write(s, v)
                              \/ Close(s)

Spec == Init /\ [][Next]_<<open, window>>
==============================================================================
