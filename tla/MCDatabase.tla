----------------------------- MODULE MCDatabase -----------------------------
(***************************************************************************)
(* Instances of Database for TLC: two registrations and one credentials    *)
(* key, for what one registration, or one process, does to another; and    *)
(* one registration with three values, for what they do to each other.     *)
(***************************************************************************)
EXTENDS Database

\* The allowfrom lists matter to module Api only.
Unrestricted == {{}}

\* The history guards nothing: runs whose properties do not read it leave it out.
WithoutHistory == <<records, txt, now, cipher, passwords, answered>>
=============================================================================
