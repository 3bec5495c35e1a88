------------------------------- MODULE MCWidths -------------------------------
(***************************************************************************)
(* Two columns of one size, of which one may be made narrower and the other *)
(* is the candidate that grows into free space.                            *)
(***************************************************************************)
EXTENDS ColumnWidths
TheSize == [c \in Columns |-> 1]
TheMinSize == [c \in Columns |-> IF c = 1 THEN 1 ELSE 0]
==============================================================================
