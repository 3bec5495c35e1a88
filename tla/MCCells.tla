------------------------------- MODULE MCCells -------------------------------
(***************************************************************************)
(* A grid of four rows and three columns: the first page shows row 1, the  *)
(* second row 2, rows 3 and 4 are pinned below.  Column 2 cannot be        *)
(* selected, one cell of column 3 is read-only.  Column 3 has a format and *)
(* a parse: it shows x as a quoted field, reads that one back as x, an     *)
(* empty field as null, and takes no other.                                *)
(***************************************************************************)
EXTENDS CellSelection

x == <<"x">>
q == <<Quote, "x">>
null == <<"null">>
TheValues == {null, <<>>, x, q}
TheFormat ==
  [column \in 1..3 |-> [value \in TheValues |->
     IF value = null THEN <<>> ELSE IF column = 3 /\ value = x THEN q ELSE value]]
TheParse ==
  [column \in 1..3 |->
     IF column = 3 THEN [field \in {<<>>, q} |-> IF field = q THEN x ELSE null]
     ELSE [field \in TheValues |-> field]]
TheClearValue == [column \in {1, 3} |-> null]
TheStart == [cell \in (1..4) \X (1..3) |-> IF cell = <<1, 1>> THEN q ELSE IF cell[2] = 1 THEN x ELSE null]
ThePages == <<{1}, {2}>>
TheUpdated == {<<3, 1>>}
TheReadOnly == {<<3, 3>>}
==============================================================================
