-------------------------------- MODULE MCGrid --------------------------------
(***************************************************************************)
(* The instances.  Cells: see MCCells.  Editor: two rows and two editor    *)
(* sessions, calls of focusCell that look again once, a value "v" that the *)
(* column does not accept.  Widths: two columns that may grow, the first   *)
(* with a minSize.  Body: three columns.  Scrolling: eight rows in         *)
(* answers of four, three of them high, under a header of one.             *)
(***************************************************************************)
EXTENDS Grid

x == <<"x">>
q == <<"quote", "x">>

ThePages == <<{1}, {2}>>
TheReadOnly == {<<3, 3>>}
null == <<"null">>
TheFields == {null, <<>>, x, q}
TheFormat ==
  [column \in 1..3 |-> [value \in TheFields |->
     IF value = null THEN <<>> ELSE IF column = 3 /\ value = x THEN q ELSE value]]
TheParse ==
  [column \in 1..3 |->
     IF column = 3 THEN [field \in {<<>>, q} |-> IF field = q THEN x ELSE null]
     ELSE [field \in TheFields |-> field]]
TheClearValue == [column \in {1, 3} |-> null]
TheFirstValues ==
  [cell \in (1..4) \X (1..3) |-> IF cell = <<1, 1>> THEN q ELSE IF cell[2] = 1 THEN x ELSE null]
TheUpdated == {<<3, 1>>}
TheStart == [row \in {1, 2} |-> "v"]
TheSize == <<1, 1>>
TheMinSize == <<1, 0>>
TheOrder == <<"a", "b", "c">>
==============================================================================
