------------------------------- MODULE GridBody -------------------------------
(***************************************************************************)
(* What the data grid renders below its column group (data-grid-table.tsx, *)
(* data-grid-table-virtual.tsx), and when (data-grid.tsx).  The column     *)
(* group, the head and the add row follow the table in every render.  The  *)
(* body does not: while a column is resized or cells are selected it is    *)
(* rendered only when the context of the grid has a new value, and then    *)
(* with the properties of the last render before the drag.                 *)
(*                                                                         *)
(* A row is the sequence of its cells, a cell the pair of what it shows    *)
(* and the number of columns it spans.  Columns are not grouped.           *)
(***************************************************************************)
EXTENDS SequencesExt, FiniteSetsExt

CONSTANTS
  Order,      \* the columns in columnOrder
  Views,      \* "plain": DataGridTable, "virtual": DataGridTableVirtual,
              \* "dnd": DataGridTableDndRows and DataGridTableDnd
  MaxActs     \* how often something happens

VARIABLES
  view, resizable, spinner,   \* the table, columnsResizable, loadingMode
  pin, hidden,                \* columnPinning and columnVisibility
  filled, loading, expanded,  \* there are rows, isLoading, one row is expanded
  offscreen,                  \* the virtual table has rows that are not mounted
  window,                     \* the center columns it mounts; <<>> for all of them
  held,                       \* a column is resized or cells are selected
  body, bodyWindow,           \* the rows of the last render of the body, and its window
  acts

vars == <<view, resizable, spinner, pin, hidden, filled, loading, expanded, offscreen,
          window, held, body, bodyWindow, acts>>

Columns == ToSet(Order)
Sides == {"start", "center", "end"}

\* What the constants are; Grid assumes it of its instance.
GridBodyAssumption ==
  /\ Order \in Seq(Columns) /\ \A i, j \in DOMAIN Order : Order[i] = Order[j] => i = j
  /\ Columns \cap {"fill", "spacer", "all", "note", "skeleton"} = {}
  /\ Views \subseteq {"plain", "virtual", "dnd"} /\ MaxActs \in Nat

------------------------------------------------------------------------------
(* The columns of a table *)

\* The visible columns of a side, in their order.
Side(side) ==
  LET upTo[n \in 0..Len(Order)] ==
        IF n = 0 THEN <<>>
        ELSE IF Order[n] \notin hidden /\ pin[Order[n]] = side THEN Append(upTo[n - 1], Order[n])
        ELSE upTo[n - 1]
  IN upTo[Len(Order)]

\* hasDataGridTableRightPinnedColumns: a hidden column counts.
EndPinned == \E c \in Columns : pin[c] = "end"

\* The filler strip, which only resizable columns have: before the columns pinned to
\* the end, or last.
WithFill(front, fill, end) ==
  IF ~resizable THEN front \o end
  ELSE IF EndPinned THEN front \o fill \o end ELSE front \o end \o fill

\* The colgroup of DataGridTableBase.
ColGroup ==
  LET start == Side("start") \o Side("center")
  IN IF ~resizable THEN start \o Side("end")
     ELSE IF EndPinned THEN start \o <<"fill">> \o Side("end")
     ELSE start \o Side("end") \o <<"fill">>

------------------------------------------------------------------------------
(* The rows *)

Cells(columns) == [i \in DOMAIN columns |-> <<columns[i], 1>>]
Wide(what, n) == IF n > 0 THEN << <<what, n>> >> ELSE <<>>

\* The center cells inside the window, and one spacer for each side of it.
Windowed(columns, w) ==
  IF w = <<>> THEN Cells(columns)
  ELSE Wide("spacer", w[1] - 1) \o Cells(SubSeq(columns, w[1], Min({w[2], Len(columns)})))
       \o Wide("spacer", Len(columns) - w[2])

\* The tables whose rows or columns are dragged have their filler cell at the end,
FillAtEnd(cells) == IF resizable THEN cells \o Wide("fill", 1) ELSE cells
DraggableRow == FillAtEnd(Cells(Side("start") \o Side("center") \o Side("end")))

\* and skeletons in the order in which the columns are defined.
DraggableSkeleton ==
  FillAtEnd([i \in 1..Cardinality(Columns \ hidden) |-> <<"skeleton", 1>>])

\* DataGridTableRenderedRow, and the row of the head.
DataRow(w) ==
  IF view = "dnd" THEN DraggableRow
  ELSE WithFill(Cells(Side("start")) \o Windowed(Side("center"), w),
                Wide("fill", 1), Cells(Side("end")))

\* The rows that are one cell: expanded, empty, spinner and add row.
WholeRow ==
  Wide("all", Max({Len(Order) - Cardinality(hidden) + (IF resizable THEN 1 ELSE 0), 1}))

\* DataGridTableVirtualUtilityRow: one cell for the center columns.
UtilityRow ==
  WithFill(Cells(Side("start")) \o Wide("note", Max({Len(Side("center")), 1})),
           Wide("fill", 1), Cells(Side("end")))

\* DataGridTableBodyRows and the bodies of the draggable tables, which know no spinner.
LoadedBody ==
  {IF filled THEN DataRow(<<>>) ELSE WholeRow} \cup (IF filled /\ expanded THEN {WholeRow} ELSE {})

PlainBody ==
  IF ~loading THEN LoadedBody ELSE {IF spinner THEN WholeRow ELSE DataRow(<<>>)}

DraggableBody ==
  IF loading /\ ~spinner THEN {DraggableSkeleton} ELSE LoadedBody

VirtualBody ==
  IF ~filled THEN {IF loading THEN UtilityRow ELSE WholeRow}
  ELSE {DataRow(bodyWindow)} \cup (IF offscreen THEN {UtilityRow} ELSE {})
       \cup (IF expanded THEN {WholeRow} ELSE {})

Body ==
  CASE view = "plain" -> PlainBody
    [] view = "virtual" -> VirtualBody
    [] view = "dnd" -> DraggableBody

------------------------------------------------------------------------------
(* Steps: each one ends with a render *)

Act == acts < MaxActs /\ acts' = acts + 1
Props == <<view, resizable, spinner>>

\* Which windows the virtualizer of the columns decides on is a library's affair.
Windows(n) ==
  IF view # "virtual" \/ n = 0 THEN {<<>>}
  ELSE {<<>>} \cup {w \in (1..n) \X (1..n) : w[1] <= w[2]}

\* The body in a render: an equal context leaves it as it is during a drag.
RenderBody(republished) ==
  /\ bodyWindow' = IF held' THEN bodyWindow ELSE window'
  /\ IF held' /\ ~republished THEN UNCHANGED body ELSE body' = Body'

Render(republished) ==
  /\ window' \in Windows(Len(Side("center")'))
  /\ RenderBody(republished)

\* Mutant of MoveColumn: the pinning is no dependency of the context.
MoveColumnUnseen(c, side) ==
  /\ Act /\ side # pin[c]
  /\ pin' = [pin EXCEPT ![c] = side]
  /\ UNCHANGED <<Props, hidden, filled, loading, expanded, offscreen, held>>
  /\ Render(FALSE)

MoveColumn(c, side) ==
  /\ Act /\ side # pin[c]
  /\ pin' = [pin EXCEPT ![c] = side]
  /\ UNCHANGED <<Props, hidden, filled, loading, expanded, offscreen, held>>
  /\ Render(TRUE)

ShowOrHide(c) ==
  /\ Act
  /\ hidden' = IF c \in hidden THEN hidden \ {c} ELSE hidden \cup {c}
  /\ UNCHANGED <<Props, pin, filled, loading, expanded, offscreen, held>>
  /\ Render(TRUE)

\* isLoading is a dependency of the context, the data is not.
Load ==
  /\ Act /\ ~loading /\ loading' = TRUE
  /\ UNCHANGED <<Props, pin, hidden, filled, expanded, offscreen, held>>
  /\ Render(TRUE)

Answer(rows) ==
  /\ loading /\ loading' = FALSE /\ filled' = rows
  /\ UNCHANGED <<Props, pin, hidden, expanded, offscreen, held, acts>>
  /\ Render(TRUE)

SetData(rows) ==
  /\ Act /\ filled' = rows
  /\ UNCHANGED <<Props, pin, hidden, loading, expanded, offscreen, held>>
  /\ Render(FALSE)

Expand ==
  /\ Act /\ expanded' = ~expanded
  /\ UNCHANGED <<Props, pin, hidden, filled, loading, offscreen, held>>
  /\ Render(TRUE)

Scroll ==
  /\ Act /\ view = "virtual" /\ offscreen' \in BOOLEAN
  /\ UNCHANGED <<Props, pin, hidden, filled, loading, expanded, held>>
  /\ Render(FALSE)

Hold ==
  /\ Act /\ ~held /\ held' = TRUE
  /\ UNCHANGED <<Props, pin, hidden, filled, loading, expanded, offscreen>>
  /\ Render(FALSE)

\* The library ends the drag, with a state change or without one.
Release ==
  /\ held /\ held' = FALSE
  /\ UNCHANGED <<Props, pin, hidden, filled, loading, expanded, offscreen, acts>>
  /\ Render(FALSE) \/ UNCHANGED <<window, body, bodyWindow>>

Init ==
  /\ view \in Views /\ resizable \in BOOLEAN /\ spinner \in BOOLEAN
  /\ pin = [c \in Columns |-> "center"] /\ hidden = {}
  /\ filled \in BOOLEAN /\ loading = TRUE /\ expanded = FALSE /\ offscreen = FALSE
  /\ window = <<>> /\ held = FALSE /\ bodyWindow = <<>> /\ acts = 0
  /\ body = Body

Next ==
  \/ Load \/ Expand \/ Scroll \/ Hold \/ Release
  \/ \E rows \in BOOLEAN : Answer(rows) \/ SetData(rows)
  \/ \E c \in Columns : ShowOrHide(c) \/ \E side \in Sides : MoveColumn(c, side)

Spec == Init /\ [][Next]_vars

------------------------------------------------------------------------------
(* Properties *)

TypeOK ==
  /\ pin \in [Columns -> Sides] /\ hidden \subseteq Columns
  /\ {filled, loading, expanded, offscreen, held} \subseteq BOOLEAN
  /\ window \in Windows(Len(Side("center"))) /\ acts \in 0..MaxActs

\* How many columns the first i cells of a row span.
Before(row, i) ==
  LET upTo[n \in 0..Len(row)] == IF n = 0 THEN 0 ELSE upTo[n - 1] + row[n][2]
  IN upTo[i]

\* The cells of a row fill the column group, and stand below their own columns.
Aligned(row) ==
  /\ Before(row, Len(row)) = Len(ColGroup)
  /\ \A i \in DOMAIN row :
       row[i][1] \in Columns \cup {"fill"} => ColGroup[Before(row, i - 1) + 1] = row[i][1]

\* Every row of the table, the head and the add row too, spans the columns of the
\* column group and no other, whatever is hidden, pinned, expanded or loaded, and in
\* the middle of a drag, when the body is only rendered if the context has changed
\* (data-grid.tsx, the dependencies of the context; DataGridTableRenderedRow).  Left out
\* are a table without a center column, where the notes of the virtual table keep one
\* cell, a drag in which the columns the window counts have become fewer, and draggable
\* tables with a column pinned to the end, whose filler cell is not under its strip; of
\* the skeletons in a draggable table, which need not be in order, only the number counts.
RowsSpanTable ==
  /\ Side("center") # <<>>
  /\ ~(view = "dnd" /\ resizable /\ EndPinned)
  /\ bodyWindow # <<>> => bodyWindow[2] <= Len(Side("center"))
  => \A row \in body \cup {DataRow(window), WholeRow} : Aligned(row)
==============================================================================
