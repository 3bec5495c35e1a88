---------------------------- MODULE CellSelection ----------------------------
(***************************************************************************)
(* The spreadsheet controller of the data grid                             *)
(* (data-grid-cell-selection.tsx): which cells are selected, where a key   *)
(* takes the selection, and the batches of changes that delete, cut, paste *)
(* and the fill handle hand to the consumer.  Rows are numbered in display *)
(* order and columns in render order; a page shows some of the rows, and   *)
(* the rows pinned to the bottom are shown on every page, so that a        *)
(* selection can span rows that nobody sees.                               *)
(*                                                                         *)
(* The selection itself (ranges, focus, extendCellSelection,               *)
(* moveCellSelection, selectAllCells) is a feature of the table library,   *)
(* which is not part of the repository: it is modelled from how this code  *)
(* uses it.                                                                *)
(***************************************************************************)
EXTENDS Integers, Sequences, FiniteSetsExt, Clipboard

CONSTANTS
  NumRows, NumColumns,
  Pages,        \* the sets of rows the pages show
  Pinned,       \* the rows below that are shown on every page
  Selectable,   \* the columns without enableCellSelection = false
  Writable,     \* the columns with a cellEdit whose editable is not false
  ReadOnly,     \* the cells for which a function-form editable says no
  Values,       \* what a cell may hold; a field of the clipboard is one of them
  FormatOf,     \* for each column the field its format shows a value as, String(value ?? "")
                \* where it has none
  ParseOf,      \* for each writable column what its parse makes of the fields it accepts,
                \* the field itself where it has none
  Parsing,      \* the columns that have one
  ClearValue,   \* for each writable column the value it is cleared to, null by default
  Start,        \* what the cells hold at first
  MaxBatches,   \* how many batches the user causes
  Updated,      \* the cells the consumer changes by itself
  MaxUpdates    \* how many times it does

NoCell == <<0, 0>>
NoText == <<"no text">>

Rows == 1..NumRows
Columns == 1..NumColumns
Cells == Rows \X Columns

\* What the constants are; Grid assumes it of its instance.
CellSelectionAssumption ==
  /\ NumRows \in Nat /\ NumColumns \in Nat
  /\ 1 \in DOMAIN Pages /\ \A p \in DOMAIN Pages : Pages[p] \subseteq Rows
  /\ Pinned \subseteq Rows /\ Selectable \subseteq Columns
  /\ Start \in [Cells -> Values] /\ ClearValue \in [Writable -> Values]
  /\ \A c \in Columns, value \in Values : FormatOf[c][value] \in Values
  /\ \A c \in Writable : \A field \in DOMAIN ParseOf[c] : ParseOf[c][field] \in Values
  /\ \A field \in Values : field \in Seq({field[i] : i \in DOMAIN field})

VARIABLES
  data,      \* what the cells hold
  page,      \* the page that is shown
  focus,     \* the focused cell, NoCell when there is none
  ranges,    \* the selected ranges, the newest last
  clip,      \* the text on the clipboard
  cutting,   \* a cut by the keyboard waits for the clipboard
  drag,      \* the fill handle is being dragged
  last,      \* the last batch handed to the consumer, and the data before it
  batches, updates

\* The user works with the grid until the last batch.
Idle == ~drag.on /\ batches < MaxBatches

selection == <<focus, ranges>>
bounded == <<batches, updates>>
vars == <<data, page, focus, ranges, clip, cutting, drag, last, batches, updates>>

NoDrag == [on |-> FALSE, bound |-> <<>>, rendered |-> {}, axis |-> "none", count |-> 0,
           data |-> Start]
NoBatch == [source |-> "none", changes |-> {}, rejected |-> {}, before |-> Start, stale |-> FALSE,
            shown |-> {}, selected |-> {}]

------------------------------------------------------------------------------
(* Geometry *)

Lesser(m, n) == IF m < n THEN m ELSE n
Greater(m, n) == IF m < n THEN n ELSE m

Bound(range) ==
  [top |-> Lesser(range.anchor[1], range.far[1]), bottom |-> Greater(range.anchor[1], range.far[1]),
   left |-> Lesser(range.anchor[2], range.far[2]), right |-> Greater(range.anchor[2], range.far[2])]

Bounds == {Bound(ranges[i]) : i \in DOMAIN ranges}
Within(cell, b) == cell[1] \in b.top..b.bottom /\ cell[2] \in b.left..b.right

\* getCellSelectionBounds sorts geometrically.
Before(a, b) == a.top < b.top \/ (a.top = b.top /\ a.left <= b.left)
LastBound == CHOOSE b \in Bounds : \A a \in Bounds : Before(a, b)
FirstOf(bs) == CHOOSE b \in bs : \A a \in bs : Before(b, a)

ActiveBound ==
  LET containing == {b \in Bounds : Within(focus, b)}
  IN IF containing # {} THEN FirstOf(containing) ELSE LastBound

\* The rows the view can show: the page's and those pinned outside it.
Rendered == Pages[page] \union Pinned

WritableCell(cell) == cell[2] \in Writable /\ cell \notin ReadOnly

\* Mutant of Painted: rows of other pages are not left out.
PaintedAnyRow(b) == (b.top..b.bottom) \X ((b.left..b.right) \intersect Selectable)

\* The cells a bound paints.
Painted(b) == ((b.top..b.bottom) \intersect Rendered) \X ((b.left..b.right) \intersect Selectable)
VisibleSelectedCells == UNION {Painted(b) : b \in Bounds}

\* The numbers of S in order: the i-th is the one with i of them up to it.
UpTo(S, n) == {m \in S : m <= n}
Ascending(S) ==
  [i \in 1..Cardinality(S) |-> CHOOSE n \in S : Cardinality(UpTo(S, n)) = i]

------------------------------------------------------------------------------
(* The feature of the library: what it does with a call *)

SetFocusedCell(cell) == focus' = cell /\ ranges' = <<[anchor |-> cell, far |-> cell]>>
SelectCellRange(anchor, far) == focus' = anchor /\ ranges' = <<[anchor |-> anchor, far |-> far]>>
ResetCellSelection == focus' = NoCell /\ ranges' = <<>>

Directions == {"up", "down", "left", "right"}

\* The neighbour in a sorted set of rows or columns, 0 at its edge.
NextIn(S, n, forward) ==
  LET beyond == {m \in S : IF forward THEN m > n ELSE m < n}
  IN IF beyond = {} THEN 0 ELSE IF forward THEN Min(beyond) ELSE Max(beyond)

Neighbour(rows, cell, direction) ==
  LET row == NextIn(rows, cell[1], direction = "down")
      column == NextIn(Selectable, cell[2], direction = "right")
  IN IF direction \in {"left", "right"}
     THEN IF column = 0 THEN NoCell ELSE <<cell[1], column>>
     ELSE IF row = 0 THEN NoCell ELSE <<row, cell[2]>>

\* The feature resolves rows through the page and knows no pinned ones.
FeatureStep(cell, direction) ==
  IF cell[1] \in Pages[page] THEN Neighbour(Pages[page], cell, direction) ELSE NoCell

------------------------------------------------------------------------------
(* Moving the focus *)

\* getDataGridStepTarget: a step in the order of the rendered rows, NoCell at an edge.
Resolvable(cell, direction) ==
  IF direction \in {"left", "right"} THEN cell[2] \in Selectable ELSE cell[1] \in Rendered
StepTarget(cell, direction) == Neighbour(Rendered, cell, direction)

Unchanging == UNCHANGED <<data, page, clip, cutting, drag, last, batches, updates>>

\* A click, or focusCell.
Click(cell) ==
  /\ Idle /\ cell[1] \in Rendered /\ cell[2] \in Selectable
  /\ SetFocusedCell(cell) /\ Unchanging

\* Arrow, Tab, and Enter where nothing can be edited.
Step(direction) ==
  /\ Idle /\ focus # NoCell
  /\ LET target == IF Resolvable(focus, direction) THEN StepTarget(focus, direction)
                   ELSE FeatureStep(focus, direction)
     IN target # NoCell /\ SetFocusedCell(target)
  /\ Unchanging

\* The corner of a bound opposite to a cell in it.
Opposite(b, cell) ==
  <<IF cell[1] = b.top THEN b.bottom ELSE b.top, IF cell[2] = b.left THEN b.right ELSE b.left>>

\* extendCellSelection moves the far end of the newest range, or fails to.
Extended(direction) ==
  LET newest == ranges[Len(ranges)]
      far == FeatureStep(newest.far, direction)
  IN IF far = NoCell THEN ranges ELSE [ranges EXCEPT ![Len(ranges)].far = far]

\* Shift and an arrow; of two ranges none is extended here.
Extend(direction) ==
  /\ Idle /\ Len(ranges) = 1
  /\ LET corner == Opposite(ActiveBound, focus)
         target == StepTarget(corner, direction)
     IN IF Extended(direction) # ranges
        THEN ranges' = Extended(direction) /\ UNCHANGED focus
        ELSE Resolvable(corner, direction) /\ target # NoCell /\ SelectCellRange(focus, target)
  /\ Unchanging

\* A jump that would end on a row of another page walks back towards the focus.
Clamped(row) ==
  LET between == IF row >= focus[1] THEN {r \in Rendered : focus[1] < r /\ r <= row}
                 ELSE {r \in Rendered : row <= r /\ r < focus[1]}
  IN IF between = {} THEN focus[1] ELSE IF row >= focus[1] THEN Max(between) ELSE Min(between)

\* Home, End, PageUp, PageDown and Ctrl with an arrow; Shift extends.
Jump(row, column, extend) ==
  /\ Idle /\ focus # NoCell
  /\ column \in {Min(Selectable), Max(Selectable), focus[2]}
  /\ LET target == <<Clamped(row), column>>
     IN IF extend THEN SelectCellRange(Opposite(ActiveBound, focus), target) ELSE SetFocusedCell(target)
  /\ Unchanging

SelectAll ==
  /\ Idle /\ Rows # {} /\ Selectable # {}
  /\ SelectCellRange(<<1, Min(Selectable)>>, <<NumRows, Max(Selectable)>>)
  /\ Unchanging

\* Ctrl and a click begin another range.
AddRange(cell) ==
  /\ Idle /\ Len(ranges) = 1 /\ ranges[1].anchor = ranges[1].far
  /\ cell[1] \in Rendered /\ cell[2] \in Selectable
  /\ focus' = cell
  /\ ranges' = Append(ranges, [anchor |-> cell, far |-> cell])
  /\ Unchanging

Escape ==
  /\ Idle /\ ranges # <<>>
  /\ ResetCellSelection /\ Unchanging

\* Another page re-bases the rows: the selection is cleared.
TurnPage(p) ==
  /\ Idle /\ p # page
  /\ page' = p
  /\ ResetCellSelection
  /\ UNCHANGED <<data, clip, cutting, drag, last, batches, updates>>

------------------------------------------------------------------------------
(* Batches of changes *)

Changed(cell, value, held) == [cell |-> cell, previous |-> held[cell], value |-> value]

\* The consumer writes the batch it is handed (onCellsChange).
Applied(changes, held) ==
  [cell \in Cells |->
     IF \E c \in changes : c.cell = cell THEN (CHOOSE c \in changes : c.cell = cell).value ELSE held[cell]]

\* Mutant of Invert: the values go, the previous values stay.
InvertValue(changes) == {[c EXCEPT !.value = c.previous] : c \in changes}

\* invertDataGridCellsChange
Invert(changes) == {[c EXCEPT !.value = c.previous, !.previous = c.value] : c \in changes}

Hand(source, changes, rejected, selected, stale) ==
  /\ batches' = batches + 1
  /\ data' = Applied(changes, data)
  /\ last' = [source |-> source, changes |-> changes, rejected |-> rejected, before |-> data,
              shown |-> (Pages[page] \union Pinned) \X Selectable, selected |-> selected, stale |-> stale]

\* buildDataGridClearDetails over some of the bounds.
Cleared(bs) ==
  {Changed(cell, ClearValue[cell[2]], data) : cell \in {c \in UNION {Painted(b) : b \in bs} : WritableCell(c)}}

Delete ==
  /\ Idle /\ ranges # <<>>
  /\ Cleared(Bounds) # {}
  /\ Hand("clear", Cleared(Bounds), {}, VisibleSelectedCells, FALSE)
  /\ UNCHANGED <<page, selection, clip, cutting, drag, updates>>

------------------------------------------------------------------------------
(* The clipboard *)

\* What a cell is copied as, and whether a column's parse takes a field.
TextOf(cell, held) == FormatOf[cell[2]][held[cell]]
Accepts(column, field) == field \in DOMAIN ParseOf[column]

\* getDataGridActiveRegionGrid: the rendered rows and the selectable columns.
RegionGrid(b) ==
  LET rows == Ascending((b.top..b.bottom) \intersect Rendered)
      columns == Ascending((b.left..b.right) \intersect Selectable)
  IN [r \in DOMAIN rows |-> [c \in DOMAIN columns |-> TextOf(<<rows[r], columns[c]>>, data)]]

\* The clipboard is written once.
Copied == clip = NoText /\ cutting = NoText /\ ranges # <<>> /\ RegionGrid(ActiveBound) # <<>>

Copy ==
  /\ Idle /\ Copied
  /\ clip' = Serialize(RegionGrid(ActiveBound))
  /\ UNCHANGED <<data, page, selection, cutting, drag, last, bounded>>

CutCells ==
  LET b == ActiveBound
  IN IF Cleared({b}) = {} THEN UNCHANGED <<data, last, batches>>
     ELSE Hand("cut", Cleared({b}), {}, Painted(b), FALSE)

\* The browser's own cut event, from a menu.
Cut ==
  /\ Idle /\ Copied
  /\ clip' = Serialize(RegionGrid(ActiveBound))
  /\ CutCells
  /\ UNCHANGED <<page, selection, cutting, drag, updates>>

\* Ctrl and X: the text is taken now, the clipboard is written later.
CutByKey ==
  /\ Idle /\ Copied
  /\ cutting' = Serialize(RegionGrid(ActiveBound))
  /\ UNCHANGED <<data, page, selection, clip, drag, last, bounded>>

\* The promise resolves: the cells selected by now are cleared.
CutWritten ==
  /\ cutting # NoText /\ batches < MaxBatches
  /\ clip' = cutting
  /\ cutting' = NoText
  /\ IF ranges # <<>> THEN CutCells ELSE UNCHANGED <<data, last, batches>>
  /\ UNCHANGED <<page, selection, drag, updates>>

CutDenied ==
  /\ cutting # NoText
  /\ cutting' = NoText
  /\ UNCHANGED <<data, page, selection, clip, drag, last, bounded>>

Divides(n, m) == m % n = 0

\* Excel's rule: a single value fills the region, a block tiles a multiple of it,
\* anything else is written once.
PasteSize(block, rows, columns) ==
  IF \/ Len(block) = 1 /\ Len(block[1]) = 1
     \/ Divides(Len(block), rows) /\ Divides(Len(block[1]), columns)
  THEN <<rows, columns>>
  ELSE <<Len(block), Len(block[1])>>

FirstN(S, n) == {s \in S : Cardinality(UpTo(S, s)) <= n}

\* buildDataGridPasteDetails: what is written to which cell, and what is refused.
Paste(block, b) ==
  LET columns == {c \in Selectable : c >= b.left}
      size == PasteSize(block, b.bottom - b.top + 1, Cardinality((b.left..b.right) \intersect Selectable))
      rows == Ascending(FirstN({r \in Rendered : r >= b.top}, size[1]))
      targets == Ascending(FirstN(columns, size[2]))
      tiled == Tile(block, size[1], size[2])
      put == {[cell |-> <<rows[r], targets[c]>>, raw |-> tiled[r][c]] : r \in DOMAIN rows, c \in DOMAIN targets}
      good == {p \in put : WritableCell(p.cell) /\ Accepts(p.cell[2], p.raw)}
  IN [changes |-> {Changed(p.cell, ParseOf[p.cell[2]][p.raw], data) : p \in good},
      rejected |-> {p.cell : p \in put \ good},
      corner |-> IF Len(rows) = 0 THEN <<b.top, targets[Len(targets)]>>
                 ELSE <<rows[Len(rows)], targets[Len(targets)]>>,
      first |-> <<b.top, targets[1]>>]

PasteText(text) ==
  /\ Idle /\ text # <<>> /\ ranges # <<>>
  /\ (ActiveBound.left..ActiveBound.right) \intersect Selectable # {}
  /\ LET paste == Paste(Parse(text), ActiveBound)
     IN /\ paste.changes # {} \/ paste.rejected # {}
        /\ Hand("paste", paste.changes, paste.rejected, Painted(ActiveBound), FALSE)
        /\ SelectCellRange(paste.first, paste.corner)
  /\ UNCHANGED <<page, clip, cutting, drag, updates>>

PasteClip == clip # NoText /\ PasteText(clip)

------------------------------------------------------------------------------
(* The fill handle *)

FillRows(d) == Ascending((d.bound.top..d.bound.bottom) \intersect d.rendered)
FillEnd(d) == FillRows(d)[Len(FillRows(d))]

\* Mutant of StartFill: a region that is not shown can be filled from.
StartFillUnseen ==
  /\ Idle /\ clip = NoText /\ cutting = NoText /\ Len(ranges) = 1
  /\ drag' = [on |-> TRUE, bound |-> ActiveBound, rendered |-> Rendered, axis |-> "none", count |-> 0,
              data |-> data]
  /\ UNCHANGED <<data, page, selection, clip, cutting, last, bounded>>

\* The rows of the drag are taken when it starts, with what they hold.  What is on
\* the clipboard plays no part in a drag: here it is empty.
StartFill ==
  /\ Idle /\ clip = NoText /\ cutting = NoText /\ Len(ranges) = 1
  /\ (ActiveBound.top..ActiveBound.bottom) \intersect Rendered # {}
  /\ drag' = [on |-> TRUE, bound |-> ActiveBound, rendered |-> Rendered, axis |-> "none", count |-> 0,
              data |-> data]
  /\ UNCHANGED <<data, page, selection, clip, cutting, last, bounded>>

\* The pointer is over a cell: the axis that was left further is extended.
DragOver(cell) ==
  /\ drag.on /\ cell[1] \in drag.rendered
  /\ LET down == Cardinality({r \in drag.rendered : FillEnd(drag) < r /\ r <= cell[1]})
         right == Greater(0, cell[2] - drag.bound.right)
         axis == IF down = 0 /\ right = 0 THEN "none" ELSE IF down >= right THEN "row" ELSE "column"
     IN drag' = [drag EXCEPT !.axis = axis, !.count = IF axis = "column" THEN right ELSE down]
  /\ drag' # drag
  /\ UNCHANGED <<data, page, selection, clip, cutting, last, bounded>>

\* getExtensionTargets: the rows and columns the release would write.
FillTargetRows(d) ==
  IF d.axis = "row" THEN FirstN({r \in d.rendered : r > FillEnd(d)}, d.count)
  ELSE (d.bound.top..d.bound.bottom) \intersect d.rendered
FillTargetColumns(d) ==
  (IF d.axis = "row" THEN d.bound.left..d.bound.right
   ELSE (d.bound.right + 1)..(d.bound.right + d.count)) \intersect Selectable \intersect Writable

\* applyPreview: the cells that are marked during the drag.
Preview(d) ==
  IF d.axis = "none" THEN {}
  ELSE {cell \in FillTargetRows(d) \X FillTargetColumns(d) : WritableCell(cell)}

\* The source of a filled cell: the region is repeated downwards or to the right.
FillSource(d, cell) ==
  IF d.axis = "row"
  THEN LET offset == Cardinality({r \in FillTargetRows(d) : r < cell[1]})
       IN <<FillRows(d)[1 + (offset % Len(FillRows(d)))], cell[2]>>
  ELSE LET width == d.bound.right - d.bound.left + 1
       IN <<cell[1], d.bound.left + ((cell[2] - (d.bound.right + 1)) % width)>>

\* Into another column that has a parse a value goes like pasted text, else as it is.
Crosses(d, cell) == FillSource(d, cell)[2] # cell[2] /\ cell[2] \in Parsing
FillText(d, cell) == TextOf(FillSource(d, cell), d.data)
FillTaken(d, cell) == Crosses(d, cell) => Accepts(cell[2], FillText(d, cell))
FillValue(d, cell) ==
  IF Crosses(d, cell) THEN ParseOf[cell[2]][FillText(d, cell)] ELSE d.data[FillSource(d, cell)]

FillChanges(d) ==
  {Changed(cell, FillValue(d, cell), d.data) : cell \in {c \in Preview(d) : FillTaken(d, c)}}

ReleaseFill ==
  /\ drag.on
  /\ drag' = NoDrag
  /\ IF drag.axis = "none" \/ FillTargetRows(drag) = {} THEN UNCHANGED <<data, last, batches, selection>>
     ELSE /\ SelectCellRange(<<drag.bound.top, drag.bound.left>>,
               <<IF drag.axis = "row" THEN Max(FillTargetRows(drag)) ELSE drag.bound.bottom,
                 drag.bound.right + (IF drag.axis = "column" THEN drag.count ELSE 0)>>)
          /\ IF Preview(drag) = {} THEN UNCHANGED <<data, last, batches>>
             ELSE Hand("fill", FillChanges(drag),
                       {c \in Preview(drag) : ~FillTaken(drag, c)},
                       Preview(drag), drag.data # data)
  /\ UNCHANGED <<page, clip, cutting, updates>>

CancelFill ==
  /\ drag.on
  /\ drag' = NoDrag
  /\ UNCHANGED <<data, page, selection, clip, cutting, last, bounded>>

------------------------------------------------------------------------------
(* The consumer changes its data by itself, for instance on a live update:  *)
(* told apart only while a drag holds what the rows were when it started.    *)

LiveUpdate(cell, value) ==
  /\ drag.on /\ updates < MaxUpdates /\ data[cell] # value
  /\ updates' = updates + 1
  /\ data' = [data EXCEPT ![cell] = value]
  /\ last' = NoBatch
  /\ UNCHANGED <<page, selection, clip, cutting, drag, batches>>

Init ==
  /\ data = Start /\ page = 1 /\ focus = NoCell /\ ranges = <<>>
  /\ clip = NoText /\ cutting = NoText /\ drag = NoDrag /\ last = NoBatch
  /\ batches = 0 /\ updates = 0

Next ==
  \/ \E cell \in Cells : Click(cell) \/ AddRange(cell) \/ DragOver(cell)
  \/ \E direction \in Directions : Step(direction) \/ Extend(direction)
  \/ \E row \in Rows, column \in Columns, extend \in BOOLEAN : Jump(row, column, extend)
  \/ \E p \in DOMAIN Pages : TurnPage(p)
  \/ SelectAll \/ Escape \/ Delete \/ Copy \/ Cut \/ CutByKey \/ CutWritten \/ CutDenied \/ PasteClip
  \/ StartFill \/ ReleaseFill \/ CancelFill
  \/ \E cell \in Updated, value \in Values : LiveUpdate(cell, value)

Spec == Init /\ [][Next]_vars

------------------------------------------------------------------------------
(* Properties *)

\* The selection consists of cells of the grid, and a drag has a source that is shown.
TypeOK ==
  /\ data \in [Cells -> Values] /\ page \in DOMAIN Pages
  /\ focus \in Cells \union {NoCell}
  /\ \A i \in DOMAIN ranges : ranges[i].anchor \in Cells /\ ranges[i].far \in Cells
  /\ focus = NoCell <=> ranges = <<>>
  /\ drag.on => FillRows(drag) # <<>>

\* A batch can be taken back and done again: the inverse of the last batch restores
\* what the cells held before it, and the inverse of the inverse restores the batch
\* (invertDataGridCellsChange), but for a fill whose rows were updated during the drag.
UndoRestores ==
  last.source # "none" /\ ~last.stale =>
    /\ Applied(Invert(last.changes), data) = last.before
    /\ Applied(Invert(Invert(last.changes)), last.before) = data

\* A batch writes only cells the user can see and may write; deleting and cutting keep
\* to the cells that are painted as selected, a fill writes or refuses exactly the
\* cells its preview marks (getDataGridRenderedRowIds, applyPreview, finish).
OnlyShownCellsChange ==
  LET written == {c.cell : c \in last.changes}
  IN /\ \A cell \in written : cell \in last.shown /\ WritableCell(cell)
     /\ last.source \in {"clear", "cut"} => written \subseteq last.selected
     /\ last.source = "fill" => written \union last.rejected = last.selected

\* What is copied and pasted where it came from brings each cell its own text back,
\* whatever the cells hold and whatever columns between are not selectable: the text is
\* read as the block it was written from, and block and region have the same shape.  So
\* nothing changes where a column's parse undoes its format, and only cells that cannot be
\* written, or whose text their own column refuses, are rejected.  Two shapes are excepted:
\* a last line that is one empty cell is lost (LooksEnded), and rows that are not shown
\* count for the size of the region.
PasteIsCopy ==
  ranges # <<>> =>
    LET b == ActiveBound
        grid == RegionGrid(b)
    IN b.top..b.bottom \subseteq Rendered /\ (b.left..b.right) \intersect Selectable # {} /\ Serialize(grid) # <<>> /\ ~LooksEnded(grid) =>
         LET paste == Paste(Parse(Serialize(grid)), b)
             taken == {cell \in Painted(b) : WritableCell(cell) /\ Accepts(cell[2], TextOf(cell, data))}
         IN /\ paste.changes =
                  {Changed(cell, ParseOf[cell[2]][TextOf(cell, data)], data) : cell \in taken}
            /\ paste.rejected = Painted(b) \ taken

\* What a comment says of every batch (data-grid-cell-selection.tsx:245): the cells it
\* touches are the cells the selection paints.  A single value that is pasted into a
\* selection is written to no cell outside it.
SingleValueStaysInSelection ==
  last.source = "paste" /\ clip # NoText /\ Len(Parse(clip)) = 1 /\ Len(Parse(clip)[1]) = 1 =>
    {c.cell : c \in last.changes} \subseteq last.selected
==============================================================================
