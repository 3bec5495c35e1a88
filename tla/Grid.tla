--------------------------------- MODULE Grid ---------------------------------
(***************************************************************************)
(* The parts of the data grid, each by itself: a behaviour is one of the   *)
(* part that unit names, and the variables of the others keep the value    *)
(* "idle".  Parts that have a variable of the same name share it; where    *)
(* they have a constant of the same name, theirs carries the part's name.  *)
(***************************************************************************)
EXTENDS FiniteSets, Sequences, Naturals

CONSTANTS  \* of CellSelection
  NumRows, NumColumns, Pages, Pinned, Selectable, CellsWritable, ReadOnly,
  CellsValues, FormatOf, ParseOf, Parsing, ClearValue, CellsStart, Updated, MaxBatches, CellsMaxUpdates
CONSTANTS  \* of CellEditor
  EditorRows, EditorWritable, EditorValues, EditorAccepted, EditorStart,
  Attempts, MaxSessions, MaxCalls, EditorMaxUpdates
CONSTANTS  \* of ColumnWidths
  WidthsColumns, WidthsAuto, Size, MinSize, Containers, Drags, WidthsMaxActs
CONSTANTS  \* of VirtualRows
  AllRows, Page, Height, Header, Overscan, FetchMoreOffset, Aligns, ScrollingMaxActs
CONSTANTS  \* of GridBody
  Order, Views, BodyMaxActs

VARIABLES
  unit,
  data, page, focus, ranges, clip, cutting, drag, last, batches, updates,
  mounted, shown, session, overlay, commits, timers, setBy, opened, calls,
  sizing, visible, container, rendered, dirty, applied, parked, timer, recent, acts,
  count, top, window, held, target, align, pending, seen, firedAt, fetching, left,
  view, resizable, spinner, pin, hidden, filled, loading, expanded, offscreen, body, bodyWindow

cellsOnly == <<page, ranges, clip, cutting, drag, batches>>
editorOnly == <<shown, overlay, commits, timers, setBy, opened>>
widthsOnly == <<sizing, visible, container, rendered, dirty, applied, parked, timer, recent>>
scrollingOnly == <<count, top, target, align, pending, seen, firedAt, fetching, left>>
bodyOnly == <<view, resizable, spinner, pin, hidden, filled, loading, expanded, offscreen, body, bodyWindow>>
shared == <<data, focus, last, updates, mounted, session, calls, acts, window, held>>
vars == <<unit, cellsOnly, editorOnly, widthsOnly, scrollingOnly, bodyOnly, shared>>

\* CellSelection, with what is proved of it.
Cells == INSTANCE CellsProofs WITH
  Writable <- CellsWritable, Values <- CellsValues, Start <- CellsStart, MaxUpdates <- CellsMaxUpdates

Editor == INSTANCE CellEditor WITH
  Rows <- EditorRows, Writable <- EditorWritable, Values <- EditorValues,
  Accepted <- EditorAccepted, Start <- EditorStart, MaxUpdates <- EditorMaxUpdates

Widths == INSTANCE ColumnWidths WITH
  Columns <- WidthsColumns, Auto <- WidthsAuto, MaxActs <- WidthsMaxActs

Scrolling == INSTANCE VirtualRows WITH MaxActs <- ScrollingMaxActs

Body == INSTANCE GridBody WITH MaxActs <- BodyMaxActs

ASSUME InstancesAreSound ==
  /\ Cells!CellSelectionAssumption /\ Editor!CellEditorAssumption
  /\ Widths!ColumnWidthsAssumption /\ Scrolling!VirtualRowsAssumption
  /\ Body!GridBodyAssumption

------------------------------------------------------------------------------
(* One part at a time *)

CellsRest == page = "idle" /\ ranges = "idle" /\ clip = "idle" /\ cutting = "idle"
             /\ drag = "idle" /\ batches = "idle"
EditorRest == shown = "idle" /\ overlay = "idle" /\ commits = "idle" /\ timers = "idle"
              /\ setBy = "idle" /\ opened = "idle"
WidthsRest == sizing = "idle" /\ visible = "idle" /\ container = "idle" /\ rendered = "idle"
              /\ dirty = "idle" /\ applied = "idle" /\ parked = "idle" /\ timer = "idle"
              /\ recent = "idle"
ScrollingRest == count = "idle" /\ top = "idle" /\ target = "idle" /\ align = "idle"
                 /\ pending = "idle" /\ seen = "idle" /\ firedAt = "idle" /\ fetching = "idle"
                 /\ left = "idle"
BodyRest == view = "idle" /\ resizable = "idle" /\ spinner = "idle" /\ pin = "idle"
            /\ hidden = "idle" /\ filled = "idle" /\ loading = "idle" /\ expanded = "idle"
            /\ offscreen = "idle" /\ body = "idle" /\ bodyWindow = "idle"

Init ==
  \/ /\ unit = "cells" /\ Cells!Init
     /\ EditorRest /\ WidthsRest /\ ScrollingRest /\ BodyRest
     /\ mounted = "idle" /\ session = "idle" /\ calls = "idle" /\ acts = "idle"
     /\ window = "idle" /\ held = "idle"
  \/ /\ unit = "editor" /\ Editor!Init
     /\ CellsRest /\ WidthsRest /\ ScrollingRest /\ BodyRest
     /\ last = "idle" /\ acts = "idle" /\ window = "idle" /\ held = "idle"
  \/ /\ unit = "widths" /\ Widths!Init
     /\ CellsRest /\ EditorRest /\ ScrollingRest /\ BodyRest
     /\ data = "idle" /\ focus = "idle" /\ last = "idle" /\ updates = "idle"
     /\ mounted = "idle" /\ calls = "idle" /\ window = "idle" /\ held = "idle"
  \/ /\ unit = "scrolling" /\ Scrolling!Init
     /\ CellsRest /\ EditorRest /\ WidthsRest /\ BodyRest
     /\ data = "idle" /\ focus = "idle" /\ updates = "idle" /\ session = "idle"
  \/ /\ unit = "body" /\ Body!Init
     /\ CellsRest /\ EditorRest /\ WidthsRest /\ ScrollingRest
     /\ data = "idle" /\ focus = "idle" /\ last = "idle" /\ updates = "idle"
     /\ mounted = "idle" /\ session = "idle" /\ calls = "idle"

SelectCells ==
  /\ unit = "cells" /\ Cells!Next
  /\ UNCHANGED <<unit, editorOnly, widthsOnly, scrollingOnly, bodyOnly>>
  /\ UNCHANGED <<mounted, session, calls, acts, window, held>>

EditCell ==
  /\ unit = "editor" /\ Editor!Next
  /\ UNCHANGED <<unit, cellsOnly, widthsOnly, scrollingOnly, bodyOnly>>
  /\ UNCHANGED <<last, acts, window, held>>

SizeColumns ==
  /\ unit = "widths" /\ Widths!Next
  /\ UNCHANGED <<unit, cellsOnly, editorOnly, scrollingOnly, bodyOnly>>
  /\ UNCHANGED <<data, focus, last, updates, mounted, calls, window, held>>

ScrollRows ==
  /\ unit = "scrolling" /\ Scrolling!Next
  /\ UNCHANGED <<unit, cellsOnly, editorOnly, widthsOnly, bodyOnly>>
  /\ UNCHANGED <<data, focus, updates, session>>

RenderTable ==
  /\ unit = "body" /\ Body!Next
  /\ UNCHANGED <<unit, cellsOnly, editorOnly, widthsOnly, scrollingOnly>>
  /\ UNCHANGED <<data, focus, last, updates, mounted, session, calls>>

Next == SelectCells \/ EditCell \/ SizeColumns \/ ScrollRows \/ RenderTable

\* Renders and timers come, as ColumnWidths has it.
Others == UNCHANGED <<unit, cellsOnly, editorOnly, scrollingOnly, bodyOnly,
                      data, focus, last, updates, mounted, calls, window, held>>
Spec ==
  /\ Init /\ [][Next]_vars
  /\ WF_vars(unit = "widths" /\ Widths!Render /\ Others)
  /\ WF_vars(unit = "widths" /\ Widths!Settle /\ Others)
  /\ WF_vars(unit = "widths" /\ Widths!Elapse /\ Others)

------------------------------------------------------------------------------
(* Properties *)

\* Each part's state is one its code can be in.
TypeOK ==
  /\ unit = "cells" => Cells!TypeOK
  /\ unit = "editor" => Editor!TypeOK
  /\ unit = "widths" => Widths!TypeOK
  /\ unit = "scrolling" => Scrolling!TypeOK
  /\ unit = "body" => Body!TypeOK

\* What the parts promise, stated and explained in their modules: CellSelection,
UndoRestores == unit = "cells" => Cells!UndoRestores
OnlyShownCellsChange == unit = "cells" => Cells!OnlyShownCellsChange
PasteIsCopy == unit = "cells" => Cells!PasteIsCopy

\* CellEditor (commitEditorSession, finish; focusCell),
EditsLandOnce == unit = "editor" => Editor!EditsLandOnce
LatestCallWins == [][unit = "editor" => Editor!CallIsLatest]_vars

\* ColumnWidths (reflow, apply, endResize),
WidthsHaveOneWriter == [][unit = "widths" => Widths!OneWriter]_vars
GrowthSettles == <>[](unit = "widths" => Widths!NoSpaceLeft)

\* VirtualRows (the reveal and fetch effects),
RevealedRowIsShown == unit = "scrolling" => Scrolling!RevealedRowIsShown
StaysWhereScrolled == [][unit = "scrolling" => Scrolling!StaysPut]_vars
FetchesOnce == unit = "scrolling" => Scrolling!FetchesOnce

\* and GridBody (DataGridTableRenderedRow, the utility rows, the memoized body).
RowsSpanTable == unit = "body" => Body!RowsSpanTable
==============================================================================
