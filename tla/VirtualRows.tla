----------------------------- MODULE VirtualRows ------------------------------
(***************************************************************************)
(* The scrolling of the virtual data grid (data-grid-table-virtual.tsx):   *)
(* the window of rows that is mounted, the reveal of a row the consumer    *)
(* asks for, and the request for more rows near the end.  Every row is one *)
(* unit high; the rows follow the header, which may stick to the top and   *)
(* then covers the rows under it.                                          *)
(*                                                                         *)
(* The virtualizer, which decides on the window and scrolls near a row     *)
(* that is not mounted, is a library: it is modelled from its use.         *)
(***************************************************************************)
EXTENDS Integers, FiniteSetsExt

CONSTANTS
  AllRows, Page,  \* how many rows there are, and how many one answer brings
  Height, Header, \* of the scroll container, and of the sticky header in it
  Overscan,       \* the rows that are mounted beyond the visible ones
  FetchMoreOffset,
  Aligns,         \* the alignments the consumer may ask for
  MaxActs         \* how often the user scrolls and the consumer asks for rows

\* What the constants are; Grid assumes it of its instance.
VirtualRowsAssumption == /\ Page \in Nat \ {0} /\ AllRows \in Nat /\ Page <= AllRows
                         /\ Header \in Nat /\ Height \in Nat /\ Header < Height
                         /\ FetchMoreOffset \in Nat /\ Overscan \in Nat

None == -1

VARIABLES
  count,     \* the rows that are loaded
  top,       \* scrollTop
  window,    \* the rows that the virtualizer has named in the last render
  mounted,   \* the rows of the last render of the body
  held,      \* cells are selected or a column is resized: the body is not rendered
  target, align,   \* scrollToRowIndex and scrollToRowAlign
  last,      \* the request that was scrolled for last
  pending,   \* the row whose reveal waits until it is mounted
  seen,      \* the request whose row was in the window in the last render
  firedAt,   \* the count at which more rows were asked for last
  fetching,  \* isFetchingMore, which the consumer sets after the call
  calls,     \* the calls of onFetchMore that are not answered
  left,      \* the user has scrolled since the last reveal
  acts

rendered == <<window, mounted, seen>>
reveal == <<target, align, last, pending>>
fetch == <<firedAt, fetching, calls>>
vars == <<count, top, window, mounted, held, target, align, last, pending, seen,
          firedAt, fetching, calls, left, acts>>

NoRequest == <<None, "none">>
Greater(m, n) == IF m < n THEN n ELSE m
Lesser(m, n) == IF m < n THEN m ELSE n

MaxTop(rows) == Greater(0, Header + rows - Height)
Tops(rows) == 0..MaxTop(rows)

\* What the virtualizer mounts: it counts the rows from the top of the container.
Window(t, rows) == Greater(0, t - Overscan)..Lesser(rows - 1, t + Height - 1 + Overscan)

\* A row between the header and the lower edge.
Shown(row, t) == Header + row >= t + Header /\ Header + row + 1 <= t + Height

------------------------------------------------------------------------------
\* Mutant of ScrollTarget: the header over the rows is forgotten.
ScrollTargetUnderHeader(row, how, t, rows) ==
  LET rowTop == Header + row
      goal == IF how = "auto"
              THEN IF rowTop < t THEN rowTop
                   ELSE IF rowTop + 1 > t + Height THEN rowTop + 1 - Height ELSE t
              ELSE IF how = "start" THEN rowTop
              ELSE IF how = "end" THEN rowTop + 1 - Height
              ELSE rowTop - ((Height - 1) \div 2)
  IN Lesser(Greater(0, goal), MaxTop(rows))

\* getDataGridTableScrollTarget
ScrollTarget(row, how, t, rows) ==
  LET rowTop == Header + row
      goal == IF how = "auto"
              THEN IF rowTop < t + Header THEN rowTop - Header
                   ELSE IF rowTop + 1 > t + Height THEN rowTop + 1 - Height ELSE t
              ELSE IF how = "start" THEN rowTop - Header
              ELSE IF how = "end" THEN rowTop + 1 - Height
              ELSE rowTop - Header - ((Height - Header - 1) \div 2)
  IN Lesser(Greater(0, goal), MaxTop(rows))

Asked == target \in 0..(count - 1)
Request == <<target, align>>

\* Mutant of RevealRow: the request is not remembered.
RevealRowAgain(rows) ==
  IF ~Asked THEN pending' = None /\ last' = NoRequest /\ top' = top
  ELSE IF target \in rows
  THEN pending' = None /\ last' = NoRequest /\ top' = ScrollTarget(target, align, top, count)
  ELSE pending' = target /\ last' = Request /\ (\E t \in Tops(count) : target \in Window(t, count) /\ top' = t)

\* The effect after every commit: a new request is scrolled for, at once when its row is
\* mounted, and otherwise by the virtualizer first.
RevealRow(rows) ==
  IF ~Asked THEN pending' = None /\ last' = NoRequest /\ top' = top
  ELSE IF last = Request THEN UNCHANGED <<pending, last, top>>
  ELSE IF target \in rows
  THEN pending' = None /\ last' = Request /\ top' = ScrollTarget(target, align, top, count)
  ELSE pending' = target /\ last' = Request /\ (\E t \in Tops(count) : target \in Window(t, count) /\ top' = t)

\* The effect that ends a reveal: it runs when the row has come into the window, and
\* does nothing when the body has not mounted it.
EndsPending(rows) ==
  /\ Asked /\ last = Request /\ pending = target /\ seen # Request
  /\ target \in Window(top, count) \cap rows
EndPending ==
  /\ pending' = None /\ last' = last
  /\ top' = ScrollTarget(target, align, top, count)

NearEnd(rows) == rows # {} /\ Max(rows) >= count - 1 - FetchMoreOffset

\* Mutant of FetchMore: asked for in every commit near the end.
FetchMoreUnlatched(rows) ==
  IF count = AllRows \/ fetching \/ ~NearEnd(rows) THEN UNCHANGED <<firedAt, calls>>
  ELSE firedAt' = count /\ calls' = calls + 1

\* The effect that asks for more rows, once for each number of rows.
FetchMore(rows) ==
  IF count = AllRows \/ fetching \/ ~NearEnd(rows) \/ firedAt = count THEN UNCHANGED <<firedAt, calls>>
  ELSE firedAt' = count /\ calls' = calls + 1

\* A render, in which the virtualizer names the rows; the body, which is not rendered
\* during a drag, mounts them; and the effects run.
Commit ==
  LET rows == IF held THEN mounted ELSE Window(top, count)
  IN /\ window' = Window(top, count) /\ mounted' = rows
     /\ seen' = IF target \in window' THEN Request ELSE NoRequest
     /\ IF EndsPending(rows) THEN EndPending ELSE RevealRow(rows)
     /\ FetchMore(window')
     /\ left' = (left /\ last' = last /\ pending' = pending)
     /\ UNCHANGED <<count, held, target, align, fetching, acts>>

------------------------------------------------------------------------------
(* The user and the consumer *)

Scroll(t) ==
  /\ acts < MaxActs /\ acts' = acts + 1
  /\ t \in Tops(count) \ {top}
  /\ top' = t /\ left' = TRUE
  /\ UNCHANGED <<count, rendered, held, reveal, fetch>>

\* The consumer asks for a row, for none, or for one that is not loaded.
Ask(row, how) ==
  /\ acts < MaxActs /\ acts' = acts + 1
  /\ <<row, how>> # Request
  /\ target' = row /\ align' = how
  /\ UNCHANGED <<count, top, rendered, held, last, pending, fetch, left>>

\* isResizingColumn, or _isSelectingCells.
Hold ==
  /\ acts < MaxActs /\ acts' = acts + 1
  /\ mounted # {} /\ held' = ~held
  /\ UNCHANGED <<count, top, rendered, reveal, fetch, left>>

StartFetch ==
  /\ calls > 0 /\ ~fetching /\ fetching' = TRUE
  /\ UNCHANGED <<count, top, rendered, held, reveal, firedAt, calls, left, acts>>

\* The rows of all calls arrive, or they fail.
Answer(failed) ==
  /\ fetching /\ fetching' = FALSE
  /\ calls' = 0
  /\ count' = IF failed THEN count ELSE Lesser(AllRows, count + Page)
  /\ UNCHANGED <<top, rendered, held, reveal, firedAt, left, acts>>

Init ==
  /\ count = Page /\ top = 0 /\ window = {} /\ mounted = {} /\ held = FALSE
  /\ seen = NoRequest /\ target = None /\ align = "auto"
  /\ last = NoRequest /\ pending = None
  /\ firedAt = None /\ fetching = FALSE /\ calls = 0 /\ left = FALSE /\ acts = 0

Next ==
  \/ Commit \/ StartFetch \/ Hold
  \/ \E failed \in BOOLEAN : Answer(failed)
  \/ \E t \in 0..AllRows : Scroll(t)
  \/ \E row \in -1..(AllRows - 1), how \in Aligns : Ask(row, how)

Spec == Init /\ [][Next]_vars

------------------------------------------------------------------------------
(* Properties *)

TypeOK ==
  /\ count \in 1..AllRows /\ top \in Tops(count) /\ mounted \cup window \subseteq 0..(count - 1)
  /\ pending # None => pending \in 0..(count - 1)

\* A row the consumer has asked for is shown when its reveal has ended: completely
\* between the sticky header and the lower edge, and stays there until the user
\* scrolls (getDataGridTableScrollTarget, the reveal effects).
RevealedRowIsShown ==
  Asked /\ last = Request /\ pending = None /\ ~left => Shown(target, top)

\* Where the user has scrolled to after a reveal he stays, whatever is rendered and
\* loaded: only a new request scrolls again (isSameDataGridTableScrollRequest).
StaysPut == top' # top /\ acts' = acts => last # Request \/ pending # None
StaysWhereScrolled == [][StaysPut]_vars

\* However often the end is rendered before the consumer says that it is loading, the
\* next rows are asked for once (fetchMoreFiredAtCountRef).
FetchesOnce == calls <= 1

\* In every render the rows in sight are mounted, those too that come into sight while
\* cells are selected or a column is resized (data-grid-table-virtual.tsx:649-650: "the
\* virtualizer re-renders itself from inside the memo boundary").
RowsInSightAreMounted ==
  [][Commit => \A row \in 0..(count - 1) : Shown(row, top) => row \in mounted']_vars
==============================================================================
