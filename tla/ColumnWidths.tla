----------------------------- MODULE ColumnWidths -----------------------------
(***************************************************************************)
(* The widths of the data grid's columns: the drag of a resize handle      *)
(* (data-grid-table.tsx) and the controller that lets a column with        *)
(* meta.autoSize take the free space of its container (data-grid.tsx).     *)
(*                                                                         *)
(* The sizing state is live, the measurements are of what was rendered     *)
(* last: the viewport measures after every render, and when its container  *)
(* changes, which may be before a width that was written is rendered.      *)
(***************************************************************************)
EXTENDS Integers, FiniteSetsExt

CONSTANTS
  Columns,     \* the columns, numbered in visible order
  Auto,        \* the resizable columns with meta.autoSize
  Size,        \* the size of each column without an entry in the sizing state
  MinSize,     \* the minSize of each column, 0 when there is none
  Containers,  \* the widths the container may have
  Drags,       \* the widths a drag may come to
  MaxActs      \* how often the user drags, resets, hides, shows or resizes

\* What the constants are; Grid assumes it of its instance.
ColumnWidthsAssumption ==
  /\ Columns \subseteq Nat \ {0} /\ IsFiniteSet(Columns) /\ Auto \subseteq Columns
  /\ Size \in [Columns -> Nat] /\ MinSize \in [Columns -> Nat]
  /\ Containers \subseteq Nat /\ Drags \subseteq Nat

Unset == 0
None == 0

VARIABLES
  sizing,      \* the entries of columnSizing
  visible,     \* the columns that are shown
  container,   \* the width of the scroll container
  rendered,    \* sizing and visible of the last render
  dirty,       \* a render is due
  applied,     \* what the controller has written: a column, its base and its grown width
  parked,      \* the measurement of a stream to be used when it settles
  timer,       \* the timer that waits for that
  recent,      \* the last commit of the stream is less than SETTLE_MS ago
  session,     \* the resize session of the handle last used
  acts

state == <<sizing, visible, container>>
stream == <<parked, timer, recent>>
vars == <<sizing, visible, container, rendered, dirty, applied, parked, timer, recent, session, acts>>

NoGrowth == [column |-> None, base |-> 0, grown |-> 0]
NoSession == [column |-> None, width |-> 0, ended |-> TRUE]

WidthIn(sizes, c) == IF sizes[c] = Unset THEN Size[c] ELSE sizes[c]
Total(sizes, columns) == FoldSet(LAMBDA c, sum : sum + WidthIn(sizes, c), 0, columns)
Greater(m, n) == IF m < n THEN n ELSE m

\* The first visible column that may grow.
Candidate == IF Auto \intersect visible = {} THEN None ELSE Min(Auto \intersect visible)

------------------------------------------------------------------------------
(* The controller of auto-sized columns *)

\* Mutant of Target: the growth is not taken out of the measurement.
TargetOfRest(a, free) == Greater(IF MinSize[a.column] > 0 THEN MinSize[a.column] ELSE a.base, a.base + free)

\* The width that absorbs the space that would be free without the growth.
Target(a, free) ==
  Greater(IF MinSize[a.column] > 0 THEN MinSize[a.column] ELSE a.base, a.base + free + (a.grown - a.base))

\* Mutant of Reflow: the guard reads the sizing of the last render.
ReflowRendered(a, free) ==
  IF \/ a.column = None \/ Candidate # a.column
     \/ rendered.sizing[a.column] \notin {Unset, a.grown}
     \/ Target(a, free) = a.grown
  THEN applied' = a /\ UNCHANGED sizing
  ELSE /\ applied' = [a EXCEPT !.grown = Target(a, free)]
       /\ sizing' = [sizing EXCEPT ![a.column] = Target(a, free)]

\* A width that this controller did not write is left alone.
Reflow(a, free) ==
  IF \/ a.column = None \/ Candidate # a.column
     \/ sizing[a.column] \notin {Unset, a.grown}
     \/ Target(a, free) = a.grown
  THEN applied' = a /\ UNCHANGED sizing
  ELSE /\ applied' = [a EXCEPT !.grown = Target(a, free)]
       /\ sizing' = [sizing EXCEPT ![a.column] = Target(a, free)]

\* The first fill of a column, which takes back the growth of the one before.
Fill(a, free) ==
  LET c == Candidate
      base == WidthIn(sizing, c)
      reverted == IF a.column # None /\ sizing[a.column] = a.grown
                  THEN [sizing EXCEPT ![a.column] = a.base] ELSE sizing
  IN IF \/ free <= 0 \/ c = None
        \/ sizing[c] # Unset /\ (a.column = None \/ sizing[c] # a.grown)
     THEN applied' = a /\ UNCHANGED sizing
     ELSE /\ applied' = [column |-> c, base |-> base, grown |-> base + free]
          /\ sizing' = [reverted EXCEPT ![c] = base + free]

\* apply: one measurement.  A reset re-arms the column; of a stream of measurements
\* the first is used at once and the last when the stream settles.
Apply(free) ==
  LET a == IF applied.column # None /\ sizing[applied.column] = Unset THEN NoGrowth ELSE applied
  IN IF a.column = None \/ Candidate # a.column
     THEN Fill(a, free) /\ UNCHANGED stream
     ELSE /\ parked' = free
          /\ IF recent THEN timer' = TRUE /\ applied' = a /\ UNCHANGED <<recent, sizing>>
             ELSE recent' = TRUE /\ Reflow(a, free) /\ UNCHANGED timer

FreeSpace(width, shown) == width - Total(shown.sizing, shown.visible)

\* React renders; the layout effect measures.
Render ==
  /\ dirty
  /\ rendered' = [sizing |-> sizing, visible |-> visible]
  /\ Apply(FreeSpace(container, rendered'))
  /\ dirty' = (sizing' # sizing)
  /\ UNCHANGED <<visible, container, session, acts>>

\* The observer of the container measures what was rendered last.
ResizeContainer(width) ==
  /\ acts < MaxActs /\ acts' = acts + 1
  /\ width # container /\ container' = width
  /\ Apply(FreeSpace(width, rendered))
  /\ dirty' = (dirty \/ sizing' # sizing)
  /\ UNCHANGED <<visible, rendered, session>>

Settle ==
  /\ timer /\ timer' = FALSE
  /\ recent' = TRUE
  /\ Reflow(applied, parked)
  /\ dirty' = (dirty \/ sizing' # sizing)
  /\ UNCHANGED <<visible, container, rendered, parked, session, acts>>

Elapse ==
  /\ recent /\ recent' = FALSE
  /\ UNCHANGED <<state, rendered, dirty, applied, parked, timer, session, acts>>

------------------------------------------------------------------------------
(* The user *)

Act ==
  /\ acts < MaxActs /\ acts' = acts + 1
  /\ dirty' = TRUE
  /\ UNCHANGED <<container, rendered, applied, stream>>

\* endResize: the width is committed once, at a release, when the window loses the
\* focus, when the touch is cancelled or when the handle goes.
EndResize ==
  IF session.ended THEN UNCHANGED <<sizing, session>>
  ELSE /\ sizing' = [sizing EXCEPT ![session.column] = session.width]
       /\ session' = [session EXCEPT !.ended = TRUE]

\* A press on a handle; a click without a drag is a session too.
StartResize(c) ==
  /\ session.ended /\ c \in visible
  /\ session' = [column |-> c, width |-> WidthIn(sizing, c), ended |-> FALSE]
  /\ Act /\ UNCHANGED <<sizing, visible>>

\* updateOffset: within the minimum of the column.
MoveResize(width) ==
  /\ ~session.ended /\ width # session.width
  /\ width >= MinSize[session.column]
  /\ session' = [session EXCEPT !.width = width]
  /\ dirty' = TRUE
  /\ UNCHANGED <<state, rendered, applied, stream, acts>>

Release ==
  /\ ~session.ended
  /\ EndResize
  /\ dirty' = TRUE
  /\ UNCHANGED <<visible, container, rendered, applied, stream, acts>>

\* A double click on the handle.
ResetSize(c) ==
  /\ session.ended /\ c \in visible /\ sizing[c] # Unset
  /\ sizing' = [sizing EXCEPT ![c] = Unset]
  /\ Act /\ UNCHANGED <<visible, session>>

\* A column's handle is unmounted with it, and stops the session it has started.
Hide(c) ==
  /\ c \in visible
  /\ visible' = visible \ {c}
  /\ IF session.column = c THEN EndResize ELSE UNCHANGED <<sizing, session>>
  /\ Act

Show(c) ==
  /\ c \notin visible
  /\ visible' = visible \union {c}
  /\ Act /\ UNCHANGED <<sizing, session>>

Init ==
  /\ sizing = [c \in Columns |-> Unset] /\ visible = Columns /\ container \in Containers
  /\ rendered = [sizing |-> sizing, visible |-> visible] /\ dirty = TRUE
  /\ applied = NoGrowth /\ parked = 0 /\ timer = FALSE /\ recent = FALSE
  /\ session = NoSession /\ acts = 0

Next ==
  \/ Render \/ Settle \/ Elapse \/ Release
  \/ \E width \in Containers : ResizeContainer(width)
  \/ \E width \in Drags : MoveResize(width)
  \/ \E c \in Columns : StartResize(c) \/ ResetSize(c) \/ Hide(c) \/ Show(c)

\* Renders and timers come; the user does as he likes.
Fairness == WF_vars(Render) /\ WF_vars(Settle) /\ WF_vars(Elapse)
Spec == Init /\ [][Next]_vars /\ Fairness

------------------------------------------------------------------------------
(* Properties *)

TypeOK ==
  /\ \A c \in Columns : sizing[c] >= 0
  /\ visible \subseteq Columns /\ container \in Containers
  /\ applied.column \in Auto \union {None}
  /\ session.ended \/ session.column \in visible

\* A width has one writer at a time: it is changed by the drag of its column, once for
\* each drag, by a reset, or by the controller while it is the controller's own.  A
\* width the user has dragged is not touched by measurements and timers that were on
\* their way (reflow, apply, endResize).
OneWriter ==
  \A c \in Columns : sizing'[c] # sizing[c] =>
    \/ session.column = c /\ ~session.ended /\ session'.ended
    \/ sizing'[c] = Unset
    \/ c \in Auto /\ sizing[c] \in {Unset, applied.grown}
WidthsHaveOneWriter == [][OneWriter]_vars

\* When the user rests, the column that has grown takes exactly the free space, or has
\* its least width: the measurements of renders and containers and the timer neither
\* lose space nor count it twice in the end.
NoSpaceLeft ==
  Candidate # None /\ Candidate = applied.column /\ sizing[Candidate] = applied.grown =>
    LET free == container - Total(sizing, visible)
    IN free = 0 \/ (free < 0 /\ applied.grown = Target(applied, free))
GrowthSettles == <>[]NoSpaceLeft

\* What a comment says of hiding and showing (data-grid.tsx:572-575): it cannot make
\* the table wider than its container forever.
NoLastingOverflow ==
  []<>(Total(sizing, visible) <= Greater(container, Total([c \in Columns |-> Unset], visible)))
==============================================================================
