------------------------------ MODULE CellEditor ------------------------------
(***************************************************************************)
(* Editing one cell of the data grid (data-grid-cell-selection.tsx): the   *)
(* editor that is laid over the focused cell and ends by a key, by losing  *)
(* the focus or because rows move under it, and focusCell, which waits     *)
(* with timers for a row that is not mounted yet.                          *)
(*                                                                         *)
(* The grid has one column, so a cell is named by its row.  What an event  *)
(* sets is shown when React renders (Render); other events and timers may  *)
(* come first.                                                             *)
(***************************************************************************)
EXTENDS Naturals, Sequences, FiniteSetsExt

CONSTANTS
  Rows,         \* the rows there may be, numbered in display order
  Writable,     \* the rows whose cell may be edited
  Values,       \* what a cell may hold
  Accepted,     \* what the column's parse accepts
  Start,        \* what the cells hold at first
  Attempts,     \* how often focusCell looks again for its row (12)
  MaxSessions, MaxCalls, MaxUpdates

\* What the constants are; Grid assumes it of its instance.
CellEditorAssumption == /\ Start \in [Rows -> Values] /\ Accepted \subseteq Values
                        /\ Writable \subseteq Rows
                        /\ Rows \subseteq Nat \ {0} /\ IsFiniteSet(Rows)

None == 0

VARIABLES
  data, mounted,   \* what the cells hold, and the rows in the body of the table
  focus, shown,    \* the focused cell, and the one that carries data-cell-focused
  session,         \* the editor session that is set, empty when there is none
  overlay,         \* the mounted editor, empty when there is none
  commits,         \* the cells editors have handed over, in this order
  timers,          \* the pending timer of focusCell
  setBy,           \* the call of focusCell that set the focus last, 0 for the user
  opened, calls, updates

editor == <<session, overlay, commits, opened>>
grid == <<data, mounted, updates>>
api == <<timers, setBy, calls>>
vars == <<data, mounted, focus, shown, session, overlay, commits, timers, setBy, opened, calls, updates>>

\* getFocusedCell knows only rows that exist.
Focused == IF focus \in mounted THEN focus ELSE None

------------------------------------------------------------------------------
(* The editor *)

\* requestCellEdit: a session for the focused cell, with its value or a typed text.
Request(row, text) ==
  /\ opened' = opened + 1
  /\ session' = {[row |-> row, baseline |-> data[row], initial |-> text]}

RequestEdit ==
  /\ opened < MaxSessions /\ overlay = {} /\ Focused \in Writable
  /\ \E text \in Values : Request(Focused, text)
  /\ UNCHANGED <<grid, focus, shown, overlay, commits, api>>

Click(row) ==
  /\ row \in mounted /\ row # focus
  /\ focus' = row /\ setBy' = 0
  /\ UNCHANGED <<grid, shown, editor, timers, calls>>

\* The editor stays while its session is about the same cell; a new one is measured
\* over the cell that is shown as focused, and gives up when there is none.
EditorOf(s) ==
  LET kept == {o \in overlay : o.session.row = s.row}
  IN IF kept # {} THEN {[o EXCEPT !.session = s] : o \in kept}
     ELSE IF Focused = None THEN {}
     ELSE {[id |-> opened, session |-> s, text |-> s.initial, finished |-> FALSE]}

Render ==
  /\ shown' = Focused
  /\ overlay' = UNION {EditorOf(s) : s \in session}
  /\ session' = IF overlay' = {} THEN {} ELSE session
  /\ UNCHANGED <<grid, focus, commits, opened, api>>

Type ==
  \E o \in overlay, text \in Values :
    /\ o.text # text
    /\ overlay' = {[o EXCEPT !.text = text]}
    /\ UNCHANGED <<grid, focus, shown, session, commits, opened, api>>

\* What a batch for one cell does: a text that does not parse is handed over as rejected.
HandOver(o, row) ==
  /\ commits' = Append(commits, [editor |-> o.id, opened |-> o.session.row, row |-> row])
  /\ data' = IF o.text \in Accepted THEN [data EXCEPT ![row] = o.text] ELSE data

\* Mutant of Commit: the batch is for the cell that is focused by then.
CommitFocused(o) ==
  IF o.text = o.session.baseline \/ Focused \notin Writable
  THEN UNCHANGED <<data, commits>>
  ELSE HandOver(o, Focused)

\* commitEditorSession: nothing for an unchanged text or a cell that is gone.
Commit(o) ==
  IF o.text = o.session.baseline \/ o.session.row \notin mounted \intersect Writable
  THEN UNCHANGED <<data, commits>>
  ELSE HandOver(o, o.session.row)

\* Mutant of Finish: an editor may finish again.
FinishAgain(o, commit) ==
  /\ overlay' = {[o EXCEPT !.finished = TRUE]} /\ session' = {}
  /\ IF commit THEN Commit(o) ELSE UNCHANGED <<data, commits>>

Finish(o, commit) ==
  /\ ~o.finished
  /\ overlay' = {[o EXCEPT !.finished = TRUE]} /\ session' = {}
  /\ IF commit THEN Commit(o) ELSE UNCHANGED <<data, commits>>

\* The step to the next row of a commit that advances.
Advanced(down) ==
  LET beyond == {r \in mounted : IF down THEN r > focus ELSE r < focus}
  IN IF Focused = None \/ beyond = {} THEN focus ELSE IF down THEN Min(beyond) ELSE Max(beyond)

\* Enter and Tab commit and may step on; Escape does not commit.
EndByKey ==
  \E o \in overlay, commit \in BOOLEAN :
    /\ Finish(o, commit)
    /\ focus' \in {focus} \union (IF commit THEN {Advanced(TRUE), Advanced(FALSE)} ELSE {})
    /\ setBy' = IF focus' = focus THEN setBy ELSE 0
    /\ UNCHANGED <<mounted, updates, shown, opened, timers, calls>>

\* The editor loses the focus, to a click, or when it is removed.
Blur ==
  \E o \in overlay :
    /\ Finish(o, TRUE)
    /\ UNCHANGED <<mounted, updates, focus, shown, opened, api>>

\* Rows come and go: the observer of the body cancels an open editor, a timer that
\* waits to edit a removed cell goes quiet.
MoveRows ==
  /\ updates < MaxUpdates /\ updates' = updates + 1
  /\ mounted' \in SUBSET Rows \ {mounted}
  /\ session' = IF \E o \in overlay : ~o.finished THEN {} ELSE session
  /\ timers' = {t \in timers : t.phase = "find" \/ t.row \in mounted'}
  /\ UNCHANGED <<data, focus, shown, overlay, commits, opened, setBy, calls>>

\* A live update of a value leaves the rows alone.
LiveUpdate(row, value) ==
  /\ updates < MaxUpdates /\ updates' = updates + 1
  /\ data[row] # value /\ data' = [data EXCEPT ![row] = value]
  /\ UNCHANGED <<mounted, focus, shown, editor, api>>

------------------------------------------------------------------------------
(* focusCell *)

Again(t) == IF t.left > 0 THEN {[t EXCEPT !.left = t.left - 1]} ELSE {}

\* The edit waits for its cell to be shown as focused, and is then requested for the
\* cell that is focused.
TryEdit(t, others) ==
  IF shown = t.row
  THEN /\ timers' = others
       /\ IF focus' \in Writable \intersect mounted THEN Request(focus', data[focus'])
          ELSE UNCHANGED <<session, opened>>
  ELSE timers' = others \union Again(t) /\ UNCHANGED <<session, opened>>

TryFind(t, others) ==
  IF t.row \notin mounted
  THEN timers' = others \union Again(t) /\ UNCHANGED <<focus, setBy, session, opened>>
  ELSE /\ focus' = t.row /\ setBy' = t.call
       /\ IF t.edit THEN TryEdit([t EXCEPT !.phase = "edit", !.left = Attempts], others)
          ELSE timers' = others /\ UNCHANGED <<session, opened>>

\* Mutant of FocusCell: the timer of the call before stays.
FocusCellBesides(row, withEdit) ==
  /\ calls < MaxCalls /\ calls' = calls + 1
  /\ TryFind([phase |-> "find", call |-> calls', row |-> row, edit |-> withEdit, left |-> Attempts], timers)
  /\ UNCHANGED <<grid, shown, overlay, commits>>

\* A call supersedes the one that is still waiting.
FocusCell(row, withEdit) ==
  /\ calls < MaxCalls /\ calls' = calls + 1
  /\ TryFind([phase |-> "find", call |-> calls', row |-> row, edit |-> withEdit, left |-> Attempts], {})
  /\ UNCHANGED <<grid, shown, overlay, commits>>

Tick ==
  \E t \in timers :
    /\ IF t.phase = "find" THEN TryFind(t, timers \ {t})
       ELSE UNCHANGED <<focus, setBy>> /\ TryEdit(t, timers \ {t})
    /\ UNCHANGED <<grid, shown, overlay, commits, calls>>

------------------------------------------------------------------------------
Init ==
  /\ data = Start /\ mounted \in SUBSET Rows \ {{}} /\ focus = None /\ shown = None
  /\ session = {} /\ overlay = {} /\ commits = <<>>
  /\ timers = {} /\ setBy = 0 /\ opened = 0 /\ calls = 0 /\ updates = 0

Next ==
  \/ \E row \in Rows : Click(row) \/ (\E withEdit \in BOOLEAN : FocusCell(row, withEdit))
  \/ RequestEdit \/ Render \/ Type \/ EndByKey \/ Blur \/ Tick \/ MoveRows
  \/ \E row \in Rows, value \in Values : LiveUpdate(row, value)

Spec == Init /\ [][Next]_vars /\ WF_vars(Tick)

------------------------------------------------------------------------------
(* Properties *)

TypeOK ==
  /\ data \in [Rows -> Values] /\ mounted \subseteq Rows
  /\ {focus, shown} \subseteq Rows \union {None}
  /\ Cardinality(overlay) <= 1 /\ Cardinality(session) <= 1

\* An edit lands once, and in the cell its editor was opened for: an editor hands over
\* at most one batch, though a key is chased by the loss of focus, and the cell is
\* neither the one a click has focused meanwhile nor one the commit steps on to
\* (finish, commitEditorSession).
EditsLandOnce ==
  \A i, j \in DOMAIN commits :
    /\ commits[i].row = commits[i].opened
    /\ commits[i].editor = commits[j].editor => i = j

\* A call of focusCell that has been superseded never sets the focus
\* (the clearTimeout at the head of focusCell).
CallIsLatest == setBy' # setBy => setBy' \in {0, calls'}
LatestCallWins == [][CallIsLatest]_vars
==============================================================================
