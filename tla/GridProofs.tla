------------------------------ MODULE GridProofs ------------------------------
(***************************************************************************)
(* What the parts of the data grid promise, for any rows, columns, values, *)
(* sizes and number of the user's actions: the state is well typed, an     *)
(* edit lands once and where it was made, a batch writes what the user can *)
(* see and can be taken back, a copy pasted onto itself changes nothing, a *)
(* width has one writer, a row that was asked for comes into sight, the    *)
(* next rows are asked for once, and every row spans the table.            *)
(* CellsProofs has the part about the clipboard and the selection.         *)
(***************************************************************************)
EXTENDS Grid, FiniteSetTheorems, SequenceTheorems, TLAPS

\* A step of the grid is a step of the part it is about.
LEMMA StepOfPart ==
  ASSUME [Next]_vars
  PROVE  /\ unit' = unit
         /\ unit = "cells" => [Cells!Next]_(Cells!vars)
         /\ unit = "editor" => [Editor!Next]_(Editor!vars)
         /\ unit = "widths" => [Widths!Next]_(Widths!vars)
         /\ unit = "scrolling" => [Scrolling!Next]_(Scrolling!vars)
         /\ unit = "body" => [Body!Next]_(Body!vars)
<1>1. CASE Next
  BY <1>1 DEF Next, SelectCells, EditCell, SizeColumns, ScrollRows, RenderTable
<1>2. CASE UNCHANGED vars
  BY <1>2 DEF vars, cellsOnly, editorOnly, widthsOnly, scrollingOnly, bodyOnly, shared,
              Cells!vars, Editor!vars, Widths!vars, Scrolling!vars, Body!vars
<1>3. QED
  BY <1>1, <1>2

\* A behaviour begins as one of its part does.
LEMMA InitOfPart ==
  ASSUME Init
  PROVE  /\ unit = "cells" => Cells!Init
         /\ unit = "editor" => Editor!Init
         /\ unit = "widths" => Widths!Init
         /\ unit = "scrolling" => Scrolling!Init
         /\ unit = "body" => Body!Init
BY DEF Init

------------------------------------------------------------------------------
(* Sets of numbers *)

\* In a finite set of numbers there is one for each place in their order.
LEMMA RanksExist ==
  ASSUME NEW S, S \subseteq Int, IsFiniteSet(S), NEW i \in 1..Cardinality(S)
  PROVE  \E n \in S : Cardinality({m \in S : m <= n}) = i
<1> DEFINE UpTo(n) == {m \in S : m <= n}
           rank == [n \in S |-> Cardinality(UpTo(n))]
           T == 1..Cardinality(S)
<1>1. Cardinality(S) \in Nat
  BY FS_CardinalityType
<1>2. IsFiniteSet(T) /\ Cardinality(T) = Cardinality(S)
  <2>1. IsFiniteSet(T) /\ Cardinality(T) = IF 1 > Cardinality(S) THEN 0 ELSE Cardinality(S) - 1 + 1
    BY <1>1, FS_Interval
  <2>2. QED
    BY <1>1, <2>1
<1>3. \A n \in S : /\ IsFiniteSet(UpTo(n)) /\ n \in UpTo(n) /\ UpTo(n) \subseteq S
                   /\ Cardinality(UpTo(n)) \in Nat /\ Cardinality(UpTo(n)) <= Cardinality(S)
                   /\ Cardinality(UpTo(n)) # 0
  <2> TAKE n \in S
  <2>1. UpTo(n) \subseteq S /\ n \in UpTo(n)
    OBVIOUS
  <2>2. IsFiniteSet(UpTo(n)) /\ Cardinality(UpTo(n)) <= Cardinality(S)
    BY <2>1, FS_Subset
  <2>3. Cardinality(UpTo(n)) \in Nat /\ Cardinality(UpTo(n)) # 0
    BY <2>1, <2>2, FS_CardinalityType, FS_EmptySet
  <2>4. QED
    BY <2>1, <2>2, <2>3
<1>4. rank \in [S -> T]
  BY <1>1, <1>3
<1>5. ASSUME NEW m \in S, NEW n \in S, m < n
      PROVE  Cardinality(UpTo(m)) # Cardinality(UpTo(n))
  <2>1. UpTo(m) \subseteq UpTo(n) /\ n \notin UpTo(m) /\ n \in UpTo(n)
    <3>1. m \in Int /\ n \in Int /\ \A k \in S : k \in Int
      OBVIOUS
    <3>2. \A k \in S : k <= m => k <= n
      BY <1>5, <3>1
    <3>3. ~(n <= m) /\ n <= n
      BY <1>5, <3>1
    <3>4. QED
      BY <3>2, <3>3
  <2>2. IsFiniteSet(UpTo(n))
    BY <1>3
  <2>3. Cardinality(UpTo(m)) = Cardinality(UpTo(n)) => UpTo(m) = UpTo(n)
    BY <2>1, <2>2, FS_Subset
  <2>4. QED
    BY <2>1, <2>3
<1>6. \A m, n \in S : rank[m] = rank[n] => m = n
  <2>1. \A n \in S : n \in Int /\ rank[n] = Cardinality(UpTo(n))
    OBVIOUS
  <2> HIDE DEF rank, UpTo
  <2>2. \A m, n \in S : m # n => m < n \/ n < m
    BY <2>1
  <2>3. QED
    BY <1>5, <2>1, <2>2
<1>7. rank \in Injection(S, T)
  BY <1>4, <1>6 DEF Injection, IsInjective
<1>8. rank \in Surjection(S, T)
  BY <1>2, <1>7, FS_Injection
<1>9. \E n \in S : rank[n] = i
  BY <1>8 DEF Surjection
<1>10. QED
  BY <1>9

\* A finite set of numbers that is not empty has a least one
LEMMA LeastExists ==
  ASSUME NEW S, S \subseteq Int, IsFiniteSet(S), S # {}
  PROVE  \E n \in S : \A m \in S : n <= m
<1> DEFINE UpTo(n) == {m \in S : m <= n}
<1>1. 1 \in 1..Cardinality(S)
  BY FS_CardinalityType, FS_EmptySet
<1>2. PICK n \in S : Cardinality(UpTo(n)) = 1
  BY <1>1, RanksExist
<1>3. IsFiniteSet(UpTo(n))
  BY FS_Subset
<1>4. PICK k : UpTo(n) = {k}
  BY <1>2, <1>3, FS_Singleton
<1>5. \A m \in S : m <= n => m = n
  BY <1>4
<1>6. QED
  BY <1>5

\* and a greatest one.
LEMMA GreatestExists ==
  ASSUME NEW S, S \subseteq Int, IsFiniteSet(S), S # {}
  PROVE  \E n \in S : \A m \in S : n >= m
<1> DEFINE UpTo(n) == {m \in S : m <= n}
<1>1. Cardinality(S) \in 1..Cardinality(S)
  BY FS_CardinalityType, FS_EmptySet
<1>2. PICK n \in S : Cardinality(UpTo(n)) = Cardinality(S)
  BY <1>1, RanksExist
<1>3. UpTo(n) \subseteq S
  OBVIOUS
<1> HIDE DEF UpTo
<1>4. UpTo(n) = S
  BY <1>2, <1>3, FS_Subset
<1>5. \A m \in S : m <= n
  BY <1>4 DEF UpTo
<1>6. QED
  BY <1>5

------------------------------------------------------------------------------
(* Recursive functions *)

\* A recursive function is known by what it satisfies: if each value follows from the
\* one before as step says, there is no other (module CellsProofs shows that there is
\* one).
LEMMA RecursOnly ==
  ASSUME NEW N, NEW S, NEW a, NEW step, Cells!Steps(N, S, a, step), NEW f, Cells!OfNumbers(f, N),
         f[0] = a, \A n \in 1..N : f[n - 1] \in S => f[n] = step[<<n, f[n - 1]>>]
  PROVE  Cells!Recurs(f, N, S, a, step)
<1> DEFINE T == {n \in 0..N : f[n] \in S}
<1>0. N \in Nat /\ a \in S /\ \A n \in 1..N, s \in S : step[<<n, s>>] \in S
  BY DEF Cells!Steps
<1>1. 0 \in T
  BY <1>0
<1>2. ASSUME NEW n \in 1..N, n - 1 \in T PROVE n \in T
  <2>1. f[n - 1] \in S
    BY <1>2
  <2>2. f[n] \in S
    BY <1>0, <2>1
  <2>3. QED
    BY <2>2, <1>0
<1>3. \A n \in 0..N : n \in T
  <2> HIDE DEF T
  <2>1. QED
    BY <1>0, <1>1, <1>2, Cells!Climb
<1>4. f \in [0..N -> S]
  BY <1>3 DEF Cells!OfNumbers
<1>5. \A n \in 1..N : f[n - 1] \in S
  BY <1>0, <1>4
<1>6. QED
  BY <1>4, <1>5 DEF Cells!Recurs

------------------------------------------------------------------------------
(* The cell editor *)

Opening == [row : EditorRows, baseline : EditorValues, initial : EditorValues]
Overlaid == [id : Nat, session : Opening, text : EditorValues, finished : BOOLEAN]
Batch == [editor : Nat, opened : EditorRows, row : EditorRows]
Commits == Seq(Batch)

EditorTyped ==
  /\ data \in [EditorRows -> EditorValues] /\ opened \in Nat /\ mounted \subseteq EditorRows
  /\ session \in SUBSET Opening /\ overlay \in SUBSET Overlaid
  /\ commits \in Commits

\* EditsLandOnce is not inductive: an editor that has not finished, and the session one
\* may still be mounted for, must not have handed anything over yet.
UsedIds == {commits[i].editor : i \in DOMAIN commits}
EditorFresh ==
  /\ \A id \in UsedIds : id <= opened
  /\ \A o \in overlay : ~o.finished => o.id \notin UsedIds
  /\ \A o \in overlay : o.id <= opened
  /\ session # {} => opened \notin UsedIds

EditorInv == EditorTyped /\ EditorFresh /\ Editor!EditsLandOnce

LEMMA InitEditor == ASSUME Editor!CellEditorAssumption, Editor!Init PROVE EditorInv
  BY DEF Editor!CellEditorAssumption, Editor!Init, EditorInv, EditorTyped, EditorFresh, UsedIds,
         Editor!EditsLandOnce, Commits

LEMMA RequestOpens ==
  ASSUME EditorTyped, NEW row \in EditorRows, NEW text \in EditorValues, Editor!Request(row, text)
  PROVE  opened' = opened + 1 /\ session' \in SUBSET Opening
  BY DEF EditorTyped, Editor!Request, Opening

\* What leaves overlay and commits alone and at most sets a session of its own number.
LEMMA OpeningKeeps ==
  ASSUME EditorInv, UNCHANGED <<overlay, commits>>, EditorTyped',
         \/ opened' = opened + 1
         \/ opened' = opened /\ session' \in {session, {}}
  PROVE  EditorInv'
<1>1. UsedIds' = UsedIds /\ Editor!EditsLandOnce'
  BY DEF UsedIds, EditorInv, Editor!EditsLandOnce
<1>2. \A id \in UsedIds : id \in Nat /\ id <= opened
  <2>1. \A i \in DOMAIN commits : commits[i].editor \in Nat
    <3>1. commits \in Seq(Batch)
      BY DEF EditorInv, EditorTyped, Commits
    <3>2. \A i \in 1..Len(commits) : commits[i] \in Batch
      BY <3>1
    <3>3. DOMAIN commits = 1..Len(commits)
      BY <3>1
    <3>4. QED
      BY <3>2, <3>3 DEF Batch
  <2>2. QED
    BY <2>1 DEF UsedIds, EditorInv, EditorFresh
<1>3. \A o \in overlay : o.id \in Nat /\ o.id <= opened
  BY DEF EditorInv, EditorTyped, EditorFresh, Overlaid
<1>4. opened \in Nat
  BY DEF EditorInv, EditorTyped
<1>5. EditorFresh'
  BY <1>1, <1>2, <1>3, <1>4 DEF EditorInv, EditorFresh
<1>6. QED
  BY <1>1, <1>5 DEF EditorInv

LEMMA RenderKeeps == ASSUME EditorInv, Editor!Render PROVE EditorInv'
<1>1. \A o \in overlay' : o \in Overlaid /\ o.id <= opened /\ (~o.finished => o.id \notin UsedIds)
  <2>1. SUFFICES ASSUME NEW s \in session, NEW o \in Editor!EditorOf(s)
                 PROVE  o \in Overlaid /\ o.id <= opened /\ (~o.finished => o.id \notin UsedIds)
    BY DEF Editor!Render
  <2>2. s \in Opening
    BY DEF EditorInv, EditorTyped
  <2>3. CASE \E k \in overlay : o = [k EXCEPT !.session = s]
    <3>1. PICK k \in overlay : o = [k EXCEPT !.session = s]
      BY <2>3
    <3>2. k \in Overlaid
      BY DEF EditorInv, EditorTyped
    <3>3. o \in Overlaid /\ o.id = k.id /\ o.finished = k.finished
      BY <2>2, <3>1, <3>2 DEF Overlaid
    <3>4. QED
      BY <3>3 DEF EditorInv, EditorFresh
  <2>4. CASE o = [id |-> opened, session |-> s, text |-> s.initial, finished |-> FALSE]
    <3>1. o \in Overlaid
      BY <2>2, <2>4 DEF EditorInv, EditorTyped, Overlaid, Opening
    <3>2. o.id = opened /\ opened \notin UsedIds
      BY <2>4 DEF EditorInv, EditorFresh
    <3>3. QED
      BY <3>1, <3>2 DEF EditorInv, EditorTyped
  <2>5. QED
    BY <2>1, <2>3, <2>4 DEF Editor!EditorOf
<1>2. EditorTyped'
  BY <1>1 DEF Editor!Render, Editor!grid, EditorInv, EditorTyped
<1>3. EditorFresh'
  <2>1. UsedIds' = UsedIds
    BY DEF Editor!Render, UsedIds
  <2>2. QED
    BY <1>1, <2>1 DEF Editor!Render, EditorInv, EditorFresh
<1>4. Editor!EditsLandOnce'
  BY DEF Editor!Render, EditorInv, Editor!EditsLandOnce
<1>5. QED
  BY <1>2, <1>3, <1>4 DEF EditorInv

\* What an editor hands over is new, and is about its own cell.
LEMMA FinishKeeps ==
  ASSUME Editor!CellEditorAssumption, EditorInv, NEW o \in overlay, NEW commit \in BOOLEAN, Editor!Finish(o, commit),
         UNCHANGED <<mounted, opened>>
  PROVE  EditorInv'
<1> DEFINE entry == [editor |-> o.id, opened |-> o.session.row, row |-> o.session.row]
<1>1. o \in Overlaid /\ o.id \notin UsedIds /\ o.id <= opened
  BY DEF Editor!Finish, EditorInv, EditorTyped, EditorFresh
<1>2. /\ o.session.row \in EditorRows /\ o.text \in EditorValues /\ o.id \in Nat
      /\ [o EXCEPT !.finished = TRUE] \in Overlaid
      /\ [o EXCEPT !.finished = TRUE].id = o.id /\ [o EXCEPT !.finished = TRUE].finished
  BY <1>1 DEF Overlaid, Opening
<1>3. session' = {} /\ overlay' = {[o EXCEPT !.finished = TRUE]}
  BY DEF Editor!Finish
<1>4. CASE UNCHANGED <<data, commits>>
  <2>1. EditorTyped'
    BY <1>2, <1>3, <1>4 DEF EditorInv, EditorTyped
  <2>2. EditorFresh'
    BY <1>1, <1>2, <1>3, <1>4 DEF EditorInv, EditorFresh, UsedIds
  <2>3. QED
    BY <2>1, <2>2, <1>4 DEF EditorInv, Editor!EditsLandOnce
<1>5. CASE Editor!HandOver(o, o.session.row)
  <2>1. commits' = Append(commits, entry) /\ entry \in Batch
    BY <1>2, <1>5 DEF Editor!HandOver, Batch
  <2>2. /\ commits' \in Commits
        /\ DOMAIN commits' = DOMAIN commits \cup {Len(commits) + 1}
        /\ \A i \in DOMAIN commits : commits'[i] = commits[i]
        /\ commits'[Len(commits) + 1] = entry
        /\ Len(commits) + 1 \notin DOMAIN commits
    BY <2>1 DEF EditorInv, EditorTyped, Commits
  <2>3. data' \in [EditorRows -> EditorValues]
    BY <1>2, <1>5 DEF Editor!HandOver, EditorInv, EditorTyped
  <2>4. EditorTyped'
    BY <1>2, <1>3, <2>2, <2>3 DEF EditorInv, EditorTyped
  <2>5. \A id \in UsedIds' : id = o.id \/ id \in UsedIds
    BY <2>2 DEF UsedIds
  <2>6. EditorFresh'
    BY <1>1, <1>2, <1>3, <2>5 DEF EditorInv, EditorFresh
  <2>7. \A i \in DOMAIN commits : commits[i].editor # o.id
    BY <1>1 DEF UsedIds
  <2>8. Editor!EditsLandOnce'
    <3>1. SUFFICES ASSUME NEW i \in DOMAIN commits', NEW j \in DOMAIN commits'
                   PROVE  /\ commits'[i].row = commits'[i].opened
                          /\ commits'[i].editor = commits'[j].editor => i = j
      BY DEF Editor!EditsLandOnce
    <3>2. entry.editor = o.id /\ entry.row = entry.opened
      OBVIOUS
    <3> HIDE DEF entry
    <3>3. QED
      BY <2>2, <2>7, <3>2 DEF EditorInv, Editor!EditsLandOnce
  <2>9. QED
    BY <2>4, <2>6, <2>8 DEF EditorInv
<1>6. QED
  BY <1>4, <1>5 DEF Editor!Finish, Editor!Commit

\* A timer of focusCell opens an editor or leaves them alone.
LEMMA TryEditOpens ==
  ASSUME Editor!CellEditorAssumption, EditorInv, UNCHANGED <<data, mounted, overlay, commits>>,
         NEW t, NEW others, Editor!TryEdit(t, others)
  PROVE  EditorInv'
<1>1. CASE /\ focus' \in EditorWritable /\ Editor!Request(focus', data[focus'])
  <2>1. focus' \in EditorRows /\ data[focus'] \in EditorValues
    BY <1>1 DEF Editor!CellEditorAssumption, EditorInv, EditorTyped
  <2>2. opened' = opened + 1 /\ session' \in SUBSET Opening
    BY <1>1, <2>1, RequestOpens DEF EditorInv
  <2>3. EditorTyped'
    BY <2>2 DEF EditorInv, EditorTyped
  <2>4. QED
    BY <2>2, <2>3, OpeningKeeps
<1>2. CASE UNCHANGED <<session, opened>>
  <2>1. EditorTyped'
    BY <1>2 DEF EditorInv, EditorTyped
  <2>2. QED
    BY <1>2, <2>1, OpeningKeeps
<1>3. QED
  BY <1>1, <1>2 DEF Editor!TryEdit

LEMMA TryFindOpens ==
  ASSUME Editor!CellEditorAssumption, EditorInv, UNCHANGED <<data, mounted, overlay, commits>>,
         NEW t, NEW others, Editor!TryFind(t, others)
  PROVE  EditorInv'
<1>1. CASE UNCHANGED <<session, opened>>
  <2>1. EditorTyped'
    BY <1>1 DEF EditorInv, EditorTyped
  <2>2. QED
    BY <1>1, <2>1, OpeningKeeps
<1>2. CASE Editor!TryEdit([t EXCEPT !.phase = "edit", !.left = Attempts], others)
  BY <1>2, TryEditOpens
<1>3. QED
  BY <1>1, <1>2 DEF Editor!TryFind

LEMMA EditorKept ==
  ASSUME Editor!CellEditorAssumption, EditorInv, [Editor!Next]_(Editor!vars)
  PROVE  EditorInv'
<1>1. CASE \E row \in EditorRows : Editor!Click(row)
  <2>1. UNCHANGED <<data, mounted, session, overlay, commits, opened>>
    BY <1>1 DEF Editor!Click, Editor!grid, Editor!editor
  <2>2. EditorTyped'
    BY <2>1 DEF EditorInv, EditorTyped
  <2>3. QED
    BY <2>1, <2>2, OpeningKeeps
<1>2. CASE \E row \in EditorRows, withEdit \in BOOLEAN : Editor!FocusCell(row, withEdit)
  BY <1>2, TryFindOpens DEF Editor!FocusCell, Editor!grid
<1>3. CASE Editor!RequestEdit
  <2>1. PICK text \in EditorValues : Editor!Request(Editor!Focused, text)
    BY <1>3 DEF Editor!RequestEdit
  <2>2. Editor!Focused \in EditorRows /\ UNCHANGED <<data, mounted, overlay, commits>>
    BY <1>3 DEF Editor!RequestEdit, Editor!CellEditorAssumption, Editor!grid
  <2>3. opened' = opened + 1 /\ session' \in SUBSET Opening
    BY <2>1, <2>2, RequestOpens DEF EditorInv
  <2>4. EditorTyped'
    BY <2>2, <2>3 DEF EditorInv, EditorTyped
  <2>5. QED
    BY <2>2, <2>3, <2>4, OpeningKeeps
<1>4. CASE Editor!Render
  BY <1>4, RenderKeeps
<1>5. CASE Editor!Type
  <2>1. PICK o \in overlay, text \in EditorValues :
          /\ overlay' = {[o EXCEPT !.text = text]}
          /\ UNCHANGED <<Editor!grid, session, commits, opened>>
    BY <1>5 DEF Editor!Type
  <2>2. o \in Overlaid
    BY DEF EditorInv, EditorTyped
  <2>3. /\ [o EXCEPT !.text = text] \in Overlaid /\ [o EXCEPT !.text = text].id = o.id
        /\ [o EXCEPT !.text = text].finished = o.finished
    BY <2>2 DEF Overlaid
  <2>4. EditorTyped'
    BY <2>1, <2>3 DEF EditorInv, EditorTyped, Editor!grid
  <2>5. EditorFresh'
    BY <2>1, <2>3 DEF EditorInv, EditorFresh, UsedIds
  <2>6. QED
    BY <2>1, <2>4, <2>5 DEF EditorInv, Editor!EditsLandOnce
<1>6. CASE Editor!EndByKey
  BY <1>6, FinishKeeps DEF Editor!EndByKey
<1>7. CASE Editor!Blur
  BY <1>7, FinishKeeps DEF Editor!Blur
<1>8. CASE Editor!Tick
  <2>1. PICK t \in timers : IF t.phase = "find" THEN Editor!TryFind(t, timers \ {t})
                            ELSE Editor!TryEdit(t, timers \ {t})
    BY <1>8 DEF Editor!Tick
  <2>2. UNCHANGED <<data, mounted, overlay, commits>>
    BY <1>8 DEF Editor!Tick, Editor!grid
  <2>3. QED
    BY <2>1, <2>2, TryFindOpens, TryEditOpens
<1>9. CASE Editor!MoveRows
  <2>1. /\ UNCHANGED <<data, overlay, commits, opened>> /\ mounted' \subseteq EditorRows
        /\ session' \in {session, {}}
    BY <1>9 DEF Editor!MoveRows
  <2>2. EditorTyped'
    BY <2>1 DEF EditorInv, EditorTyped
  <2>3. QED
    BY <2>1, <2>2, OpeningKeeps
<1>10. CASE \E row \in EditorRows, value \in EditorValues : Editor!LiveUpdate(row, value)
  <2>1. /\ UNCHANGED <<mounted, session, overlay, commits, opened>>
        /\ data' \in [EditorRows -> EditorValues]
    BY <1>10 DEF Editor!LiveUpdate, Editor!editor, EditorInv, EditorTyped
  <2>2. EditorTyped'
    BY <2>1 DEF EditorInv, EditorTyped
  <2>3. QED
    BY <2>1, <2>2, OpeningKeeps
<1>11. CASE UNCHANGED Editor!vars
  <2>1. UNCHANGED <<data, mounted, session, overlay, commits, opened>>
    BY <1>11 DEF Editor!vars
  <2>2. EditorTyped'
    BY <2>1 DEF EditorInv, EditorTyped
  <2>3. QED
    BY <2>1, <2>2, OpeningKeeps
<1>12. \/ \E row \in EditorRows : Editor!Click(row)
       \/ \E row \in EditorRows, withEdit \in BOOLEAN : Editor!FocusCell(row, withEdit)
       \/ Editor!RequestEdit \/ Editor!Render \/ Editor!Type \/ Editor!EndByKey \/ Editor!Blur
       \/ Editor!Tick \/ Editor!MoveRows \/ UNCHANGED Editor!vars
       \/ \E row \in EditorRows, value \in EditorValues : Editor!LiveUpdate(row, value)
  BY DEF Editor!Next
<1>13. QED
  BY <1>1, <1>2, <1>3, <1>4, <1>5, <1>6, <1>7, <1>8, <1>9, <1>10, <1>11, <1>12

\* A timer of focusCell belongs to the call that was made last.
Latest(t, n) ==
  /\ t = [phase |-> t.phase, call |-> t.call, row |-> t.row, edit |-> t.edit, left |-> t.left]
  /\ t.call = n
TimersAreLatest == \A t \in timers : Latest(t, calls)

LEMMA LatestAgain ==
  ASSUME NEW t, NEW n, Latest(t, n), NEW k, NEW phase
  PROVE  /\ Latest([t EXCEPT !.left = k], n) /\ Latest([t EXCEPT !.phase = phase, !.left = k], n)
         /\ [t EXCEPT !.phase = phase, !.left = k].call = n
<1> DEFINE Near == [phase : {t.phase, phase}, call : {n}, row : {t.row}, edit : {t.edit},
                    left : {t.left, k}]
<1>1. t \in Near
  BY DEF Latest
<1>2. [t EXCEPT !.left = k] \in Near
  BY <1>1
<1>3. [t EXCEPT !.phase = phase, !.left = k] \in Near
  BY <1>1
<1>4. \A u \in Near : Latest(u, n) /\ u.call = n
  BY DEF Latest
<1> HIDE DEF Near
<1>5. QED
  BY <1>1, <1>2, <1>3, <1>4

LEMMA AgainTimers ==
  ASSUME NEW t, NEW n, Latest(t, n), NEW others, \A o \in others : Latest(o, n)
  PROVE  \A o \in others \cup Editor!Again(t) : Latest(o, n)
<1>1. \A o \in Editor!Again(t) : o = [t EXCEPT !.left = t.left - 1]
  BY DEF Editor!Again
<1>2. Latest([t EXCEPT !.left = t.left - 1], n)
  BY LatestAgain
<1>3. QED
  BY <1>1, <1>2

LEMMA TryEditTimers ==
  ASSUME NEW t, NEW n, Latest(t, n), NEW others, \A o \in others : Latest(o, n), Editor!TryEdit(t, others)
  PROVE  \A o \in timers' : Latest(o, n)
<1>1. timers' = others \/ timers' = others \cup Editor!Again(t)
  BY DEF Editor!TryEdit
<1>2. QED
  BY <1>1, AgainTimers

LEMMA TryFindTimers ==
  ASSUME NEW t, NEW n, Latest(t, n), NEW others, \A o \in others : Latest(o, n), Editor!TryFind(t, others)
  PROVE  /\ \A o \in timers' : Latest(o, n)
         /\ setBy' # setBy => setBy' = n
<1>1. CASE t.row \notin mounted
  BY <1>1, AgainTimers DEF Editor!TryFind
<1>2. CASE t.row \in mounted
  <2>1. setBy' = t.call /\ t.call = n
    BY <1>2 DEF Editor!TryFind, Latest
  <2>2. CASE t.edit
    <3> DEFINE u == [t EXCEPT !.phase = "edit", !.left = Attempts]
    <3>1. Editor!TryEdit(u, others)
      BY <1>2, <2>2 DEF Editor!TryFind
    <3>2. Latest(u, n)
      BY LatestAgain
    <3> HIDE DEF u
    <3>3. QED
      BY <2>1, <3>1, <3>2, TryEditTimers
  <2>3. CASE ~t.edit
    BY <1>2, <2>1, <2>3 DEF Editor!TryFind
  <2>4. QED
    BY <2>2, <2>3
<1>3. QED
  BY <1>1, <1>2

LEMMA TimersKept ==
  ASSUME TimersAreLatest, [Editor!Next]_(Editor!vars)
  PROVE  TimersAreLatest' /\ Editor!CallIsLatest
<1>1. CASE \E row \in EditorRows, withEdit \in BOOLEAN : Editor!FocusCell(row, withEdit)
  <2>1. PICK row \in EditorRows, withEdit \in BOOLEAN : Editor!FocusCell(row, withEdit)
    BY <1>1
  <2> DEFINE t == [phase |-> "find", call |-> calls', row |-> row, edit |-> withEdit, left |-> Attempts]
  <2>2. Editor!TryFind(t, {})
    BY <2>1 DEF Editor!FocusCell
  <2>3. Latest(t, calls')
    BY DEF Latest
  <2> HIDE DEF t
  <2>4. /\ \A o \in timers' : Latest(o, calls')
        /\ setBy' # setBy => setBy' = calls'
    BY <2>2, <2>3, TryFindTimers
  <2>5. QED
    BY <2>4 DEF TimersAreLatest, Latest, Editor!CallIsLatest
<1>2. CASE Editor!Tick
  <2>1. PICK t \in timers : IF t.phase = "find" THEN Editor!TryFind(t, timers \ {t})
                            ELSE UNCHANGED <<focus, setBy>> /\ Editor!TryEdit(t, timers \ {t})
    BY <1>2 DEF Editor!Tick
  <2>2. calls' = calls
    BY <1>2 DEF Editor!Tick
  <2>3. Latest(t, calls) /\ \A o \in timers \ {t} : Latest(o, calls)
    BY DEF TimersAreLatest
  <2>4. /\ \A o \in timers' : Latest(o, calls)
        /\ setBy' # setBy => setBy' = calls
    BY <2>1, <2>3, TryFindTimers, TryEditTimers
  <2>5. QED
    BY <2>2, <2>4 DEF TimersAreLatest, Latest, Editor!CallIsLatest
<1>3. CASE timers' \subseteq timers /\ calls' = calls /\ setBy' \in {setBy, 0}
  BY <1>3 DEF TimersAreLatest, Latest, Editor!CallIsLatest
<1>4. CASE \/ \E row \in EditorRows : Editor!Click(row)
           \/ Editor!RequestEdit \/ Editor!Render \/ Editor!Type \/ Editor!Blur \/ Editor!MoveRows
           \/ \E row \in EditorRows, value \in EditorValues : Editor!LiveUpdate(row, value)
           \/ UNCHANGED Editor!vars
  BY <1>3, <1>4 DEF Editor!Click, Editor!RequestEdit, Editor!Render, Editor!Type, Editor!Blur,
                    Editor!MoveRows, Editor!LiveUpdate, Editor!api, Editor!vars
<1>5. CASE Editor!EndByKey
  BY <1>3, <1>5 DEF Editor!EndByKey
<1>6. QED
  BY <1>1, <1>2, <1>4, <1>5 DEF Editor!Next

\* TypeOK needs more than the types: there is at most one editor and one session, which
\* holds because what makes one takes the place of the one before.
AtMostOne(S) == \A a, b \in S : a = b
EditorPlaced ==
  /\ focus \in EditorRows \cup {Editor!None} /\ shown \in EditorRows \cup {Editor!None}
  /\ AtMostOne(overlay) /\ AtMostOne(session)

LEMMA OneCount == ASSUME NEW S, AtMostOne(S) PROVE Editor!Cardinality(S) <= 1
<1>1. Editor!Cardinality(S) = Cardinality(S)
  BY DEF Editor!Cardinality, Cardinality
<1>2. CASE S = {}
  BY <1>1, <1>2, FS_EmptySet
<1>3. CASE S # {}
  <2>1. PICK a \in S : S = {a}
    BY <1>3 DEF AtMostOne
  <2>2. Cardinality(S) = 1
    BY <2>1, FS_Singleton
  <2>3. QED
    BY <1>1, <2>2
<1>4. QED
  BY <1>2, <1>3

LEMMA RequestPlaces == ASSUME NEW row, NEW text, Editor!Request(row, text) PROVE AtMostOne(session')
BY DEF Editor!Request, AtMostOne

LEMMA TryEditPlaces ==
  ASSUME AtMostOne(session), NEW t, NEW others, Editor!TryEdit(t, others)
  PROVE  AtMostOne(session')
BY RequestPlaces DEF Editor!TryEdit

LEMMA TryFindPlaces ==
  ASSUME EditorTyped, EditorPlaced, NEW t, NEW others, Editor!TryFind(t, others)
  PROVE  AtMostOne(session') /\ focus' \in EditorRows \cup {Editor!None}
<1>1. CASE t.row \notin mounted
  BY <1>1 DEF Editor!TryFind, EditorPlaced
<1>2. CASE t.row \in mounted
  <2>1. focus' \in EditorRows
    BY <1>2 DEF Editor!TryFind, EditorTyped
  <2>2. \/ Editor!TryEdit([t EXCEPT !.phase = "edit", !.left = Attempts], others)
        \/ session' = session
    BY <1>2 DEF Editor!TryFind
  <2>3. QED
    BY <2>1, <2>2, TryEditPlaces DEF EditorPlaced
<1>3. QED
  BY <1>1, <1>2

LEMMA RenderPlaces ==
  ASSUME EditorTyped, EditorPlaced, Editor!Render
  PROVE  AtMostOne(overlay') /\ AtMostOne(session') /\ shown' \in EditorRows \cup {Editor!None}
<1>1. ASSUME NEW s \in session PROVE AtMostOne(Editor!EditorOf(s))
  <2> DEFINE kept == {o \in overlay : o.session.row = s.row}
  <2>1. CASE kept # {}
    <3>1. Editor!EditorOf(s) = {[o EXCEPT !.session = s] : o \in kept}
      BY <2>1 DEF Editor!EditorOf
    <3>2. AtMostOne(kept)
      BY DEF EditorPlaced, AtMostOne
    <3> HIDE DEF kept
    <3>3. QED
      BY <3>1, <3>2 DEF AtMostOne
  <2>2. CASE kept = {}
    BY <2>2 DEF Editor!EditorOf, AtMostOne
  <2>3. QED
    BY <2>1, <2>2
<1>2. AtMostOne(overlay')
  <2>1. overlay' = UNION {Editor!EditorOf(s) : s \in session}
    BY DEF Editor!Render
  <2>2. \A s, t \in session : s = t
    BY DEF EditorPlaced, AtMostOne
  <2>3. \A a, b \in overlay' : \E s \in session : a \in Editor!EditorOf(s) /\ b \in Editor!EditorOf(s)
    BY <2>1, <2>2
  <2>4. QED
    BY <1>1, <2>3 DEF AtMostOne
<1>3. AtMostOne(session')
  BY DEF Editor!Render, EditorPlaced, AtMostOne
<1>4. QED
  BY <1>2, <1>3 DEF Editor!Render, Editor!Focused, EditorTyped

\* Where Enter and Tab go to is a row, or nowhere.
LEMMA AdvancedIs ==
  ASSUME Editor!CellEditorAssumption, EditorTyped, EditorPlaced, NEW down \in BOOLEAN
  PROVE  Editor!Advanced(down) \in EditorRows \cup {Editor!None}
<1> DEFINE beyond == {r \in mounted : IF down THEN r > focus ELSE r < focus}
<1>1. CASE Editor!Focused = Editor!None \/ beyond = {}
  BY <1>1 DEF Editor!Advanced, EditorPlaced
<1>2. CASE ~(Editor!Focused = Editor!None \/ beyond = {})
  <2>1. Editor!Advanced(down) = IF down THEN Editor!Min(beyond) ELSE Editor!Max(beyond)
    BY <1>2 DEF Editor!Advanced
  <2>2. beyond \subseteq EditorRows /\ beyond # {}
    BY <1>2 DEF EditorTyped
  <2> HIDE DEF beyond
  <2>3. EditorRows \subseteq Int /\ IsFiniteSet(EditorRows)
    <3>1. EditorRows \subseteq Nat \ {0} /\ Editor!IsFiniteSet(EditorRows)
      BY DEF Editor!CellEditorAssumption
    <3>2. IsFiniteSet(EditorRows)
      BY <3>1 DEF Editor!IsFiniteSet, IsFiniteSet
    <3>3. QED
      BY <3>1, <3>2
  <2>4. beyond \subseteq Int /\ IsFiniteSet(beyond)
    BY <2>2, <2>3, FS_Subset
  <2>5. Editor!Min(beyond) \in beyond
    <3>1. \E n \in beyond : \A m \in beyond : n <= m
      BY <2>2, <2>4, LeastExists
    <3>2. QED
      BY <3>1 DEF Editor!Min
  <2>6. Editor!Max(beyond) \in beyond
    <3>1. \E n \in beyond : \A m \in beyond : n >= m
      BY <2>2, <2>4, GreatestExists
    <3>2. QED
      BY <3>1 DEF Editor!Max
  <2>7. QED
    BY <2>1, <2>2, <2>5, <2>6
<1>3. QED
  BY <1>1, <1>2

LEMMA FinishPlaces ==
  ASSUME NEW o, NEW commit, Editor!Finish(o, commit)
  PROVE  AtMostOne(overlay') /\ AtMostOne(session')
BY DEF Editor!Finish, AtMostOne

\* Whatever ends an editor or opens one, there is at most one afterwards.
LEMMA EditorPlacedStep ==
  ASSUME Editor!CellEditorAssumption, EditorTyped, EditorPlaced, [Editor!Next]_(Editor!vars)
  PROVE  EditorPlaced'
<1> USE DEF Editor!editor, Editor!grid, Editor!api
<1>1. CASE \E row \in EditorRows : Editor!Click(row)
  BY <1>1 DEF Editor!Click, EditorPlaced, AtMostOne
<1>2. CASE \E row \in EditorRows, withEdit \in BOOLEAN : Editor!FocusCell(row, withEdit)
  <2>1. PICK t : Editor!TryFind(t, {}) /\ UNCHANGED <<shown, overlay>>
    BY <1>2 DEF Editor!FocusCell
  <2>2. AtMostOne(session') /\ focus' \in EditorRows \cup {Editor!None}
    BY <2>1, TryFindPlaces
  <2>3. QED
    BY <2>1, <2>2 DEF EditorPlaced, AtMostOne
<1>3. CASE Editor!RequestEdit
  BY <1>3, RequestPlaces DEF Editor!RequestEdit, EditorPlaced, AtMostOne
<1>4. CASE Editor!Render
  BY <1>4, RenderPlaces DEF Editor!Render, EditorPlaced
<1>5. CASE Editor!Type
  BY <1>5 DEF Editor!Type, EditorPlaced, AtMostOne
<1>6. CASE Editor!EndByKey
  <2>1. PICK o \in overlay, commit \in BOOLEAN :
          /\ Editor!Finish(o, commit)
          /\ focus' \in {focus} \union (IF commit THEN {Editor!Advanced(TRUE), Editor!Advanced(FALSE)} ELSE {})
          /\ shown' = shown
    BY <1>6 DEF Editor!EndByKey
  <2>2. AtMostOne(overlay') /\ AtMostOne(session')
    BY <2>1, FinishPlaces
  <2>3. focus' \in EditorRows \cup {Editor!None}
    BY <2>1, AdvancedIs DEF EditorPlaced
  <2>4. QED
    BY <2>1, <2>2, <2>3 DEF EditorPlaced
<1>7. CASE Editor!Blur
  BY <1>7, FinishPlaces DEF Editor!Blur, EditorPlaced
<1>8. CASE Editor!Tick
  <2>1. PICK t \in timers : IF t.phase = "find" THEN Editor!TryFind(t, timers \ {t})
                            ELSE UNCHANGED <<focus, setBy>> /\ Editor!TryEdit(t, timers \ {t})
    BY <1>8 DEF Editor!Tick
  <2>2. UNCHANGED <<shown, overlay>>
    BY <1>8 DEF Editor!Tick
  <2>3. AtMostOne(session') /\ focus' \in EditorRows \cup {Editor!None}
    BY <2>1, TryFindPlaces, TryEditPlaces DEF EditorPlaced
  <2>4. QED
    BY <2>2, <2>3 DEF EditorPlaced, AtMostOne
<1>9. CASE Editor!MoveRows
  BY <1>9 DEF Editor!MoveRows, EditorPlaced, AtMostOne
<1>10. CASE \E row \in EditorRows, value \in EditorValues : Editor!LiveUpdate(row, value)
  BY <1>10 DEF Editor!LiveUpdate, EditorPlaced, AtMostOne
<1>11. CASE UNCHANGED Editor!vars
  BY <1>11 DEF Editor!vars, EditorPlaced, AtMostOne
<1>12. \/ \E row \in EditorRows : Editor!Click(row)
       \/ \E row \in EditorRows, withEdit \in BOOLEAN : Editor!FocusCell(row, withEdit)
       \/ Editor!RequestEdit \/ Editor!Render \/ Editor!Type \/ Editor!EndByKey \/ Editor!Blur
       \/ Editor!Tick \/ Editor!MoveRows \/ UNCHANGED Editor!vars
       \/ \E row \in EditorRows, value \in EditorValues : Editor!LiveUpdate(row, value)
  BY DEF Editor!Next
<1>13. QED
  BY <1>1, <1>2, <1>3, <1>4, <1>5, <1>6, <1>7, <1>8, <1>9, <1>10, <1>11, <1>12

LEMMA EditorPlacedInit == ASSUME Editor!Init PROVE EditorPlaced
BY DEF Editor!Init, EditorPlaced, AtMostOne

LEMMA EditorTypedIs == ASSUME EditorTyped, EditorPlaced PROVE Editor!TypeOK
BY OneCount DEF EditorTyped, EditorPlaced, Editor!TypeOK

------------------------------------------------------------------------------
(* Scrolling *)

\* Where a reveal scrolls to, the row is in sight: whatever the alignment, and also when
\* the end of the rows does not allow to scroll as far as the alignment asks.
LEMMA TargetIsShown ==
  ASSUME Scrolling!VirtualRowsAssumption, NEW rows \in Nat, NEW row \in 0..(rows - 1), NEW how,
         NEW t \in Scrolling!Tops(rows)
  PROVE  /\ Scrolling!ScrollTarget(row, how, t, rows) \in Scrolling!Tops(rows)
         /\ Scrolling!Shown(row, Scrolling!ScrollTarget(row, how, t, rows))
<1> DEFINE half == (Height - Header - 1) \div 2
<1>1. half \in Nat /\ half <= Height - Header - 1
  BY DEF Scrolling!VirtualRowsAssumption
<1>2. CASE how = "auto"
  BY <1>2 DEF Scrolling!VirtualRowsAssumption, Scrolling!ScrollTarget, Scrolling!Tops,
              Scrolling!MaxTop, Scrolling!Shown, Scrolling!Greater, Scrolling!Lesser
<1>3. CASE how = "start"
  BY <1>3 DEF Scrolling!VirtualRowsAssumption, Scrolling!ScrollTarget, Scrolling!Tops,
              Scrolling!MaxTop, Scrolling!Shown, Scrolling!Greater, Scrolling!Lesser
<1>4. CASE how = "end"
  BY <1>4 DEF Scrolling!VirtualRowsAssumption, Scrolling!ScrollTarget, Scrolling!Tops,
              Scrolling!MaxTop, Scrolling!Shown, Scrolling!Greater, Scrolling!Lesser
<1>5. CASE how # "auto" /\ how # "start" /\ how # "end"
  BY <1>1, <1>5 DEF Scrolling!VirtualRowsAssumption, Scrolling!ScrollTarget, Scrolling!Tops,
                    Scrolling!MaxTop, Scrolling!Shown, Scrolling!Greater, Scrolling!Lesser
<1>6. QED
  BY <1>2, <1>3, <1>4, <1>5


Counters == count \in 1..AllRows /\ top \in Scrolling!Tops(count) /\ acts \in Nat /\ calls \in Nat

\* RevealedRowIsShown is not inductive, since a request may be taken back and made again:
\* it has to hold of the request scrolled for last, and that one's row stays loaded.
LastIsShown ==
  last # Scrolling!NoRequest =>
    /\ last[1] \in 0..(count - 1)
    /\ pending = Scrolling!None /\ ~left => Scrolling!Shown(last[1], top)

\* A call that is not answered was made at this number of rows.
CallIsOfCount == calls <= 1 /\ (calls > 0 => firedAt = count)

ScrollingInv == Counters /\ LastIsShown /\ CallIsOfCount

LEMMA InitScrolling == ASSUME Scrolling!VirtualRowsAssumption, Scrolling!Init PROVE ScrollingInv
  BY DEF Scrolling!Init, Scrolling!VirtualRowsAssumption, ScrollingInv, Counters, LastIsShown,
         CallIsOfCount,
         Scrolling!Tops, Scrolling!MaxTop, Scrolling!Greater

\* More rows do not take away a place to scroll to.
LEMMA TopsGrow ==
  ASSUME Scrolling!VirtualRowsAssumption, NEW m \in Nat, NEW n \in Nat, m <= n, NEW t \in Scrolling!Tops(m)
  PROVE  t \in Scrolling!Tops(n)
  BY DEF Scrolling!VirtualRowsAssumption, Scrolling!Tops, Scrolling!MaxTop, Scrolling!Greater

LEMMA CommitKeeps ==
  ASSUME Scrolling!VirtualRowsAssumption, ScrollingInv, Scrolling!Commit
  PROVE  ScrollingInv'
<1>1. /\ UNCHANGED <<count, target, align, fetching, acts>>
      /\ left' = (left /\ last' = last /\ pending' = pending)
  BY DEF Scrolling!Commit
<1>2. CallIsOfCount' /\ calls' \in Nat
  BY <1>1 DEF Scrolling!Commit, Scrolling!FetchMore, ScrollingInv, CallIsOfCount, Counters
<1>3. Scrolling!Asked => target \in 0..(count - 1) /\ Scrolling!Request # Scrolling!NoRequest /\ Scrolling!Request[1] = target /\ target # Scrolling!None
  BY DEF Scrolling!Asked, Scrolling!Request, Scrolling!NoRequest, Scrolling!None, ScrollingInv,
         Counters
<1>4. top' \in Scrolling!Tops(count) /\ LastIsShown'
  <2>1. PICK rows : IF Scrolling!EndsPending(rows) THEN Scrolling!EndPending ELSE Scrolling!RevealRow(rows)
    BY DEF Scrolling!Commit
  <2>2. Scrolling!Asked => /\ Scrolling!ScrollTarget(target, align, top, count) \in Scrolling!Tops(count)
                 /\ Scrolling!Shown(target, Scrolling!ScrollTarget(target, align, top, count))
    <3>1. SUFFICES ASSUME Scrolling!Asked
                   PROVE  /\ Scrolling!ScrollTarget(target, align, top, count) \in Scrolling!Tops(count)
                          /\ Scrolling!Shown(target, Scrolling!ScrollTarget(target, align, top, count))
      OBVIOUS
    <3>2. count \in Nat /\ top \in Scrolling!Tops(count)
      BY DEF ScrollingInv, Counters, Scrolling!VirtualRowsAssumption
    <3>3. QED
      BY <1>3, <3>1, <3>2, TargetIsShown
  <2>3. CASE Scrolling!EndsPending(rows)
    BY <1>1, <1>3, <2>1, <2>2, <2>3 DEF Scrolling!EndsPending, Scrolling!EndPending, LastIsShown
  <2>4. CASE ~Scrolling!EndsPending(rows) /\ ~Scrolling!Asked
    BY <1>1, <2>1, <2>4 DEF Scrolling!RevealRow, LastIsShown, ScrollingInv, Counters
  <2>5. CASE ~Scrolling!EndsPending(rows) /\ Scrolling!Asked /\ last = Scrolling!Request
    BY <1>1, <2>1, <2>5 DEF Scrolling!RevealRow, LastIsShown, ScrollingInv, Counters
  <2>6. CASE ~Scrolling!EndsPending(rows) /\ Scrolling!Asked /\ last # Scrolling!Request /\ target \in rows
    BY <1>1, <1>3, <2>1, <2>2, <2>6 DEF Scrolling!RevealRow, LastIsShown
  <2>7. CASE ~Scrolling!EndsPending(rows) /\ Scrolling!Asked /\ last # Scrolling!Request /\ target \notin rows
    BY <1>1, <1>3, <2>1, <2>7 DEF Scrolling!RevealRow, LastIsShown
  <2>8. QED
    BY <2>3, <2>4, <2>5, <2>6, <2>7
<1>5. QED
  BY <1>1, <1>2, <1>4 DEF ScrollingInv, Counters

LEMMA ScrollingKept ==
  ASSUME Scrolling!VirtualRowsAssumption, ScrollingInv, [Scrolling!Next]_(Scrolling!vars)
  PROVE  ScrollingInv'
<1>1. CASE Scrolling!Commit
  BY <1>1, CommitKeeps
<1>2. CASE Scrolling!StartFetch
  BY <1>2 DEF Scrolling!StartFetch, ScrollingInv, Counters, LastIsShown, CallIsOfCount,
              Scrolling!reveal, Scrolling!Shown, Scrolling!Tops, Scrolling!MaxTop, Scrolling!Greater
<1>3. CASE Scrolling!Hold
  BY <1>3 DEF Scrolling!Hold, ScrollingInv, Counters, LastIsShown, CallIsOfCount,
              Scrolling!reveal, Scrolling!fetch, Scrolling!Shown, Scrolling!Tops,
              Scrolling!MaxTop, Scrolling!Greater
<1>4. CASE \E failed \in BOOLEAN : Scrolling!Answer(failed)
  <2>1. /\ count' \in 1..AllRows /\ count <= count'
        /\ calls' = 0 /\ UNCHANGED <<top, last, pending, left, acts>>
    BY <1>4 DEF Scrolling!Answer, Scrolling!Lesser, Scrolling!reveal, ScrollingInv, Counters,
                Scrolling!VirtualRowsAssumption
  <2>2. top' \in Scrolling!Tops(count')
    BY <2>1, TopsGrow DEF ScrollingInv, Counters, Scrolling!VirtualRowsAssumption
  <2>3. LastIsShown'
    BY <2>1 DEF ScrollingInv, Counters, LastIsShown, Scrolling!Shown,
                Scrolling!VirtualRowsAssumption
  <2>4. QED
    BY <2>1, <2>2, <2>3 DEF ScrollingInv, Counters, CallIsOfCount
<1>5. CASE \E t \in 0..AllRows : Scrolling!Scroll(t)
  BY <1>5 DEF Scrolling!Scroll, ScrollingInv, Counters, LastIsShown, CallIsOfCount,
              Scrolling!reveal, Scrolling!fetch, Scrolling!Tops, Scrolling!MaxTop, Scrolling!Greater
<1>6. CASE \E row \in -1..(AllRows - 1), how \in Aligns : Scrolling!Ask(row, how)
  BY <1>6 DEF Scrolling!Ask, ScrollingInv, Counters, LastIsShown, CallIsOfCount, Scrolling!fetch,
              Scrolling!Shown, Scrolling!Tops, Scrolling!MaxTop, Scrolling!Greater
<1>7. CASE UNCHANGED Scrolling!vars
  BY <1>7 DEF Scrolling!vars, ScrollingInv, Counters, LastIsShown, CallIsOfCount, Scrolling!Shown,
              Scrolling!Tops, Scrolling!MaxTop, Scrolling!Greater
<1>8. \/ Scrolling!Commit \/ Scrolling!StartFetch \/ Scrolling!Hold \/ UNCHANGED Scrolling!vars
      \/ \E failed \in BOOLEAN : Scrolling!Answer(failed)
      \/ \E t \in 0..AllRows : Scrolling!Scroll(t)
      \/ \E row \in -1..(AllRows - 1), how \in Aligns : Scrolling!Ask(row, how)
  BY DEF Scrolling!Next
<1>9. QED
  BY <1>1, <1>2, <1>3, <1>4, <1>5, <1>6, <1>7, <1>8

\* What is mounted, or waits to be revealed, is a row that has been loaded.
RowsAreLoaded ==
  /\ mounted \cup window \subseteq 0..(count - 1)
  /\ pending # Scrolling!None => pending \in 0..(count - 1)

LEMMA WindowIsLoaded ==
  ASSUME Scrolling!VirtualRowsAssumption, NEW t \in Nat, NEW rows \in Nat
  PROVE  Scrolling!Window(t, rows) \subseteq 0..(rows - 1)
BY DEF Scrolling!VirtualRowsAssumption, Scrolling!Window, Scrolling!Greater, Scrolling!Lesser

\* The number of loaded rows only grows, and each window is cut to it.
LEMMA RowsStayLoaded ==
  ASSUME Scrolling!VirtualRowsAssumption, Counters, RowsAreLoaded, [Scrolling!Next]_(Scrolling!vars)
  PROVE  RowsAreLoaded'
<1> USE DEF Scrolling!rendered, Scrolling!reveal
<1>1. CASE Scrolling!Commit
  <2>1. top \in Nat /\ count \in Nat
    BY DEF Counters, Scrolling!Tops, Scrolling!MaxTop, Scrolling!Greater, Scrolling!VirtualRowsAssumption
  <2>2. Scrolling!Window(top, count) \subseteq 0..(count - 1)
    BY <2>1, WindowIsLoaded
  <2>3. /\ window' = Scrolling!Window(top, count) /\ count' = count
        /\ mounted' = mounted \/ mounted' = Scrolling!Window(top, count)
        /\ \E rows : IF Scrolling!EndsPending(rows) THEN Scrolling!EndPending ELSE Scrolling!RevealRow(rows)
    BY <1>1 DEF Scrolling!Commit
  <2>4. pending' = Scrolling!None \/ pending' = pending \/ pending' \in 0..(count - 1)
    BY <2>3 DEF Scrolling!EndPending, Scrolling!RevealRow, Scrolling!Asked
  <2>5. QED
    BY <2>2, <2>3, <2>4 DEF RowsAreLoaded
<1>2. CASE \E failed \in BOOLEAN : Scrolling!Answer(failed)
  <2>1. /\ count' \in Nat /\ count \in Nat /\ count <= count' /\ UNCHANGED <<mounted, window, pending>>
    BY <1>2 DEF Scrolling!Answer, Scrolling!Lesser, Counters, Scrolling!VirtualRowsAssumption
  <2>4. \A m, n \in Nat : m <= n => 0..(m - 1) \subseteq 0..(n - 1)
    OBVIOUS
  <2>2. 0..(count - 1) \subseteq 0..(count' - 1)
    BY <2>1, <2>4
  <2>3. QED
    BY <2>1, <2>2 DEF RowsAreLoaded
<1>3. CASE UNCHANGED <<mounted, window, pending, count>>
  BY <1>3 DEF RowsAreLoaded
<1>4. CASE \/ Scrolling!StartFetch \/ Scrolling!Hold \/ UNCHANGED Scrolling!vars
           \/ \E t \in 0..AllRows : Scrolling!Scroll(t)
           \/ \E row \in -1..(AllRows - 1), how \in Aligns : Scrolling!Ask(row, how)
  BY <1>3, <1>4 DEF Scrolling!StartFetch, Scrolling!Hold, Scrolling!vars, Scrolling!Scroll, Scrolling!Ask
<1>5. QED
  BY <1>1, <1>2, <1>4 DEF Scrolling!Next

LEMMA InitLoaded == ASSUME Scrolling!VirtualRowsAssumption, Scrolling!Init PROVE RowsAreLoaded
BY DEF Scrolling!Init, RowsAreLoaded, Scrolling!VirtualRowsAssumption

LEMMA ScrollingTyped == ASSUME Counters, RowsAreLoaded PROVE Scrolling!TypeOK
BY DEF Counters, RowsAreLoaded, Scrolling!TypeOK

------------------------------------------------------------------------------
(* The widths of the columns *)

SizesThere == sizing = [c \in WidthsColumns |-> sizing[c]]

WidthsInv ==
  /\ SizesThere /\ visible \subseteq WidthsColumns
  /\ applied = [column |-> applied.column, base |-> applied.base, grown |-> applied.grown]
  /\ applied.column \in WidthsAuto \cup {Widths!None}
  /\ session = [column |-> session.column, width |-> session.width, ended |-> session.ended]

LEMMA CandidateIs ==
  ASSUME Widths!ColumnWidthsAssumption
  PROVE  Widths!Candidate \in WidthsAuto \cup {Widths!None}
<1> DEFINE S == WidthsAuto \cap visible
<1>1. CASE S = {}
  BY <1>1 DEF Widths!Candidate
<1>2. CASE S # {}
  <2>7. WidthsColumns \subseteq Nat \ {0} /\ WidthsAuto \subseteq WidthsColumns
    BY DEF Widths!ColumnWidthsAssumption
  <2>8. \A c \in WidthsColumns : c \in Nat
    BY <2>7
  <2>1. S \subseteq WidthsColumns
    BY <2>7
  <2>6. S \subseteq Int
    <3>1. \A c \in S : c \in Nat
      BY <2>1, <2>8
    <3>2. \A c \in S : c \in Int
      BY <3>1
    <3>3. QED
      BY <3>2
  <2>0. IsFiniteSet(WidthsColumns)
    BY DEF Widths!ColumnWidthsAssumption, Widths!IsFiniteSet, IsFiniteSet
  <2>5. IsFiniteSet(S)
    BY <2>0, <2>1, FS_Subset
  <2>2. \E n \in S : \A m \in S : n <= m
    BY <1>2, <2>6, <2>5, LeastExists
  <2>3. Widths!Candidate = CHOOSE n \in S : \A m \in S : n <= m
    BY <1>2 DEF Widths!Candidate, Widths!Min
  <2>4. QED
    BY <2>2, <2>3
<1>3. QED
  BY <1>1, <1>2

\* What the controller may write: columns that may grow, of its own width or of none.
Own(c) == c \in WidthsAuto /\ sizing[c] \in {Widths!Unset, applied.grown}
OwnWritten ==
  /\ SizesThere' /\ \A c \in WidthsColumns : sizing'[c] # sizing[c] => Own(c)
  /\ applied' = [column |-> applied'.column, base |-> applied'.base, grown |-> applied'.grown]
  /\ applied'.column \in WidthsAuto \cup {Widths!None}

LEMMA ReflowIsOwn ==
  ASSUME Widths!ColumnWidthsAssumption, WidthsInv, NEW a, a \in {applied, Widths!NoGrowth}, NEW free,
         Widths!Reflow(a, free)
  PROVE  OwnWritten
<1>1. /\ a = [column |-> a.column, base |-> a.base, grown |-> a.grown]
      /\ a.column \in WidthsAuto \cup {Widths!None} /\ (a.column # Widths!None => a = applied)
  BY DEF WidthsInv, Widths!NoGrowth
<1>2. CASE applied' = a /\ UNCHANGED sizing
  BY <1>1, <1>2 DEF OwnWritten, WidthsInv, SizesThere
<1>3. CASE ~(applied' = a /\ UNCHANGED sizing)
  <2> DEFINE wide == Widths!Target(a, free)
  <2>1. /\ a.column # Widths!None /\ sizing[a.column] \in {Widths!Unset, a.grown}
        /\ applied' = [a EXCEPT !.grown = wide] /\ sizing' = [sizing EXCEPT ![a.column] = wide]
    BY <1>3 DEF Widths!Reflow
  <2> HIDE DEF wide
  <2>2. a.column \in WidthsAuto /\ a = applied
    BY <1>1, <2>1
  <2>3. SizesThere' /\ \A c \in WidthsColumns : c # a.column => sizing'[c] = sizing[c]
    BY <2>1 DEF SizesThere, WidthsInv
  <2>4. /\ applied' = [column |-> applied'.column, base |-> applied'.base, grown |-> applied'.grown]
        /\ applied'.column = a.column
    BY <1>1, <2>1
  <2>5. QED
    BY <2>1, <2>2, <2>3, <2>4 DEF OwnWritten, Own
<1>4. QED
  BY <1>2, <1>3

LEMMA FillIsOwn ==
  ASSUME Widths!ColumnWidthsAssumption, WidthsInv, NEW a, a \in {applied, Widths!NoGrowth}, NEW free,
         Widths!Fill(a, free)
  PROVE  OwnWritten
<1>1. /\ a = [column |-> a.column, base |-> a.base, grown |-> a.grown]
      /\ a.column \in WidthsAuto \cup {Widths!None} /\ (a.column # Widths!None => a = applied)
  BY DEF WidthsInv, Widths!NoGrowth
<1>2. CASE applied' = a /\ UNCHANGED sizing
  BY <1>1, <1>2 DEF OwnWritten, WidthsInv, SizesThere
<1>3. CASE ~(applied' = a /\ UNCHANGED sizing)
  <2> DEFINE c == Widths!Candidate
             base == Widths!WidthIn(sizing, c)
             given == base + free
             reverted == IF a.column # Widths!None /\ sizing[a.column] = a.grown
                         THEN [sizing EXCEPT ![a.column] = a.base] ELSE sizing
  <2>1. /\ c # Widths!None /\ (sizing[c] = Widths!Unset \/ (a.column # Widths!None /\ sizing[c] = a.grown))
        /\ applied' = [column |-> c, base |-> base, grown |-> given]
        /\ sizing' = [reverted EXCEPT ![c] = given]
    BY <1>3 DEF Widths!Fill
  <2>2. c \in WidthsAuto
    BY <2>1, CandidateIs
  <2>3. Own(c)
    BY <1>1, <2>1, <2>2 DEF Own
  <2> HIDE DEF given, base, c
  <2>4. /\ reverted = [x \in WidthsColumns |-> reverted[x]]
        /\ \A x \in WidthsColumns : reverted[x] # sizing[x] => x = a.column /\ Own(x)
    <3>1. CASE a.column # Widths!None /\ sizing[a.column] = a.grown
      <4>1. reverted = [sizing EXCEPT ![a.column] = a.base]
        BY <3>1
      <4>2. Own(a.column)
        BY <1>1, <3>1 DEF Own
      <4> HIDE DEF reverted
      <4>3. QED
        BY <4>1, <4>2 DEF WidthsInv, SizesThere
    <3>2. CASE ~(a.column # Widths!None /\ sizing[a.column] = a.grown)
      <4>1. reverted = sizing
        BY <3>2
      <4> HIDE DEF reverted
      <4>2. QED
        BY <4>1 DEF WidthsInv, SizesThere
    <3>3. QED
      BY <3>1, <3>2
  <2> HIDE DEF reverted
  <2>5. SizesThere' /\ \A x \in WidthsColumns : x # c => sizing'[x] = reverted[x]
    BY <2>1, <2>4 DEF SizesThere
  <2>6. \A x \in WidthsColumns : sizing'[x] # sizing[x] => Own(x)
    BY <2>3, <2>4, <2>5
  <2>7. /\ applied' = [column |-> applied'.column, base |-> applied'.base, grown |-> applied'.grown]
        /\ applied'.column = c
    BY <2>1
  <2>8. QED
    BY <2>2, <2>5, <2>6, <2>7 DEF OwnWritten
<1>4. QED
  BY <1>2, <1>3

LEMMA ApplyIsOwn ==
  ASSUME Widths!ColumnWidthsAssumption, WidthsInv, NEW free, Widths!Apply(free)
  PROVE  OwnWritten
<1> DEFINE a == IF applied.column # Widths!None /\ sizing[applied.column] = Widths!Unset
                THEN Widths!NoGrowth ELSE applied
<1>1. a \in {applied, Widths!NoGrowth}
  OBVIOUS
<1>2. \/ Widths!Fill(a, free)
      \/ Widths!Reflow(a, free)
      \/ applied' = a /\ UNCHANGED sizing
  BY DEF Widths!Apply
<1> HIDE DEF a
<1>3. CASE applied' = a /\ UNCHANGED sizing
  BY <1>1, <1>3 DEF OwnWritten, WidthsInv, SizesThere, Widths!NoGrowth
<1>4. QED
  BY <1>1, <1>2, <1>3, FillIsOwn, ReflowIsOwn

\* What a step may do to the widths.
LEMMA WidthsStep ==
  ASSUME Widths!ColumnWidthsAssumption, WidthsInv, [Widths!Next]_(Widths!vars)
  PROVE  WidthsInv' /\ Widths!OneWriter
<1>1. CASE /\ OwnWritten /\ visible' = visible /\ session' = session
  BY <1>1 DEF OwnWritten, Own, WidthsInv, Widths!OneWriter
<1>2. CASE Widths!Render
  <2>1. OwnWritten /\ visible' = visible /\ session' = session
    BY <1>2, ApplyIsOwn DEF Widths!Render
  <2>2. QED
    BY <1>1, <2>1
<1>3. CASE \E width \in Containers : Widths!ResizeContainer(width)
  <2>1. OwnWritten /\ visible' = visible /\ session' = session
    BY <1>3, ApplyIsOwn DEF Widths!ResizeContainer
  <2>2. QED
    BY <1>1, <2>1
<1>4. CASE Widths!Settle
  <2>1. OwnWritten /\ visible' = visible /\ session' = session
    BY <1>4, ReflowIsOwn DEF Widths!Settle
  <2>2. QED
    BY <1>1, <2>1
<1>5. CASE Widths!EndResize /\ visible' \subseteq visible /\ applied' = applied
  <2>1. CASE session.ended
    BY <1>5, <2>1 DEF Widths!EndResize, WidthsInv, SizesThere, Widths!OneWriter
  <2>2. CASE ~session.ended
    <3>1. sizing' = [sizing EXCEPT ![session.column] = session.width]
          /\ session' = [session EXCEPT !.ended = TRUE]
      BY <1>5, <2>2 DEF Widths!EndResize
    <3>2. SizesThere' /\ \A c \in WidthsColumns : c # session.column => sizing'[c] = sizing[c]
      BY <3>1 DEF WidthsInv, SizesThere
    <3>3. /\ session' = [column |-> session'.column, width |-> session'.width, ended |-> session'.ended]
          /\ session'.ended
      BY <3>1 DEF WidthsInv
    <3>4. QED
      BY <1>5, <2>2, <3>2, <3>3 DEF WidthsInv, Widths!OneWriter
  <2>3. QED
    BY <2>1, <2>2
<1>6. CASE Widths!Release \/ \E c \in WidthsColumns : Widths!Hide(c) /\ session.column = c
  BY <1>5, <1>6 DEF Widths!Release, Widths!Hide, Widths!Act
<1>7. CASE \E c \in WidthsColumns : Widths!ResetSize(c)
  <2>1. PICK c \in WidthsColumns : /\ sizing' = [sizing EXCEPT ![c] = Widths!Unset]
                                   /\ UNCHANGED <<visible, session, applied>>
    BY <1>7 DEF Widths!ResetSize, Widths!Act
  <2>2. SizesThere' /\ \A x \in WidthsColumns : sizing'[x] # sizing[x] => sizing'[x] = Widths!Unset
    BY <2>1 DEF WidthsInv, SizesThere
  <2>3. QED
    BY <2>1, <2>2 DEF WidthsInv, Widths!OneWriter
<1>8. CASE /\ UNCHANGED <<sizing, applied>> /\ visible' \subseteq WidthsColumns
           /\ session' = [column |-> session'.column, width |-> session'.width, ended |-> session'.ended]
  BY <1>8 DEF WidthsInv, SizesThere, Widths!OneWriter
<1>9. CASE \E c \in WidthsColumns :
             Widths!StartResize(c) \/ Widths!Show(c) \/ (Widths!Hide(c) /\ session.column # c)
  <2>1. UNCHANGED <<sizing, applied>> /\ visible' \subseteq WidthsColumns
    BY <1>9 DEF Widths!StartResize, Widths!Show, Widths!Hide, Widths!Act, WidthsInv
  <2>2. session' = [column |-> session'.column, width |-> session'.width, ended |-> session'.ended]
    BY <1>9 DEF Widths!StartResize, Widths!Show, Widths!Hide, WidthsInv
  <2>3. QED
    BY <1>8, <2>1, <2>2
<1>10. CASE \E width \in Drags : Widths!MoveResize(width)
  <2>1. PICK width \in Drags : session' = [session EXCEPT !.width = width]
    BY <1>10 DEF Widths!MoveResize
  <2>2. session' = [column |-> session'.column, width |-> session'.width, ended |-> session'.ended]
    BY <2>1 DEF WidthsInv
  <2>3. UNCHANGED <<sizing, applied>> /\ visible' \subseteq WidthsColumns
    BY <1>10 DEF Widths!MoveResize, Widths!state, WidthsInv
  <2>4. QED
    BY <1>8, <2>2, <2>3
<1>11. CASE Widths!Elapse \/ UNCHANGED Widths!vars
  <2>1. UNCHANGED <<sizing, applied, visible, session>>
    BY <1>11 DEF Widths!Elapse, Widths!vars, Widths!state
  <2>2. QED
    BY <1>8, <2>1 DEF WidthsInv
<1>12. \/ Widths!Render \/ Widths!Settle \/ Widths!Elapse \/ Widths!Release \/ UNCHANGED Widths!vars
       \/ \E width \in Containers : Widths!ResizeContainer(width)
       \/ \E width \in Drags : Widths!MoveResize(width)
       \/ \E c \in WidthsColumns :
            Widths!StartResize(c) \/ Widths!ResetSize(c) \/ Widths!Hide(c) \/ Widths!Show(c)
  BY DEF Widths!Next
<1>13. QED
  BY <1>2, <1>3, <1>4, <1>6, <1>7, <1>9, <1>10, <1>11, <1>12

LEMMA InitWidths == ASSUME Widths!Init PROVE WidthsInv
BY DEF Widths!Init, WidthsInv, SizesThere, Widths!NoGrowth, Widths!NoSession

\* Sizes of columns, and what they come to together.
Sizes == [WidthsColumns -> Nat]
Any(s) == CHOOSE x \in s : TRUE
TotalOf(sizes, S) ==
  LET iter[s \in SUBSET S] ==
        IF s = {} THEN 0 ELSE iter[s \ {Any(s)}] + Widths!WidthIn(sizes, Any(s))
  IN iter

\* The sum of widths is a fold over a set: a function of the subsets, each of which
\* takes away a chosen column.
LEMMA TotalWhole == \A sizes, S : Widths!Total(sizes, S) = TotalOf(sizes, S)[S]
BY DEF Widths!Total, Widths!FoldSet, Widths!MapThenFoldSet, TotalOf, Any

\* That the function has a number for every subset follows by the number of columns.
LEMMA TotalIs ==
  ASSUME Widths!ColumnWidthsAssumption, NEW sizes \in Sizes, NEW S, S \subseteq WidthsColumns
  PROVE  Widths!Total(sizes, S) \in Int
<1> DEFINE N == Cardinality(S)
           W(s) == Widths!WidthIn(sizes, Any(s))
           G == [SUBSET S -> Int]
           zero == [s \in SUBSET S |-> 0]
           step == [p \in (1..N) \X G |->
                      [s \in SUBSET S |-> IF s = {} THEN 0 ELSE p[2][s \ {Any(s)}] + W(s)]]
           D(f) == [s \in SUBSET S |-> IF s = {} THEN 0 ELSE f[s \ {Any(s)}] + Widths!WidthIn(sizes, Any(s))]
<1>1. IsFiniteSet(S) /\ N \in Nat
  <2>1. IsFiniteSet(WidthsColumns)
    BY DEF Widths!ColumnWidthsAssumption, Widths!IsFiniteSet, IsFiniteSet
  <2>2. QED
    BY <2>1, FS_Subset, FS_CardinalityType
<1>2. \A s \in SUBSET S : s # {} => Any(s) \in s /\ s \ {Any(s)} \in SUBSET S
  BY DEF Any
<1>3. \A s \in SUBSET S : s # {} => W(s) \in Int
  <2>1. \A c \in WidthsColumns : Widths!WidthIn(sizes, c) \in Nat
    BY DEF Widths!WidthIn, Sizes, Widths!ColumnWidthsAssumption
  <2>2. QED
    BY <1>2, <2>1
<1>4. \A s \in SUBSET S : /\ Cardinality(s) \in 0..N /\ (Cardinality(s) = 0 <=> s = {})
                          /\ s # {} => Cardinality(s \ {Any(s)}) = Cardinality(s) - 1
  <2> SUFFICES ASSUME NEW s \in SUBSET S
               PROVE  /\ Cardinality(s) \in 0..N /\ (Cardinality(s) = 0 <=> s = {})
                      /\ s # {} => Cardinality(s \ {Any(s)}) = Cardinality(s) - 1
    OBVIOUS
  <2>1. IsFiniteSet(s) /\ Cardinality(s) <= N
    BY <1>1, FS_Subset
  <2>2. Cardinality(s) \in Nat /\ (Cardinality(s) = 0 <=> s = {})
    BY <2>1, FS_CardinalityType, FS_EmptySet
  <2>3. s # {} => Cardinality(s \ {Any(s)}) = Cardinality(s) - 1
    BY <1>2, <2>1, FS_RemoveElement
  <2>4. QED
    BY <1>1, <2>1, <2>2, <2>3
<1> HIDE DEF N
<1>5. zero \in G
  OBVIOUS
<1>6. \A n \in 1..N, g \in G :
        /\ step[<<n, g>>] \in G
        /\ \A s \in SUBSET S : s # {} => step[<<n, g>>][s] = g[s \ {Any(s)}] + W(s)
  <2> TAKE n \in 1..N, g \in G
  <2> HIDE DEF W
  <2> DEFINE next == [s \in SUBSET S |-> IF s = {} THEN 0 ELSE g[s \ {Any(s)}] + W(s)]
  <2>1. step[<<n, g>>] = next
    OBVIOUS
  <2>2. \A s \in SUBSET S : s # {} => g[s \ {Any(s)}] \in Int
    BY <1>2
  <2>3. next \in G
    BY <1>3, <2>2
  <2>4. QED
    BY <2>1, <2>3
<1> HIDE DEF W, G, zero, step
<1>7. PICK h : Cells!Recurs(h, N, G, zero, step)
  <2>1. Cells!Steps(N, G, zero, step)
    BY <1>1, <1>5, <1>6 DEF Cells!Steps
  <2>2. QED
    BY <2>1, Cells!RecursionExists
<1>8. h \in [0..N -> G] /\ h[0] = zero /\ \A n \in 1..N : h[n] = step[<<n, h[n - 1]>>]
  BY <1>7 DEF Cells!Recurs
<1> DEFINE g == [s \in SUBSET S |-> h[Cardinality(s)][s]]
<1>9. g[{}] = 0
  <2>1. Cardinality({}) = 0
    BY FS_EmptySet
  <2>2. QED
    BY <1>8, <2>1 DEF zero
<1>10. \A s \in SUBSET S : s # {} => g[s] = g[s \ {Any(s)}] + W(s)
  <2> TAKE s \in SUBSET S
  <2> HAVE s # {}
  <2> DEFINE n == Cardinality(s)
             r == s \ {Any(s)}
  <2>1. n \in 1..N /\ n - 1 \in 0..N /\ Cardinality(r) = n - 1 /\ r \in SUBSET S
    BY <1>1, <1>2, <1>4
  <2>2. g[s] = h[n][s] /\ g[r] = h[n - 1][r]
    BY <2>1
  <2> HIDE DEF n, g
  <2>3. h[n - 1] \in G /\ h[n] = step[<<n, h[n - 1]>>]
    BY <1>8, <2>1
  <2>4. step[<<n, h[n - 1]>>][s] = h[n - 1][r] + W(s)
    BY <1>6, <2>1, <2>3
  <2>5. QED
    BY <2>2, <2>3, <2>4
<1>11. g = D(g)
  <2>1. D(g) = [s \in SUBSET S |-> IF s = {} THEN 0 ELSE g[s \ {Any(s)}] + W(s)]
    BY DEF W
  <2>2. \A s \in SUBSET S : g[s] = IF s = {} THEN 0 ELSE g[s \ {Any(s)}] + W(s)
    BY <1>9, <1>10
  <2>3. g = [s \in SUBSET S |-> g[s]]
    OBVIOUS
  <2> HIDE DEF g, D
  <2>4. QED
    BY <2>1, <2>2, <2>3, Zenon
<1>12. TotalOf(sizes, S) = CHOOSE f : f = D(f)
  BY DEF TotalOf
<1> DEFINE f == TotalOf(sizes, S)
<1>13. f = D(f)
  <2> HIDE DEF D, g
  <2>1. QED
    BY <1>11, <1>12
<1>14. \A s \in SUBSET S : f[s] = IF s = {} THEN 0 ELSE f[s \ {Any(s)}] + W(s)
  <2> HIDE DEF f
  <2>1. QED
    BY <1>13 DEF W
<1> HIDE DEF f, D, g
<1> DEFINE T == {n \in 0..N : \A s \in SUBSET S : Cardinality(s) = n => f[s] \in Int}
<1>15. 0 \in T
  <2>1. \A s \in SUBSET S : Cardinality(s) = 0 => f[s] \in Int
    <3> TAKE s \in SUBSET S
    <3> HAVE Cardinality(s) = 0
    <3>1. s = {}
      BY <1>4
    <3>2. f[s] = 0
      BY <1>14, <3>1
    <3>3. QED
      BY <3>2
  <2>2. QED
    BY <1>1, <2>1
<1>16. ASSUME NEW n \in 1..N, n - 1 \in T PROVE n \in T
  <2>1. \A s \in SUBSET S : Cardinality(s) = n - 1 => f[s] \in Int
    BY <1>16
  <2>2. \A s \in SUBSET S : Cardinality(s) = n => f[s] \in Int
    <3> TAKE s \in SUBSET S
    <3> HAVE Cardinality(s) = n
    <3>1. s # {} /\ Cardinality(s \ {Any(s)}) = n - 1 /\ s \ {Any(s)} \in SUBSET S
      BY <1>1, <1>2, <1>4
    <3>2. f[s \ {Any(s)}] \in Int /\ W(s) \in Int
      BY <1>3, <2>1, <3>1
    <3>3. f[s] = f[s \ {Any(s)}] + W(s)
      BY <1>14, <3>1
    <3>4. QED
      BY <3>2, <3>3
  <2>3. n \in 0..N
    BY <1>1
  <2>4. QED
    BY <2>2, <2>3
<1>17. \A n \in 0..N : n \in T
  <2> HIDE DEF T
  <2>1. QED
    BY <1>1, <1>15, <1>16, Cells!Climb
<1>18. f[S] \in Int
  <2>1. S \in SUBSET S /\ Cardinality(S) \in T
    BY <1>4, <1>17
  <2>2. QED
    BY <2>1
<1>19. QED
  BY <1>18, TotalWhole DEF f

\* Widths are numbers, an open session is of a column that is shown, and what the
\* controller has written is of a column that may grow.
Growth == [column : WidthsAuto \cup {Widths!None}, base : Nat, grown : Nat]
\* The widths, and what each render and timer still holds of them, are numbers, and a
\* drag is of a visible column.
WidthsTyped ==
  /\ sizing \in Sizes /\ visible \subseteq WidthsColumns /\ container \in Containers
  /\ rendered.sizing \in Sizes /\ rendered.visible \subseteq WidthsColumns
  /\ applied \in Growth /\ parked \in Int
  /\ session \in [column : WidthsColumns \cup {Widths!None}, width : Nat, ended : BOOLEAN]
  /\ session.ended \/ session.column \in visible

LEMMA GreaterIs == ASSUME NEW m \in Nat, NEW n \in Int PROVE Widths!Greater(m, n) \in Nat
BY DEF Widths!Greater

LEMMA TargetTyped ==
  ASSUME Widths!ColumnWidthsAssumption, NEW a \in Growth, a.column # Widths!None, NEW free \in Int
  PROVE  Widths!Target(a, free) \in Nat
<1>1. a.base \in Nat /\ a.grown \in Nat /\ a.column \in WidthsColumns
  BY DEF Growth, Widths!ColumnWidthsAssumption
<1>2. MinSize[a.column] \in Nat
  BY <1>1 DEF Widths!ColumnWidthsAssumption
<1> DEFINE least == IF MinSize[a.column] > 0 THEN MinSize[a.column] ELSE a.base
           wide == a.base + free + (a.grown - a.base)
<1>3. least \in Nat /\ wide \in Int
  BY <1>1, <1>2
<1>4. Widths!Target(a, free) = Widths!Greater(least, wide)
  BY DEF Widths!Target
<1> HIDE DEF least, wide
<1>5. QED
  BY <1>3, <1>4, GreaterIs

LEMMA SizeSet ==
  ASSUME NEW sizes \in Sizes, NEW c \in WidthsColumns, NEW n \in Nat
  PROVE  [sizes EXCEPT ![c] = n] \in Sizes
BY DEF Sizes

\* What the controller writes is a width.
LEMMA ReflowTyped ==
  ASSUME Widths!ColumnWidthsAssumption, WidthsTyped, NEW a \in Growth, NEW free \in Int, Widths!Reflow(a, free)
  PROVE  sizing' \in Sizes /\ applied' \in Growth
<1>1. CASE applied' = a /\ UNCHANGED sizing
  BY <1>1 DEF WidthsTyped
<1>2. CASE ~(applied' = a /\ UNCHANGED sizing)
  <2> DEFINE wide == Widths!Target(a, free)
  <2>1. /\ a.column # Widths!None
        /\ applied' = [a EXCEPT !.grown = wide] /\ sizing' = [sizing EXCEPT ![a.column] = wide]
    BY <1>2 DEF Widths!Reflow
  <2>2. wide \in Nat
    BY <2>1, TargetTyped
  <2> HIDE DEF wide
  <2>3. a.column \in WidthsColumns
    BY <2>1 DEF Growth, Widths!ColumnWidthsAssumption
  <2>4. sizing' \in Sizes
    BY <2>1, <2>2, <2>3, SizeSet DEF WidthsTyped
  <2>5. applied' \in Growth
    BY <2>1, <2>2 DEF Growth
  <2>6. QED
    BY <2>4, <2>5
<1>3. QED
  BY <1>1, <1>2

LEMMA FillTyped ==
  ASSUME Widths!ColumnWidthsAssumption, WidthsTyped, NEW a \in Growth, NEW free \in Int, Widths!Fill(a, free)
  PROVE  sizing' \in Sizes /\ applied' \in Growth
<1>1. CASE applied' = a /\ UNCHANGED sizing
  BY <1>1 DEF WidthsTyped
<1>2. CASE ~(applied' = a /\ UNCHANGED sizing)
  <2> DEFINE c == Widths!Candidate
             base == Widths!WidthIn(sizing, c)
             given == base + free
             reverted == IF a.column # Widths!None /\ sizing[a.column] = a.grown
                         THEN [sizing EXCEPT ![a.column] = a.base] ELSE sizing
  <2>1. /\ c # Widths!None /\ ~(free <= 0)
        /\ applied' = [column |-> c, base |-> base, grown |-> given]
        /\ sizing' = [reverted EXCEPT ![c] = given]
    BY <1>2 DEF Widths!Fill
  <2>2. c \in WidthsAuto /\ c \in WidthsColumns
    BY <2>1, CandidateIs DEF Widths!ColumnWidthsAssumption
  <2> HIDE DEF c
  <2>3. base \in Nat
    BY <2>2 DEF Widths!WidthIn, WidthsTyped, Sizes, Widths!ColumnWidthsAssumption
  <2> HIDE DEF base
  <2>4. given \in Nat
    BY <2>1, <2>3
  <2> HIDE DEF given
  <2>5. reverted \in Sizes
    <3>1. CASE a.column # Widths!None
      <4>1. a.column \in WidthsColumns /\ a.base \in Nat
        BY <3>1 DEF Growth, Widths!ColumnWidthsAssumption
      <4>2. [sizing EXCEPT ![a.column] = a.base] \in Sizes
        BY <4>1, SizeSet DEF WidthsTyped
      <4>3. QED
        BY <4>2 DEF WidthsTyped
    <3>2. CASE a.column = Widths!None
      BY <3>2 DEF WidthsTyped
    <3>3. QED
      BY <3>1, <3>2
  <2> HIDE DEF reverted
  <2>6. sizing' \in Sizes
    BY <2>1, <2>2, <2>4, <2>5, SizeSet
  <2>7. applied' \in Growth
    BY <2>1, <2>2, <2>3, <2>4 DEF Growth
  <2>8. QED
    BY <2>6, <2>7
<1>3. QED
  BY <1>1, <1>2

LEMMA ApplyTyped ==
  ASSUME Widths!ColumnWidthsAssumption, WidthsTyped, NEW free \in Int, Widths!Apply(free)
  PROVE  sizing' \in Sizes /\ applied' \in Growth /\ parked' \in Int
<1> DEFINE a == IF applied.column # Widths!None /\ sizing[applied.column] = Widths!Unset
                THEN Widths!NoGrowth ELSE applied
<1>1. a \in Growth
  BY DEF WidthsTyped, Growth, Widths!NoGrowth
<1>2. /\ \/ Widths!Fill(a, free)
         \/ Widths!Reflow(a, free)
         \/ applied' = a /\ UNCHANGED sizing
      /\ parked' = parked \/ parked' = free
  BY DEF Widths!Apply, Widths!stream
<1> HIDE DEF a
<1>3. CASE applied' = a /\ UNCHANGED sizing
  BY <1>1, <1>2, <1>3 DEF WidthsTyped
<1>4. CASE Widths!Fill(a, free) \/ Widths!Reflow(a, free)
  <2>1. sizing' \in Sizes /\ applied' \in Growth
    BY <1>1, <1>4, FillTyped, ReflowTyped
  <2>2. QED
    BY <1>2, <2>1 DEF WidthsTyped
<1>5. QED
  BY <1>2, <1>3, <1>4

\* Free space may be negative: the container may be narrower than its columns.
LEMMA FreeIs ==
  ASSUME Widths!ColumnWidthsAssumption, NEW width \in Containers, NEW shownThen,
         shownThen.sizing \in Sizes, shownThen.visible \subseteq WidthsColumns
  PROVE  Widths!FreeSpace(width, shownThen) \in Int
<1>1. Widths!Total(shownThen.sizing, shownThen.visible) \in Int
  BY TotalIs
<1>2. width \in Int
  BY DEF Widths!ColumnWidthsAssumption
<1>3. QED
  BY <1>1, <1>2 DEF Widths!FreeSpace

Session == [column : WidthsColumns \cup {Widths!None}, width : Nat, ended : BOOLEAN]

LEMMA EndTyped ==
  ASSUME Widths!ColumnWidthsAssumption, WidthsTyped, Widths!EndResize
  PROVE  sizing' \in Sizes /\ session' \in Session /\ session'.ended
<1>0. session \in Session
  BY DEF WidthsTyped, Session
<1>1. CASE session.ended
  BY <1>0, <1>1 DEF Widths!EndResize, WidthsTyped
<1>2. CASE ~session.ended
  <2>1. sizing' = [sizing EXCEPT ![session.column] = session.width]
        /\ session' = [session EXCEPT !.ended = TRUE]
    BY <1>2 DEF Widths!EndResize
  <2>2. session.column \in WidthsColumns /\ session.width \in Nat
    BY <1>0, <1>2 DEF WidthsTyped, Session
  <2>3. sizing' \in Sizes
    BY <2>1, <2>2, SizeSet DEF WidthsTyped
  <2>4. session' \in Session /\ session'.ended
    BY <1>0, <2>1 DEF Session
  <2>5. QED
    BY <2>3, <2>4
<1>3. QED
  BY <1>1, <1>2

\* Every step keeps the widths numbers.
LEMMA WidthsTypedStep ==
  ASSUME Widths!ColumnWidthsAssumption, WidthsTyped, [Widths!Next]_(Widths!vars)
  PROVE  WidthsTyped'
<1>0. session \in Session
  BY DEF WidthsTyped, Session
<1>1. CASE Widths!Render
  <2>1. /\ rendered' = [sizing |-> sizing, visible |-> visible]
        /\ Widths!Apply(Widths!FreeSpace(container, rendered'))
        /\ UNCHANGED <<visible, container, session>>
    BY <1>1 DEF Widths!Render
  <2>2. rendered'.sizing \in Sizes /\ rendered'.visible \subseteq WidthsColumns
    BY <2>1 DEF WidthsTyped
  <2>3. Widths!FreeSpace(container, rendered') \in Int
    BY <2>2, FreeIs DEF WidthsTyped
  <2>4. sizing' \in Sizes /\ applied' \in Growth /\ parked' \in Int
    BY <2>1, <2>3, ApplyTyped
  <2>5. QED
    BY <2>1, <2>2, <2>4 DEF WidthsTyped
<1>2. CASE \E width \in Containers : Widths!ResizeContainer(width)
  <2>1. PICK width \in Containers : /\ container' = width
                                    /\ Widths!Apply(Widths!FreeSpace(width, rendered))
                                    /\ UNCHANGED <<visible, rendered, session>>
    BY <1>2 DEF Widths!ResizeContainer
  <2>2. Widths!FreeSpace(width, rendered) \in Int
    BY FreeIs DEF WidthsTyped
  <2>3. sizing' \in Sizes /\ applied' \in Growth /\ parked' \in Int
    BY <2>1, <2>2, ApplyTyped
  <2>4. QED
    BY <2>1, <2>3 DEF WidthsTyped
<1>3. CASE Widths!Settle
  <2>1. Widths!Reflow(applied, parked) /\ UNCHANGED <<visible, container, rendered, parked, session>>
    BY <1>3 DEF Widths!Settle
  <2>2. sizing' \in Sizes /\ applied' \in Growth
    BY <2>1, ReflowTyped DEF WidthsTyped
  <2>3. QED
    BY <2>1, <2>2 DEF WidthsTyped
<1>4. CASE Widths!Elapse \/ UNCHANGED Widths!vars
  BY <1>4 DEF Widths!Elapse, Widths!vars, Widths!state, WidthsTyped
<1>5. CASE Widths!Release
  <2>1. Widths!EndResize /\ UNCHANGED <<visible, container, rendered, applied, parked>>
    BY <1>5 DEF Widths!Release, Widths!stream
  <2>2. sizing' \in Sizes /\ session' \in Session /\ session'.ended
    BY <2>1, EndTyped
  <2>3. QED
    BY <2>1, <2>2 DEF WidthsTyped, Session
<1>6. CASE \E width \in Drags : Widths!MoveResize(width)
  <2>1. PICK width \in Drags : Widths!MoveResize(width)
    BY <1>6
  <2>2. session' = [session EXCEPT !.width = width] /\ width \in Nat
    BY <2>1 DEF Widths!MoveResize, Widths!ColumnWidthsAssumption
  <2>3. session' \in Session /\ session'.column = session.column /\ session'.ended = session.ended
    BY <1>0, <2>2 DEF Session
  <2>4. QED
    BY <2>1, <2>3 DEF WidthsTyped, Session, Widths!MoveResize, Widths!state, Widths!stream
<1>7. CASE \E c \in WidthsColumns : Widths!ResetSize(c)
  <2>1. PICK c \in WidthsColumns : Widths!ResetSize(c)
    BY <1>7
  <2>2. sizing' \in Sizes
    BY <2>1, SizeSet DEF WidthsTyped, Widths!ResetSize, Widths!Unset
  <2>3. QED
    BY <2>1, <2>2 DEF WidthsTyped, Widths!ResetSize, Widths!Act, Widths!stream
<1>8. CASE \E c \in WidthsColumns : Widths!StartResize(c)
  <2>1. PICK c \in WidthsColumns : Widths!StartResize(c)
    BY <1>8
  <2>2. /\ session' = [column |-> c, width |-> Widths!WidthIn(sizing, c), ended |-> FALSE] /\ c \in visible
        /\ UNCHANGED <<sizing, visible, container, rendered, applied, parked>>
    BY <2>1 DEF Widths!StartResize, Widths!Act, Widths!stream
  <2>3. Widths!WidthIn(sizing, c) \in Nat
    BY DEF Widths!WidthIn, WidthsTyped, Sizes, Widths!ColumnWidthsAssumption
  <2>4. session' \in Session /\ session'.column = c
    BY <2>2, <2>3 DEF Session
  <2>5. QED
    BY <2>2, <2>4 DEF WidthsTyped, Session
<1>9. CASE \E c \in WidthsColumns : Widths!Hide(c)
  <2>1. PICK c \in WidthsColumns : Widths!Hide(c)
    BY <1>9
  <2>2. visible' = visible \ {c} /\ UNCHANGED <<container, rendered, applied, parked>>
    BY <2>1 DEF Widths!Hide, Widths!Act, Widths!stream
  <2>3. CASE session.column = c
    <3>1. sizing' \in Sizes /\ session' \in Session /\ session'.ended
      BY <2>1, <2>3, EndTyped DEF Widths!Hide
    <3>2. QED
      BY <2>2, <3>1 DEF WidthsTyped, Session
  <2>4. CASE session.column # c
    BY <2>1, <2>2, <2>4 DEF WidthsTyped, Widths!Hide
  <2>5. QED
    BY <2>3, <2>4
<1>10. CASE \E c \in WidthsColumns : Widths!Show(c)
  BY <1>10 DEF WidthsTyped, Widths!Show, Widths!Act, Widths!stream
<1>11. QED
  BY <1>1, <1>2, <1>3, <1>4, <1>5, <1>6, <1>7, <1>8, <1>9, <1>10 DEF Widths!Next

LEMMA WidthsTypedInit == ASSUME Widths!ColumnWidthsAssumption, Widths!Init PROVE WidthsTyped
<1>1. sizing \in Sizes
  BY DEF Widths!Init, Sizes, Widths!Unset
<1>2. applied \in Growth
  BY DEF Widths!Init, Growth, Widths!NoGrowth
<1>3. session \in [column : WidthsColumns \cup {Widths!None}, width : Nat, ended : BOOLEAN] /\ session.ended
  BY DEF Widths!Init, Widths!NoSession
<1>4. QED
  BY <1>1, <1>2, <1>3 DEF Widths!Init, WidthsTyped

LEMMA WidthsTypedIs == ASSUME WidthsTyped PROVE Widths!TypeOK
<1>1. \A c \in WidthsColumns : sizing[c] >= 0
  BY DEF WidthsTyped, Sizes
<1>2. applied.column \in WidthsAuto \cup {Widths!None}
  BY DEF WidthsTyped, Growth
<1>3. QED
  BY <1>1, <1>2 DEF WidthsTyped, Widths!TypeOK

------------------------------------------------------------------------------
(* The cells *)

CellsRendered == Cells!Rendered
IsData(contents) == contents = [cell \in Cells!Cells |-> contents[cell]]

\* A drag fills rows of the page it was started on, which is still the one that is shown.
DragIsHere ==
  drag.on =>
    /\ drag = [on |-> TRUE, bound |-> drag.bound, rendered |-> drag.rendered, axis |-> drag.axis,
               count |-> drag.count, data |-> drag.data]
    /\ drag.rendered = CellsRendered

IsChange(c) == c = [cell |-> c.cell, previous |-> c.previous, value |-> c.value]

\* UndoRestores is not inductive: the cells hold what the last batch has left, and each of
\* its changes remembers what its cell contents before, unless the rows of a fill had gone stale.
BatchIsApplied ==
  last.source # "none" =>
    /\ IsData(last.before) /\ data = Cells!Applied(last.changes, last.before)
    /\ \A c \in last.changes : IsChange(c) /\ (~last.stale => c.previous = last.before[c.cell])

CellsInv ==
  /\ IsData(data) /\ page \in DOMAIN Pages /\ DragIsHere /\ BatchIsApplied
  /\ Cells!OnlyShownCellsChange

\* A change turned around.
LEMMA TurnedAround ==
  ASSUME NEW c, IsChange(c)
  PROVE  [c EXCEPT !.value = c.previous, !.previous = c.value]
           = [cell |-> c.cell, previous |-> c.value, value |-> c.previous]
<1> DEFINE Near == [cell : {c.cell}, previous : {c.previous, c.value}, value : {c.previous, c.value}]
           t == [c EXCEPT !.value = c.previous, !.previous = c.value]
<1>1. c \in Near
  BY DEF IsChange
<1>2. t \in Near /\ t.cell = c.cell /\ t.previous = c.value /\ t.value = c.previous
  BY <1>1
<1> HIDE DEF t
<1>3. t = [cell |-> t.cell, previous |-> t.previous, value |-> t.value]
  BY <1>2
<1>4. QED
  BY <1>2, <1>3 DEF t

\* Taking a batch back turns each of its changes around, and doing so twice changes nothing.
LEMMA InvertTwice ==
  ASSUME NEW changes, \A c \in changes : IsChange(c)
  PROVE  Cells!Invert(Cells!Invert(changes)) = changes
<1> DEFINE Turned(c) == [c EXCEPT !.value = c.previous, !.previous = c.value]
<1>1. \A c : IsChange(c) => Turned(c) = [cell |-> c.cell, previous |-> c.value, value |-> c.previous]
  BY TurnedAround
<1>2. \A c \in changes : Turned(Turned(c)) = c
  <2>1. SUFFICES ASSUME NEW c \in changes
                 PROVE  Turned(Turned(c)) = c
    OBVIOUS
  <2> DEFINE d == [cell |-> c.cell, previous |-> c.value, value |-> c.previous]
  <2>2. Turned(c) = d
    BY <1>1
  <2>3. IsChange(d) /\ d.cell = c.cell /\ d.previous = c.value /\ d.value = c.previous
    BY DEF IsChange
  <2> HIDE DEF d, Turned
  <2>4. Turned(d) = c
    BY <1>1, <2>3 DEF IsChange
  <2>5. QED
    BY <2>2, <2>4
<1>3. Cells!Invert(changes) = {Turned(c) : c \in changes}
  BY DEF Cells!Invert
<1>4. Cells!Invert(Cells!Invert(changes)) = {Turned(c) : c \in Cells!Invert(changes)}
  BY DEF Cells!Invert
<1> HIDE DEF Turned
<1>5. QED
  BY <1>2, <1>3, <1>4

\* Where a batch has changed a cell, its inverse puts back what the cell contents before.
LEMMA InverseRestores ==
  ASSUME NEW changes, NEW contents, IsData(contents),
         \A c \in changes : IsChange(c) /\ c.previous = contents[c.cell]
  PROVE  Cells!Applied(Cells!Invert(changes), Cells!Applied(changes, contents)) = contents
<1> DEFINE inverse == Cells!Invert(changes)
           after == Cells!Applied(changes, contents)
<1>1. \A d \in inverse : \E c \in changes : d.cell = c.cell /\ d.value = contents[c.cell]
  <2>1. SUFFICES ASSUME NEW c \in changes, NEW d, d = [c EXCEPT !.value = c.previous, !.previous = c.value]
                 PROVE  d.cell = c.cell /\ d.value = contents[c.cell]
    BY DEF Cells!Invert
  <2>2. d = [cell |-> c.cell, previous |-> c.value, value |-> c.previous]
    BY <2>1, TurnedAround
  <2>3. QED
    BY <2>2
<1>2. \A c \in changes : \E d \in inverse : d.cell = c.cell
  <2>1. SUFFICES ASSUME NEW c \in changes
                 PROVE  \E d \in inverse : d.cell = c.cell
    OBVIOUS
  <2>2. [c EXCEPT !.value = c.previous, !.previous = c.value]
          = [cell |-> c.cell, previous |-> c.value, value |-> c.previous]
    BY TurnedAround
  <2>3. [c EXCEPT !.value = c.previous, !.previous = c.value] \in inverse
    BY DEF Cells!Invert
  <2>4. QED
    BY <2>2, <2>3
<1>3. /\ after = [cell \in Cells!Cells |-> after[cell]]
      /\ \A cell \in Cells!Cells : (\A c \in changes : c.cell # cell) => after[cell] = contents[cell]
  BY DEF Cells!Applied
<1> DEFINE back == Cells!Applied(inverse, after)
<1>4. /\ back = [cell \in Cells!Cells |-> back[cell]]
      /\ \A cell \in Cells!Cells : (\A d \in inverse : d.cell # cell) => back[cell] = after[cell]
      /\ \A cell \in Cells!Cells : (\E d \in inverse : d.cell = cell) =>
           \E d \in inverse : d.cell = cell /\ back[cell] = d.value
  BY DEF Cells!Applied
<1> HIDE DEF inverse, after, back
<1>5. \A cell \in Cells!Cells : back[cell] = contents[cell]
  BY <1>1, <1>2, <1>3, <1>4
<1>6. back = contents
  BY <1>4, <1>5 DEF IsData
<1>7. QED
  BY <1>6 DEF back, after, inverse

LEMMA BatchComesBack == ASSUME CellsInv PROVE Cells!UndoRestores
<1>1. SUFFICES ASSUME last.source # "none", ~last.stale
               PROVE  /\ Cells!Applied(Cells!Invert(last.changes), data) = last.before
                      /\ Cells!Applied(Cells!Invert(Cells!Invert(last.changes)), last.before) = data
  BY DEF Cells!UndoRestores
<1>2. /\ IsData(last.before) /\ data = Cells!Applied(last.changes, last.before)
      /\ \A c \in last.changes : IsChange(c) /\ c.previous = last.before[c.cell]
  BY <1>1 DEF CellsInv, BatchIsApplied
<1>3. Cells!Applied(Cells!Invert(last.changes), data) = last.before
  BY <1>2, InverseRestores
<1>4. Cells!Invert(Cells!Invert(last.changes)) = last.changes
  BY <1>2, InvertTwice
<1>5. QED
  BY <1>2, <1>3, <1>4

\* The cells a batch may write.
ShownCells == CellsRendered \X Selectable

\* A batch that is handed over can be taken back, if it remembers what its cells contents.
LEMMA HandedOver ==
  ASSUME IsData(data), last'.before = data, data' = Cells!Applied(last'.changes, data),
         \A c \in last'.changes : IsChange(c) /\ (~last'.stale => c.previous = data[c.cell])
  PROVE  IsData(data)' /\ BatchIsApplied'
<1>1. IsData(data)'
  BY DEF Cells!Applied, IsData
<1>2. BatchIsApplied'
  BY DEF BatchIsApplied, IsData, IsChange
<1>3. QED
  BY <1>1, <1>2

\* What is deleted or cut is painted as selected.
LEMMA ClearedAre ==
  \A bs : \A c \in Cells!Cleared(bs) :
    /\ IsChange(c) /\ c.previous = data[c.cell] /\ Cells!WritableCell(c.cell)
    /\ c.cell \in ShownCells /\ \E b \in bs : c.cell \in Cells!Painted(b)
<1>1. SUFFICES ASSUME NEW bs, NEW b \in bs, NEW cell \in Cells!Painted(b), Cells!WritableCell(cell),
                      NEW c, c = [cell |-> cell, previous |-> data[cell], value |-> ClearValue[cell[2]]]
               PROVE  /\ IsChange(c) /\ c.previous = data[c.cell] /\ Cells!WritableCell(c.cell)
                      /\ c.cell \in ShownCells /\ c.cell \in Cells!Painted(b)
  BY DEF Cells!Cleared, Cells!Changed
<1>2. IsChange(c) /\ c.cell = cell /\ c.previous = data[cell]
  BY <1>1 DEF IsChange
<1>3. cell \in ShownCells
  BY DEF Cells!Painted, ShownCells, CellsRendered
<1>4. QED
  BY <1>1, <1>2, <1>3

LEMMA DeleteKeeps == ASSUME CellsInv, Cells!Delete PROVE CellsInv'
<1>1. /\ last'.source = "clear" /\ last'.changes = Cells!Cleared(Cells!Bounds) /\ last'.before = data
      /\ last'.shown = ShownCells /\ last'.selected = Cells!VisibleSelectedCells
      /\ data' = Cells!Applied(last'.changes, data) /\ UNCHANGED <<page, drag>>
  BY DEF Cells!Delete, Cells!Hand, ShownCells, CellsRendered, Cells!Rendered
<1>2. \A c \in last'.changes :
        /\ IsChange(c) /\ c.previous = data[c.cell] /\ Cells!WritableCell(c.cell)
        /\ c.cell \in last'.shown /\ c.cell \in last'.selected
  BY <1>1, ClearedAre DEF Cells!VisibleSelectedCells
<1>3. IsData(data)' /\ BatchIsApplied'
  BY <1>1, <1>2, HandedOver DEF CellsInv
<1>4. Cells!OnlyShownCellsChange'
  BY <1>1, <1>2 DEF Cells!OnlyShownCellsChange, Cells!WritableCell
<1>5. QED
  BY <1>1, <1>3, <1>4 DEF CellsInv, DragIsHere, CellsRendered, Cells!Rendered

LEMMA CutKeeps ==
  ASSUME CellsInv, Cells!CutCells, UNCHANGED <<page, drag>>
  PROVE  CellsInv'
<1> DEFINE b == Cells!ActiveBound
<1>1. CASE UNCHANGED <<data, last>>
  BY <1>1 DEF CellsInv, IsData, BatchIsApplied, DragIsHere, CellsRendered, Cells!Rendered,
              Cells!OnlyShownCellsChange
<1>2. CASE ~UNCHANGED <<data, last>>
  <2>1. /\ last'.source = "cut" /\ last'.changes = Cells!Cleared({b}) /\ last'.before = data
        /\ last'.shown = ShownCells /\ last'.selected = Cells!Painted(b)
        /\ data' = Cells!Applied(last'.changes, data)
    BY <1>2 DEF Cells!CutCells, Cells!Hand, ShownCells, CellsRendered, Cells!Rendered
  <2> HIDE DEF b
  <2>2. \A c \in last'.changes :
          /\ IsChange(c) /\ c.previous = data[c.cell] /\ Cells!WritableCell(c.cell)
          /\ c.cell \in last'.shown /\ c.cell \in last'.selected
    BY <2>1, ClearedAre
  <2>3. IsData(data)' /\ BatchIsApplied'
    BY <2>1, <2>2, HandedOver DEF CellsInv
  <2>4. Cells!OnlyShownCellsChange'
    BY <2>1, <2>2 DEF Cells!OnlyShownCellsChange, Cells!WritableCell
  <2>5. QED
    BY <2>3, <2>4 DEF CellsInv, DragIsHere, CellsRendered, Cells!Rendered
<1>3. QED
  BY <1>1, <1>2

\* Numbers in order are the numbers of the set.
LEMMA AscendingIsOf ==
  ASSUME NEW S, S \subseteq Int, IsFiniteSet(S), NEW i \in DOMAIN Cells!Ascending(S)
  PROVE  Cells!Ascending(S)[i] \in S
<1>1. \A T : Cells!Cardinality(T) = Cardinality(T)
  BY DEF Cells!Cardinality, Cardinality
<1>2. i \in 1..Cardinality(S) /\ Cells!Ascending(S)[i] = CHOOSE n \in S : Cardinality({m \in S : m <= n}) = i
  BY <1>1 DEF Cells!Ascending, Cells!UpTo
<1>3. \E n \in S : Cardinality({m \in S : m <= n}) = i
  BY <1>2, RanksExist
<1>4. QED
  BY <1>2, <1>3

LEMMA RowsAreFinite ==
  ASSUME Cells!CellSelectionAssumption, CellsInv
  PROVE  /\ CellsRendered \subseteq Int /\ IsFiniteSet(CellsRendered)
         /\ Selectable \subseteq Int /\ IsFiniteSet(Selectable)
<1>1. NumRows \in Nat /\ NumColumns \in Nat
  BY DEF Cells!CellSelectionAssumption
<1>2. IsFiniteSet(1..NumRows) /\ IsFiniteSet(1..NumColumns)
  BY <1>1, FS_Interval
<1>3. CellsRendered \subseteq 1..NumRows /\ Selectable \subseteq 1..NumColumns
  BY DEF Cells!CellSelectionAssumption, Cells!Rows, Cells!Columns, CellsRendered, Cells!Rendered,
         CellsInv
<1>4. IsFiniteSet(CellsRendered) /\ IsFiniteSet(Selectable)
  BY <1>2, <1>3, FS_Subset
<1>5. CellsRendered \subseteq Int
  BY <1>1, <1>3
<1>6. Selectable \subseteq Int
  BY <1>1, <1>3
<1>7. QED
  BY <1>4, <1>5, <1>6

\* What is pasted is written into shown cells that may be written.
LEMMA PastedAre ==
  ASSUME Cells!CellSelectionAssumption, CellsInv, NEW block, NEW b, NEW c \in Cells!Paste(block, b).changes
  PROVE  /\ IsChange(c) /\ c.previous = data[c.cell]
         /\ Cells!WritableCell(c.cell) /\ c.cell \in ShownCells
<1> DEFINE above == {r \in CellsRendered : r >= b.top}
           beside == {k \in Selectable : k >= b.left}
           size == Cells!PasteSize(block, b.bottom - b.top + 1,
                                   Cells!Cardinality((b.left..b.right) \cap Selectable))
           R == Cells!FirstN(above, size[1])
           K == Cells!FirstN(beside, size[2])
           rows == Cells!Ascending(R)
           targets == Cells!Ascending(K)
<1>1. PICK r \in DOMAIN rows, k \in DOMAIN targets :
        /\ IsChange(c) /\ c.cell = <<rows[r], targets[k]>> /\ c.previous = data[c.cell]
        /\ Cells!WritableCell(c.cell)
  <2> DEFINE tiled == Cells!Tile(block, size[1], size[2])
             put == {[cell |-> <<rows[r], targets[k]>>, raw |-> tiled[r][k]] :
                       r \in DOMAIN rows, k \in DOMAIN targets}
             made(p) == ParseOf[p.cell[2]][p.raw]
             good == {p \in put : Cells!WritableCell(p.cell) /\ Cells!Accepts(p.cell[2], p.raw)}
  <2>1. Cells!Paste(block, b).changes = {Cells!Changed(p.cell, made(p), data) : p \in good}
    BY DEF Cells!Paste, CellsRendered
  <2> HIDE DEF good
  <2>2. PICK p \in good : c = Cells!Changed(p.cell, made(p), data)
    BY <2>1
  <2>3. p \in put /\ Cells!WritableCell(p.cell)
    <3> HIDE DEF put
    <3>1. QED
      BY DEF good
  <2> HIDE DEF rows, targets, tiled
  <2>4. PICK r \in DOMAIN rows, k \in DOMAIN targets :
          p = [cell |-> <<rows[r], targets[k]>>, raw |-> tiled[r][k]]
    BY <2>3
  <2>5. p.cell = <<rows[r], targets[k]>>
    BY <2>4
  <2>6. c = [cell |-> p.cell, previous |-> data[p.cell], value |-> made(p)]
    BY <2>2 DEF Cells!Changed
  <2>7. IsChange(c) /\ c.cell = p.cell /\ c.previous = data[c.cell]
    BY <2>6 DEF IsChange
  <2>8. QED
    BY <2>3, <2>5, <2>7
<1>2. R \subseteq CellsRendered /\ K \subseteq Selectable
  BY DEF Cells!FirstN
<1> HIDE DEF R, K
<1>3. rows[r] \in R
  <2>1. R \subseteq Int /\ IsFiniteSet(R)
    BY <1>2, RowsAreFinite, FS_Subset
  <2>2. QED
    BY <2>1, AscendingIsOf
<1>4. targets[k] \in K
  <2>1. K \subseteq Int /\ IsFiniteSet(K)
    BY <1>2, RowsAreFinite, FS_Subset
  <2>2. QED
    BY <2>1, AscendingIsOf
<1> HIDE DEF rows, targets
<1>5. <<rows[r], targets[k]>> \in ShownCells
  BY <1>2, <1>3, <1>4 DEF ShownCells
<1>6. QED
  BY <1>1, <1>5

LEMMA PasteKeeps ==
  ASSUME Cells!CellSelectionAssumption, CellsInv, Cells!PasteClip
  PROVE  CellsInv'
<1>1. PICK block, b :
        /\ last'.source = "paste" /\ last'.changes = Cells!Paste(block, b).changes /\ last'.before = data
        /\ last'.shown = ShownCells /\ data' = Cells!Applied(last'.changes, data)
        /\ UNCHANGED <<page, drag>>
  BY DEF Cells!PasteClip, Cells!PasteText, Cells!Hand, ShownCells, CellsRendered, Cells!Rendered
<1>2. \A c \in last'.changes :
        /\ IsChange(c) /\ c.previous = data[c.cell] /\ Cells!WritableCell(c.cell)
        /\ c.cell \in last'.shown
  BY <1>1, PastedAre
<1>3. IsData(data)' /\ BatchIsApplied'
  BY <1>1, <1>2, HandedOver DEF CellsInv
<1>4. Cells!OnlyShownCellsChange'
  BY <1>1, <1>2 DEF Cells!OnlyShownCellsChange, Cells!WritableCell
<1>5. QED
  BY <1>1, <1>3, <1>4 DEF CellsInv, DragIsHere, CellsRendered, Cells!Rendered

LEMMA FillKeeps == ASSUME CellsInv, Cells!ReleaseFill PROVE CellsInv'
<1>1. ~drag'.on /\ page' = page
  BY DEF Cells!ReleaseFill, Cells!NoDrag
<1>2. DragIsHere'
  BY <1>1 DEF DragIsHere
<1>3. CASE UNCHANGED <<data, last>>
  BY <1>1, <1>2, <1>3 DEF CellsInv, IsData, BatchIsApplied, Cells!OnlyShownCellsChange
<1>4. CASE ~UNCHANGED <<data, last>>
  <2>1. /\ last'.source = "fill" /\ last'.changes = Cells!FillChanges(drag) /\ last'.before = data
        /\ last'.rejected = {c \in Cells!Preview(drag) : ~Cells!FillTaken(drag, c)}
        /\ last'.shown = ShownCells /\ last'.selected = Cells!Preview(drag)
        /\ last'.stale = (drag.data # data) /\ data' = Cells!Applied(last'.changes, data)
    BY <1>4 DEF Cells!ReleaseFill, Cells!Hand, ShownCells, CellsRendered, Cells!Rendered
  <2>2. drag.rendered = CellsRendered
    BY DEF Cells!ReleaseFill, CellsInv, DragIsHere
  <2>3. \A cell \in Cells!Preview(drag) : cell \in ShownCells /\ Cells!WritableCell(cell)
    BY <2>2 DEF Cells!Preview, Cells!FillTargetRows, Cells!FillTargetColumns, Cells!FirstN,
                ShownCells
  <2>4. \A c \in last'.changes :
          /\ IsChange(c) /\ c.previous = drag.data[c.cell]
          /\ c.cell \in Cells!Preview(drag) /\ Cells!FillTaken(drag, c.cell)
    BY <2>1 DEF Cells!FillChanges, Cells!Changed, IsChange
  <2>5. \A cell \in Cells!Preview(drag) : Cells!FillTaken(drag, cell) =>
          \E c \in last'.changes : c.cell = cell
    <3>1. SUFFICES ASSUME NEW cell \in Cells!Preview(drag), Cells!FillTaken(drag, cell)
                   PROVE  \E c \in last'.changes : c.cell = cell
      OBVIOUS
    <3> DEFINE value == Cells!FillValue(drag, cell)
    <3>2. Cells!Changed(cell, value, drag.data) \in last'.changes
      BY <2>1, <3>1 DEF Cells!FillChanges
    <3>3. Cells!Changed(cell, value, drag.data).cell = cell
      BY DEF Cells!Changed
    <3>4. QED
      BY <3>2, <3>3
  <2>6. IsData(data)' /\ BatchIsApplied'
    BY <2>1, <2>4, HandedOver DEF CellsInv
  <2>7. {c.cell : c \in last'.changes} \cup last'.rejected = last'.selected
    BY <2>1, <2>4, <2>5
  <2>8. Cells!OnlyShownCellsChange'
    BY <2>1, <2>3, <2>4, <2>7 DEF Cells!OnlyShownCellsChange, Cells!WritableCell
  <2>9. QED
    BY <1>1, <1>2, <2>6, <2>8 DEF CellsInv
<1>5. QED
  BY <1>3, <1>4

LEMMA DragKeeps ==
  ASSUME CellsInv, NEW cell, Cells!DragOver(cell)
  PROVE  CellsInv'
<1>1. PICK axis, n : drag' = [drag EXCEPT !.axis = axis, !.count = n]
  BY DEF Cells!DragOver
<1>2. drag.on /\ UNCHANGED <<data, page, last>>
  BY DEF Cells!DragOver
<1> DEFINE Near == [on : {TRUE}, bound : {drag.bound}, rendered : {CellsRendered},
                    axis : {drag.axis, axis}, count : {drag.count, n}, data : {drag.data}]
<1>3. drag \in Near
  BY <1>2 DEF CellsInv, DragIsHere
<1>4. drag' \in Near
  BY <1>1, <1>3
<1>5. DragIsHere'
  BY <1>2, <1>4 DEF DragIsHere, CellsRendered, Cells!Rendered
<1>6. QED
  BY <1>2, <1>5 DEF CellsInv, IsData, BatchIsApplied, Cells!OnlyShownCellsChange

LEMMA CellsKept ==
  ASSUME Cells!CellSelectionAssumption, CellsInv, [Cells!Next]_(Cells!vars)
  PROVE  CellsInv'
<1>1. CASE UNCHANGED <<data, page, drag, last>>
  BY <1>1 DEF CellsInv, IsData, BatchIsApplied, DragIsHere, CellsRendered, Cells!Rendered,
              Cells!OnlyShownCellsChange
<1>2. CASE \/ \E cell \in Cells!Cells : Cells!Click(cell) \/ Cells!AddRange(cell)
           \/ \E direction \in Cells!Directions : Cells!Step(direction) \/ Cells!Extend(direction)
           \/ \E row \in Cells!Rows, column \in Cells!Columns, extend \in BOOLEAN :
                Cells!Jump(row, column, extend)
           \/ Cells!SelectAll \/ Cells!Escape \/ Cells!Copy \/ Cells!CutByKey \/ Cells!CutDenied
           \/ UNCHANGED Cells!vars
  BY <1>1, <1>2 DEF Cells!Click, Cells!AddRange, Cells!Step, Cells!Extend, Cells!Jump,
                    Cells!SelectAll,
       Cells!Escape, Cells!Copy, Cells!CutByKey, Cells!CutDenied, Cells!Unchanging, Cells!vars
<1>3. CASE \E p \in DOMAIN Pages : Cells!TurnPage(p)
  <2>1. page' \in DOMAIN Pages /\ ~drag.on /\ UNCHANGED <<data, drag, last>>
    BY <1>3 DEF Cells!TurnPage, Cells!Idle
  <2>2. QED
    BY <2>1 DEF CellsInv, IsData, BatchIsApplied, DragIsHere, Cells!OnlyShownCellsChange
<1>4. CASE \E cell \in Cells!Cells : Cells!DragOver(cell)
  BY <1>4, DragKeeps
<1>5. CASE Cells!StartFill
  <2>1. /\ drag' = [on |-> TRUE, bound |-> Cells!ActiveBound, rendered |-> CellsRendered, axis |-> "none",
                    count |-> 0, data |-> data]
        /\ UNCHANGED <<data, page, last>>
    BY <1>5 DEF Cells!StartFill, CellsRendered
  <2>2. CellsRendered' = CellsRendered
    BY <2>1 DEF CellsRendered, Cells!Rendered
  <2>3. DragIsHere'
    BY <2>1, <2>2 DEF DragIsHere
  <2>4. QED
    BY <2>1, <2>3 DEF CellsInv, IsData, BatchIsApplied, Cells!OnlyShownCellsChange
<1>6. CASE Cells!CancelFill
  <2>1. ~drag'.on /\ UNCHANGED <<data, page, last>>
    BY <1>6 DEF Cells!CancelFill, Cells!NoDrag
  <2>2. QED
    BY <2>1 DEF CellsInv, IsData, BatchIsApplied, DragIsHere, Cells!OnlyShownCellsChange
<1>7. CASE Cells!Delete
  BY <1>7, DeleteKeeps
<1>8. CASE Cells!Cut
  BY <1>8, CutKeeps DEF Cells!Cut
<1>9. CASE Cells!CutWritten
  <2>1. UNCHANGED <<page, drag>> /\ (Cells!CutCells \/ UNCHANGED <<data, last>>)
    BY <1>9 DEF Cells!CutWritten
  <2>2. QED
    BY <1>1, <2>1, CutKeeps
<1>10. CASE Cells!PasteClip
  BY <1>10, PasteKeeps
<1>11. CASE Cells!ReleaseFill
  BY <1>11, FillKeeps
<1>12. CASE \E cell \in Updated, value \in CellsValues : Cells!LiveUpdate(cell, value)
  <2>1. PICK cell, value : data' = [data EXCEPT ![cell] = value]
    BY <1>12 DEF Cells!LiveUpdate
  <2>2. /\ last'.source = "none" /\ last'.changes = {} /\ UNCHANGED <<page, drag>>
    BY <1>12 DEF Cells!LiveUpdate, Cells!NoBatch
  <2>3. IsData(data)'
    BY <2>1 DEF CellsInv, IsData
  <2>4. BatchIsApplied' /\ DragIsHere'
    BY <2>2 DEF CellsInv, BatchIsApplied, DragIsHere, CellsRendered, Cells!Rendered
  <2>5. Cells!OnlyShownCellsChange'
    BY <2>2 DEF Cells!OnlyShownCellsChange
  <2>6. QED
    BY <2>2, <2>3, <2>4, <2>5 DEF CellsInv
<1>13. QED
  BY <1>2, <1>3, <1>4, <1>5, <1>6, <1>7, <1>8, <1>9, <1>10, <1>11, <1>12 DEF Cells!Next

LEMMA InitCells ==
  ASSUME Cells!CellSelectionAssumption, Cells!Init
  PROVE  CellsInv
<1>1. IsData(data)
  BY DEF Cells!Init, Cells!CellSelectionAssumption, IsData
<1>2. ~drag.on /\ last.source = "none" /\ last.changes = {}
  BY DEF Cells!Init, Cells!NoDrag, Cells!NoBatch
<1>3. Cells!OnlyShownCellsChange
  BY <1>2 DEF Cells!OnlyShownCellsChange
<1>4. QED
  BY <1>1, <1>2, <1>3 DEF CellsInv, DragIsHere, BatchIsApplied, Cells!Init,
                          Cells!CellSelectionAssumption

------------------------------------------------------------------------------
(* The table's rows and columns *)

BeforeTo(row) ==
  LET upTo[n \in 0..Len(row)] == IF n = 0 THEN 0 ELSE upTo[n - 1] + row[n][2]
  IN upTo

\* The cells of a row, by what they show and how many columns they span.
Labels == Body!Columns \cup {"fill", "spacer", "all", "note", "skeleton"}
Rows == Seq(Labels \X (Nat \ {0}))

\* How many columns the cells of a row span, cell by cell.
LEMMA BeforeIs ==
  ASSUME NEW row \in Rows
  PROVE  /\ BeforeTo(row) \in [0..Len(row) -> Nat] /\ BeforeTo(row)[0] = 0
         /\ \A n \in 1..Len(row) : BeforeTo(row)[n] = BeforeTo(row)[n - 1] + row[n][2]
<1> DEFINE N == Len(row)
           D(f) == [n \in 0..N |-> IF n = 0 THEN 0 ELSE f[n - 1] + row[n][2]]
           step == [p \in (1..N) \X Nat |-> p[2] + row[p[1]][2]]
<1>0. N \in Nat /\ \A n \in 1..N : row[n][2] \in Nat
  <2>1. N \in Nat /\ \A n \in 1..N : row[n] \in Labels \X (Nat \ {0})
    BY LenProperties, ElementOfSeq DEF Rows
  <2>2. QED
    BY <2>1
<1>1. \A n \in 1..N, s \in Nat : step[<<n, s>>] = s + row[n][2] /\ step[<<n, s>>] \in Nat
  BY <1>0
<1>2. Cells!Steps(N, Nat, 0, step)
  <2> HIDE DEF step, N
  <2>1. QED
    BY <1>0, <1>1 DEF Cells!Steps
<1>3. PICK g : Cells!Recurs(g, N, Nat, 0, step)
  BY <1>2, Cells!RecursionExists
<1>4. ASSUME NEW f PROVE /\ D(f)[0] = 0 /\ Cells!OfNumbers(D(f), N) /\ DOMAIN D(f) = 0..N
                         /\ \A n \in 1..N : D(f)[n] = f[n - 1] + row[n][2]
  <2>1. D(f)[0] = 0 /\ DOMAIN D(f) = 0..N /\ \A n \in 1..N : D(f)[n] = f[n - 1] + row[n][2]
    BY <1>0
  <2>2. Cells!OfNumbers(D(f), N)
    BY DEF Cells!OfNumbers
  <2>3. QED
    BY <2>1, <2>2
<1> HIDE DEF D
<1>5. g = D(g)
  <2>1. g \in [0..N -> Nat] /\ g[0] = 0 /\ \A n \in 1..N : g[n] = step[<<n, g[n - 1]>>]
    BY <1>3 DEF Cells!Recurs
  <2>2. g = [n \in 0..N |-> g[n]] /\ D(g) = [n \in 0..N |-> D(g)[n]]
    <3>1. g = [n \in 0..N |-> g[n]]
      BY <2>1
    <3>2. D(g) = [n \in 0..N |-> D(g)[n]]
      BY <1>4 DEF Cells!OfNumbers
    <3>3. QED
      BY <3>1, <3>2
  <2> HIDE DEF step, N
  <2>3. \A n \in 0..N : n = 0 \/ n \in 1..N
    BY <1>0
  <2>4. \A n \in 1..N : g[n - 1] \in Nat
    BY <1>0, <2>1
  <2>5. \A n \in 0..N : g[n] = D(g)[n]
    <3>1. \A n \in 1..N : g[n] = g[n - 1] + row[n][2]
      BY <1>1, <2>1, <2>4
    <3>2. \A n \in 1..N : g[n] = D(g)[n]
      BY <1>4, <3>1
    <3>3. g[0] = D(g)[0]
      BY <1>4, <2>1
    <3>4. QED
      BY <2>3, <3>2, <3>3
  <2>6. QED
    BY <2>2, <2>5, Zenon
<1>6. BeforeTo(row) = CHOOSE f : f = D(f)
  BY DEF BeforeTo, D
<1>7. BeforeTo(row) = D(BeforeTo(row))
  BY <1>5, <1>6
<1> DEFINE f == BeforeTo(row)
<1>8. Cells!Recurs(f, N, Nat, 0, step)
  <2> HIDE DEF step, N, f
  <2>1. \A n \in 1..N : f[n - 1] \in Nat => f[n] = step[<<n, f[n - 1]>>]
    BY <1>1, <1>4, <1>7 DEF f
  <2>2. f[0] = 0 /\ Cells!OfNumbers(f, N)
    BY <1>4, <1>7 DEF f
  <2>3. QED
    BY <1>2, <2>1, <2>2, RecursOnly
<1>9. f \in [0..N -> Nat] /\ f[0] = 0 /\ \A n \in 1..N : f[n] = step[<<n, f[n - 1]>>] /\ f[n - 1] \in Nat
  <2> HIDE DEF step, f
  <2>1. QED
    BY <1>0, <1>8 DEF Cells!Recurs
<1> HIDE DEF step, f, N
<1>10. \A n \in 1..N : f[n] = f[n - 1] + row[n][2]
  BY <1>1, <1>9
<1>11. QED
  BY <1>9, <1>10 DEF f, N

LEMMA BeforeWhole == \A row, i : Body!Before(row, i) = BeforeTo(row)[i]
  BY DEF Body!Before, BeforeTo

\* The cells of a row fill these columns, and stand below their own.
Fits(row, columns) ==
  /\ row \in Rows /\ columns \in Seq(Labels)
  /\ Body!Before(row, Len(row)) = Len(columns)
  /\ \A i \in 1..Len(row) :
       /\ Body!Before(row, i - 1) + 1 \in 1..Len(columns)
       /\ row[i][1] \in Body!Columns \cup {"fill"} => columns[Body!Before(row, i - 1) + 1] = row[i][1]

\* A row that fits the colgroup has its cells under their columns.
LEMMA FittingIsAligned ==
  ASSUME NEW row, Fits(row, Body!ColGroup)
  PROVE  Body!Aligned(row)
<1>1. DOMAIN row = 1..Len(row)
  BY LenProperties DEF Fits, Rows
<1>2. QED
  BY <1>1 DEF Fits, Body!Aligned

\* Before counts on from one row to the next.

\* Rows put one behind the other span what both span,
LEMMA BeforeBoth ==
  ASSUME NEW r \in Rows, NEW s \in Rows
  PROVE  /\ r \o s \in Rows /\ Len(r \o s) = Len(r) + Len(s)
         /\ \A i \in 0..Len(r) : Body!Before(r \o s, i) = Body!Before(r, i)
         /\ \A i \in 0..Len(s) : Body!Before(r \o s, Len(r) + i) = Body!Before(r, Len(r)) + Body!Before(s, i)
<1> DEFINE q == r \o s
<1>1. /\ q \in Rows /\ Len(q) = Len(r) + Len(s) /\ Len(r) \in Nat /\ Len(s) \in Nat
      /\ \A k \in 1..Len(r) : q[k] = r[k]
      /\ \A k \in 1..Len(s) : q[Len(r) + k] = s[k]
  BY ConcatProperties, LenProperties DEF Rows
<1> HIDE DEF q
<1> DEFINE f == BeforeTo(q)
           g == BeforeTo(r)
           h == BeforeTo(s)
<1>2. f \in [0..Len(q) -> Nat] /\ f[0] = 0 /\ \A n \in 1..Len(q) : f[n] = f[n - 1] + q[n][2]
  BY <1>1, BeforeIs
<1>3. g \in [0..Len(r) -> Nat] /\ g[0] = 0 /\ \A n \in 1..Len(r) : g[n] = g[n - 1] + r[n][2]
  BY BeforeIs
<1>4. h \in [0..Len(s) -> Nat] /\ h[0] = 0 /\ \A n \in 1..Len(s) : h[n] = h[n - 1] + s[n][2]
  BY BeforeIs
<1> HIDE DEF f, g, h
<1>5. \A i \in 0..Len(r) : f[i] = g[i]
  <2> DEFINE T == {i \in 0..Len(r) : f[i] = g[i]}
  <2>1. 0 \in T
    BY <1>1, <1>2, <1>3
  <2>2. ASSUME NEW i \in 1..Len(r), i - 1 \in T PROVE i \in T
    <3>1. i \in 1..Len(q) /\ f[i - 1] = g[i - 1] /\ q[i] = r[i]
      BY <1>1, <2>2
    <3>2. f[i] = f[i - 1] + q[i][2] /\ g[i] = g[i - 1] + r[i][2]
      BY <1>2, <1>3, <3>1
    <3>3. f[i] = g[i]
      BY <3>1, <3>2
    <3>4. QED
      BY <3>3, <1>1
  <2> HIDE DEF T
  <2>3. \A i \in 0..Len(r) : i \in T
    BY <1>1, <2>1, <2>2, Cells!Climb
  <2>4. QED
    BY <2>3 DEF T
<1>6. \A i \in 0..Len(s) : f[Len(r) + i] = g[Len(r)] + h[i]
  <2> DEFINE T == {i \in 0..Len(s) : f[Len(r) + i] = g[Len(r)] + h[i]}
  <2>1. 0 \in T
    <3>1. f[Len(r)] = g[Len(r)] /\ g[Len(r)] \in Nat
      BY <1>1, <1>3, <1>5
    <3>2. QED
      BY <1>1, <1>4, <3>1
  <2>2. ASSUME NEW i \in 1..Len(s), i - 1 \in T PROVE i \in T
    <3>1. Len(r) + i \in 1..Len(q) /\ f[Len(r) + (i - 1)] = g[Len(r)] + h[i - 1] /\ q[Len(r) + i] = s[i]
      BY <1>1, <2>2
    <3>2. (Len(r) + i) - 1 = Len(r) + (i - 1)
      BY <1>1
    <3>3. f[Len(r) + i] = f[Len(r) + (i - 1)] + s[i][2]
      BY <1>2, <3>1, <3>2
    <3>4. h[i] = h[i - 1] + s[i][2] /\ s[i][2] \in Nat /\ h[i - 1] \in Nat
      <4>1. s[i] \in Labels \X (Nat \ {0})
        BY ElementOfSeq DEF Rows
      <4>2. i - 1 \in 0..Len(s)
        BY <1>1
      <4>3. QED
        BY <1>4, <4>1, <4>2
    <3>5. g[Len(r)] \in Nat
      BY <1>1, <1>3
    <3>6. f[Len(r) + i] = g[Len(r)] + h[i]
      BY <3>1, <3>3, <3>4, <3>5
    <3>7. QED
      BY <3>6, <1>1
  <2> HIDE DEF T
  <2>3. \A i \in 0..Len(s) : i \in T
    BY <1>1, <2>1, <2>2, Cells!Climb
  <2>4. QED
    BY <2>3 DEF T
<1>7. QED
  BY <1>1, <1>5, <1>6, BeforeWhole DEF f, g, h, q

\* A row that is put together from two fits what their columns are together.

\* and fit what both fit.
LEMMA FitsBoth ==
  ASSUME NEW r, NEW s, NEW c, NEW d, Fits(r, c), Fits(s, d)
  PROVE  Fits(r \o s, c \o d)
<1> DEFINE q == r \o s
           b == c \o d
<1>1. r \in Rows /\ s \in Rows /\ c \in Seq(Labels) /\ d \in Seq(Labels)
  BY DEF Fits
<1>2. /\ q \in Rows /\ Len(q) = Len(r) + Len(s) /\ Len(r) \in Nat /\ Len(s) \in Nat
      /\ \A i \in 1..Len(r) : q[i] = r[i]
      /\ \A i \in 1..Len(s) : q[Len(r) + i] = s[i]
  BY <1>1, ConcatProperties, LenProperties DEF Rows
<1>3. /\ b \in Seq(Labels) /\ Len(b) = Len(c) + Len(d) /\ Len(c) \in Nat /\ Len(d) \in Nat
      /\ \A i \in 1..Len(c) : b[i] = c[i]
      /\ \A i \in 1..Len(d) : b[Len(c) + i] = d[i]
  BY <1>1, ConcatProperties, LenProperties
<1>4. /\ \A i \in 0..Len(r) : Body!Before(q, i) = Body!Before(r, i)
      /\ \A i \in 0..Len(s) : Body!Before(q, Len(r) + i) = Len(c) + Body!Before(s, i)
  <2>1. /\ \A i \in 0..Len(r) : Body!Before(r \o s, i) = Body!Before(r, i)
        /\ \A i \in 0..Len(s) : Body!Before(r \o s, Len(r) + i) = Body!Before(r, Len(r)) + Body!Before(s, i)
    BY <1>1, BeforeBoth
  <2>2. Body!Before(r, Len(r)) = Len(c)
    BY DEF Fits
  <2>3. QED
    BY <2>1, <2>2
<1> HIDE DEF q, b
<1>5. Body!Before(q, Len(q)) = Len(b)
  <2>1. Len(s) \in 0..Len(s)
    BY <1>2
  <2>2. Body!Before(q, Len(r) + Len(s)) = Len(c) + Body!Before(s, Len(s))
    BY <1>4, <2>1
  <2>3. QED
    BY <1>2, <1>3, <2>2 DEF Fits
<1>6. ASSUME NEW i \in 1..Len(r)
      PROVE  /\ Body!Before(q, i - 1) + 1 \in 1..Len(b)
             /\ q[i][1] \in Body!Columns \cup {"fill"} => b[Body!Before(q, i - 1) + 1] = q[i][1]
  <2>1. q[i] = r[i] /\ Body!Before(q, i - 1) = Body!Before(r, i - 1)
    BY <1>2, <1>4
  <2>2. /\ Body!Before(r, i - 1) + 1 \in 1..Len(c)
        /\ r[i][1] \in Body!Columns \cup {"fill"} => c[Body!Before(r, i - 1) + 1] = r[i][1]
    BY DEF Fits
  <2>3. b[Body!Before(r, i - 1) + 1] = c[Body!Before(r, i - 1) + 1]
    BY <1>3, <2>2
  <2>4. Body!Before(r, i - 1) + 1 \in 1..Len(b)
    BY <1>3, <2>2
  <2>5. QED
    BY <2>1, <2>2, <2>3, <2>4
<1>7. ASSUME NEW i \in 1..Len(s)
      PROVE  /\ Body!Before(q, Len(r) + i - 1) + 1 \in 1..Len(b)
             /\ q[Len(r) + i][1] \in Body!Columns \cup {"fill"} =>
                  b[Body!Before(q, Len(r) + i - 1) + 1] = q[Len(r) + i][1]
  <2> DEFINE k == Body!Before(s, i - 1) + 1
  <2>1. i - 1 \in 0..Len(s) /\ Len(r) + i - 1 = Len(r) + (i - 1)
    BY <1>2
  <2>2. /\ k \in 1..Len(d)
        /\ s[i][1] \in Body!Columns \cup {"fill"} => d[k] = s[i][1]
    BY DEF Fits
  <2>3. Body!Before(s, i - 1) \in Nat
    <3>1. BeforeTo(s) \in [0..Len(s) -> Nat]
      BY <1>1, BeforeIs
    <3>2. QED
      BY <2>1, <3>1, BeforeWhole
  <2>4. Body!Before(q, Len(r) + i - 1) + 1 = Len(c) + k
    <3>1. Body!Before(q, Len(r) + i - 1) = Len(c) + Body!Before(s, i - 1)
      BY <1>4, <2>1
    <3>2. QED
      BY <1>3, <2>3, <3>1
  <2> HIDE DEF k
  <2>5. Len(c) + k \in 1..Len(b) /\ b[Len(c) + k] = d[k]
    BY <1>3, <2>2
  <2>6. q[Len(r) + i] = s[i]
    BY <1>2
  <2>7. QED
    BY <2>2, <2>4, <2>5, <2>6
<1>8. ASSUME NEW i \in 1..Len(q)
      PROVE  /\ Body!Before(q, i - 1) + 1 \in 1..Len(b)
             /\ q[i][1] \in Body!Columns \cup {"fill"} => b[Body!Before(q, i - 1) + 1] = q[i][1]
  <2>1. CASE i \in 1..Len(r)
    BY <1>6, <2>1
  <2>2. CASE i \notin 1..Len(r)
    <3>1. i - Len(r) \in 1..Len(s) /\ Len(r) + (i - Len(r)) = i
      BY <1>2, <2>2
    <3>2. PICK k \in 1..Len(s) : Len(r) + k = i
      BY <3>1
    <3> DEFINE At(n) == /\ Body!Before(q, n - 1) + 1 \in 1..Len(b)
                        /\ q[n][1] \in Body!Columns \cup {"fill"} =>
                             b[Body!Before(q, n - 1) + 1] = q[n][1]
    <3>3. At(Len(r) + k)
      BY <1>7
    <3>4. At(i)
      <4> HIDE DEF At
      <4>1. QED
        BY <3>2, <3>3
    <3>5. QED
      BY <3>4
  <2>3. QED
    BY <2>1, <2>2
<1>9. QED
  BY <1>2, <1>3, <1>5, <1>8 DEF Fits, q, b

\* One cell for each column, one that spans some, and none.

\* One cell for each column fits the columns,
LEMMA CellsFit ==
  ASSUME NEW columns \in Seq(Labels)
  PROVE  Fits(Body!Cells(columns), columns)
<1> DEFINE r == Body!Cells(columns)
           N == Len(columns)
<1>1. N \in Nat /\ DOMAIN columns = 1..N /\ \A i \in 1..N : columns[i] \in Labels
  BY LenProperties, ElementOfSeq
<1>2. \A i \in 1..N : r[i] = <<columns[i], 1>>
  BY <1>1 DEF Body!Cells
<1>3. r \in [1..N -> Labels \X (Nat \ {0})]
  BY <1>1 DEF Body!Cells
<1> HIDE DEF N, r
<1>4. r \in Rows /\ Len(r) = N
  BY <1>1, <1>3 DEF Rows
<1> DEFINE f == BeforeTo(r)
<1>5. f[0] = 0 /\ \A n \in 1..N : f[n] = f[n - 1] + r[n][2]
  BY <1>4, BeforeIs
<1> HIDE DEF f
<1> DEFINE T == {i \in 0..N : f[i] = i}
<1>6. 0 \in T
  BY <1>1, <1>5
<1>7. ASSUME NEW i \in 1..N, i - 1 \in T PROVE i \in T
  <2>1. f[i - 1] = i - 1 /\ r[i][2] = 1
    BY <1>2, <1>7
  <2>2. f[i] = i
    BY <1>1, <1>5, <2>1
  <2>3. QED
    BY <1>1, <2>2
<1>8. \A i \in 0..N : f[i] = i
  <2> HIDE DEF T
  <2>1. \A i \in 0..N : i \in T
    BY <1>1, <1>6, <1>7, Cells!Climb
  <2>2. QED
    BY <2>1 DEF T
<1>9. \A i \in 0..N : Body!Before(r, i) = i
  BY <1>8, BeforeWhole DEF f
<1>10. ASSUME NEW i \in 1..N
       PROVE  Body!Before(r, i - 1) + 1 = i /\ columns[i] = r[i][1]
  BY <1>1, <1>2, <1>9
<1>11. Fits(r, columns)
  BY <1>1, <1>4, <1>9, <1>10 DEF Fits, N
<1>12. QED
  BY <1>11 DEF r

\* and so does one cell across all of them, if it belongs to none.
LEMMA WideFits ==
  ASSUME NEW n \in Nat, NEW what \in Labels, NEW columns \in Seq(Labels), Len(columns) = n,
         \/ what \notin Body!Columns \cup {"fill"}
         \/ n = 1 /\ columns[1] = what
  PROVE  Fits(Body!Wide(what, n), columns)
<1>1. CASE n = 0
  <2>1. Body!Wide(what, n) = <<>> /\ <<>> \in Rows /\ Len(<<>>) = 0
    BY <1>1, EmptySeq DEF Body!Wide, Rows
  <2>2. Body!Before(<<>>, 0) = 0
    BY <2>1, BeforeIs, BeforeWhole
  <2>3. QED
    BY <1>1, <2>1, <2>2 DEF Fits
<1>2. CASE n # 0
  <2> DEFINE r == << <<what, n>> >>
  <2>1. Body!Wide(what, n) = r /\ r \in Rows /\ Len(r) = 1 /\ r[1] = <<what, n>>
    BY <1>2 DEF Body!Wide, Rows
  <2> HIDE DEF r
  <2>2. Body!Before(r, 0) = 0 /\ Body!Before(r, 1) = n
    <3>1. BeforeTo(r)[0] = 0 /\ BeforeTo(r)[1] = BeforeTo(r)[0] + r[1][2]
      <4>1. 1 \in 1..Len(r) /\ 1 - 1 = 0
        BY <2>1
      <4>2. BeforeTo(r)[0] = 0 /\ \A k \in 1..Len(r) : BeforeTo(r)[k] = BeforeTo(r)[k - 1] + r[k][2]
        BY <2>1, BeforeIs
      <4>3. QED
        BY <4>1, <4>2
    <3>2. QED
      BY <2>1, <3>1, BeforeWhole
  <2>3. QED
    BY <1>2, <2>1, <2>2 DEF Fits
<1>3. QED
  BY <1>1, <1>2

------------------------------------------------------------------------------
\* The visible columns of a side, from the first n of the order.
SideTo(side) ==
  LET upTo[n \in 0..Len(Order)] ==
        IF n = 0 THEN <<>>
        ELSE IF Order[n] \notin hidden /\ pin[Order[n]] = side THEN Append(upTo[n - 1], Order[n])
        ELSE upTo[n - 1]
  IN upTo

LEMMA OrderIs ==
  ASSUME Body!GridBodyAssumption
  PROVE  /\ Len(Order) \in Nat /\ DOMAIN Order = 1..Len(Order)
         /\ \A n \in 1..Len(Order) : Order[n] \in Body!Columns
         /\ \A i, j \in 1..Len(Order) : Order[i] = Order[j] => i = j
         /\ Body!Columns = {Order[n] : n \in 1..Len(Order)}
<1>1. Order \in Seq(Body!Columns)
  BY DEF Body!GridBodyAssumption
<1>2. Len(Order) \in Nat /\ DOMAIN Order = 1..Len(Order) /\ \A n \in 1..Len(Order) : Order[n] \in Body!Columns
  BY <1>1, LenProperties, ElementOfSeq
<1>3. \A i, j \in 1..Len(Order) : Order[i] = Order[j] => i = j
  BY <1>2 DEF Body!GridBodyAssumption
<1>4. Body!Columns = {Order[n] : n \in DOMAIN Order}
  BY DEF Body!Columns, Body!ToSet
<1>5. QED
  BY <1>2, <1>3, <1>4

\* SideTo adds the columns of the side one by one.
AddsColumns(f, side) ==
  /\ f \in [0..Len(Order) -> Seq(Body!Columns)] /\ f[0] = <<>>
  /\ \A n \in 1..Len(Order) :
       f[n] = IF Order[n] \notin hidden /\ pin[Order[n]] = side THEN Append(f[n - 1], Order[n])
              ELSE f[n - 1]

\* Each column of the order is added to its side.
LEMMA SideIs ==
  ASSUME Body!GridBodyAssumption, NEW side
  PROVE  AddsColumns(SideTo(side), side)
<1> DEFINE N == Len(Order)
           S == Seq(Body!Columns)
           Adds(n) == Order[n] \notin hidden /\ pin[Order[n]] = side
           D(f) == [n \in 0..N |-> IF n = 0 THEN <<>>
                                   ELSE IF Order[n] \notin hidden /\ pin[Order[n]] = side
                                   THEN Append(f[n - 1], Order[n]) ELSE f[n - 1]]
           step == [p \in (1..N) \X S |-> IF Adds(p[1]) THEN Append(p[2], Order[p[1]]) ELSE p[2]]
<1>0. N \in Nat /\ \A n \in 1..N : Order[n] \in Body!Columns
  BY OrderIs
<1>1. \A n \in 1..N, s \in S :
        step[<<n, s>>] = (IF Adds(n) THEN Append(s, Order[n]) ELSE s) /\ step[<<n, s>>] \in S
  <2> TAKE n \in 1..N, s \in S
  <2>1. Append(s, Order[n]) \in S
    BY <1>0, AppendProperties
  <2> HIDE DEF Adds, N, S
  <2>2. step[<<n, s>>] = IF Adds(n) THEN Append(s, Order[n]) ELSE s
    OBVIOUS
  <2>3. QED
    BY <2>1, <2>2
<1>2. Cells!Steps(N, S, <<>>, step)
  <2>1. <<>> \in S
    BY EmptySeq
  <2> HIDE DEF step, N, S
  <2>2. QED
    BY <1>0, <1>1, <2>1 DEF Cells!Steps
<1>3. PICK g : Cells!Recurs(g, N, S, <<>>, step)
  BY <1>2, Cells!RecursionExists
<1>4. ASSUME NEW f PROVE /\ D(f)[0] = <<>> /\ Cells!OfNumbers(D(f), N) /\ DOMAIN D(f) = 0..N
                         /\ \A n \in 1..N : D(f)[n] = IF Adds(n) THEN Append(f[n - 1], Order[n]) ELSE f[n - 1]
  <2>1. D(f)[0] = <<>> /\ DOMAIN D(f) = 0..N
    BY <1>0
  <2>2. \A n \in 1..N : D(f)[n] = IF Adds(n) THEN Append(f[n - 1], Order[n]) ELSE f[n - 1]
    BY <1>0
  <2>3. Cells!OfNumbers(D(f), N)
    BY DEF Cells!OfNumbers
  <2>4. QED
    BY <2>1, <2>2, <2>3
<1> HIDE DEF D
<1>5. g = D(g)
  <2>1. g \in [0..N -> S] /\ g[0] = <<>> /\ \A n \in 1..N : g[n] = step[<<n, g[n - 1]>>]
    BY <1>3 DEF Cells!Recurs
  <2>2. g = [n \in 0..N |-> g[n]] /\ D(g) = [n \in 0..N |-> D(g)[n]]
    <3>1. g = [n \in 0..N |-> g[n]]
      BY <2>1
    <3>2. D(g) = [n \in 0..N |-> D(g)[n]]
      BY <1>4 DEF Cells!OfNumbers
    <3>3. QED
      BY <3>1, <3>2
  <2> HIDE DEF step, N, Adds, S
  <2>3. \A n \in 0..N : n = 0 \/ n \in 1..N
    BY <1>0
  <2>4. \A n \in 1..N : g[n - 1] \in S
    BY <1>0, <2>1
  <2>5. \A n \in 0..N : g[n] = D(g)[n]
    <3>1. \A n \in 1..N : g[n] = IF Adds(n) THEN Append(g[n - 1], Order[n]) ELSE g[n - 1]
      BY <1>1, <2>1, <2>4
    <3>2. \A n \in 1..N : g[n] = D(g)[n]
      BY <1>4, <3>1
    <3>3. g[0] = D(g)[0]
      BY <1>4, <2>1
    <3>4. QED
      BY <2>3, <3>2, <3>3
  <2>6. QED
    BY <2>2, <2>5, Zenon
<1>6. SideTo(side) = CHOOSE f : f = D(f)
  BY DEF SideTo, D
<1>7. SideTo(side) = D(SideTo(side))
  BY <1>5, <1>6
<1> DEFINE f == SideTo(side)
<1>8. Cells!Recurs(f, N, S, <<>>, step)
  <2> HIDE DEF step, N, f, Adds, S
  <2>1. \A n \in 1..N : f[n - 1] \in S => f[n] = step[<<n, f[n - 1]>>]
    BY <1>1, <1>4, <1>7 DEF f
  <2>2. f[0] = <<>> /\ Cells!OfNumbers(f, N)
    BY <1>4, <1>7 DEF f
  <2>3. QED
    BY <1>2, <2>1, <2>2, RecursOnly
<1>9. f \in [0..N -> S] /\ f[0] = <<>>
  <2> HIDE DEF step, f, S
  <2>1. QED
    BY <1>8 DEF Cells!Recurs
<1>10. \A n \in 1..N : f[n] = IF Adds(n) THEN Append(f[n - 1], Order[n]) ELSE f[n - 1]
  <2> HIDE DEF step, f, S, N, Adds
  <2>1. QED
    BY <1>4, <1>7 DEF f
<1>11. QED
  BY <1>9, <1>10 DEF AddsColumns

LEMMA SideWhole == \A side : Body!Side(side) = SideTo(side)[Len(Order)]
  BY DEF Body!Side, SideTo

ColumnsTyped == pin \in [Body!Columns -> Body!Sides] /\ hidden \subseteq Body!Columns

\* Every column is on one side or hidden.
UpTo(n) == {Order[i] : i \in 1..n}
\* Of the first n columns each is on one side or hidden.
Counted(n, s, c, e) ==
  /\ IsFiniteSet(UpTo(n)) /\ Cardinality(UpTo(n)) = n
  /\ IsFiniteSet(UpTo(n) \cap hidden)
  /\ Len(s) + Len(c) + Len(e) + Cardinality(UpTo(n) \cap hidden) = n

\* The three sides and the hidden columns make up the order,
LEMMA SidesCount ==
  ASSUME Body!GridBodyAssumption, ColumnsTyped
  PROVE  Counted(Len(Order), Body!Side("start"), Body!Side("center"), Body!Side("end"))
<1> DEFINE N == Len(Order)
           s == SideTo("start")
           c == SideTo("center")
           e == SideTo("end")
           T == {n \in 0..N : Counted(n, s[n], c[n], e[n])}
<1>0. N \in Nat /\ \A n \in 1..N : Order[n] \in Body!Columns
  BY OrderIs
<1>1. AddsColumns(s, "start") /\ AddsColumns(c, "center") /\ AddsColumns(e, "end")
  BY SideIs
<1> HIDE DEF s, c, e
<1>2. Counted(0, s[0], c[0], e[0])
  <2>1. UpTo(0) = {} /\ UpTo(0) \cap hidden = {}
    BY DEF UpTo
  <2>2. s[0] = <<>> /\ c[0] = <<>> /\ e[0] = <<>>
    BY <1>1 DEF AddsColumns
  <2>3. Len(s[0]) = 0 /\ Len(c[0]) = 0 /\ Len(e[0]) = 0
    BY <2>2
  <2>4. /\ IsFiniteSet(UpTo(0)) /\ Cardinality(UpTo(0)) = 0
        /\ IsFiniteSet(UpTo(0) \cap hidden) /\ Cardinality(UpTo(0) \cap hidden) = 0
    BY <2>1, FS_EmptySet
  <2>5. QED
    BY <2>3, <2>4 DEF Counted
<1>3. ASSUME NEW n \in 1..N, Counted(n - 1, s[n - 1], c[n - 1], e[n - 1])
      PROVE  Counted(n, s[n], c[n], e[n])
  <2> DEFINE o == Order[n]
             A == UpTo(n - 1)
             H == UpTo(n - 1) \cap hidden
  <2>1. o \in Body!Columns /\ pin[o] \in {"start", "center", "end"}
    BY <1>0 DEF ColumnsTyped, Body!Sides
  <2>2. UpTo(n) = A \cup {o} /\ o \notin A
    <3>1. 1..n = (1..(n - 1)) \cup {n}
      BY <1>0
    <3>2. UpTo(n) = A \cup {o}
      BY <3>1 DEF UpTo
    <3>3. \A i \in 1..(n - 1) : Order[i] # o
      BY <1>0, OrderIs
    <3>4. QED
      BY <3>2, <3>3 DEF UpTo
  <2>3. /\ IsFiniteSet(A) /\ Cardinality(A) = n - 1 /\ IsFiniteSet(H)
        /\ Len(s[n - 1]) + Len(c[n - 1]) + Len(e[n - 1]) + Cardinality(H) = n - 1
    BY <1>3 DEF Counted
  <2>4. IsFiniteSet(UpTo(n)) /\ Cardinality(UpTo(n)) = n
    <3>1. IsFiniteSet(A \cup {o}) /\ Cardinality(A \cup {o}) = Cardinality(A) + 1
      <4> HIDE DEF A, o
      <4>1. QED
        BY <2>2, <2>3, FS_AddElement
    <3>2. QED
      BY <2>2, <2>3, <3>1
  <2>5. /\ s[n - 1] \in Seq(Body!Columns) /\ c[n - 1] \in Seq(Body!Columns) /\ e[n - 1] \in Seq(Body!Columns)
        /\ s[n] = IF o \notin hidden /\ pin[o] = "start" THEN Append(s[n - 1], o) ELSE s[n - 1]
        /\ c[n] = IF o \notin hidden /\ pin[o] = "center" THEN Append(c[n - 1], o) ELSE c[n - 1]
        /\ e[n] = IF o \notin hidden /\ pin[o] = "end" THEN Append(e[n - 1], o) ELSE e[n - 1]
    <3>1. n - 1 \in 0..N
      BY <1>0
    <3>2. QED
      BY <1>1, <3>1 DEF AddsColumns
  <2>6. Cardinality(H) \in Nat
    BY <2>3, FS_CardinalityType
  <2>7. /\ Len(s[n - 1]) \in Nat /\ Len(c[n - 1]) \in Nat /\ Len(e[n - 1]) \in Nat
        /\ Len(Append(s[n - 1], o)) = Len(s[n - 1]) + 1
        /\ Len(Append(c[n - 1], o)) = Len(c[n - 1]) + 1
        /\ Len(Append(e[n - 1], o)) = Len(e[n - 1]) + 1
    BY <2>1, <2>5, AppendProperties, LenProperties
  <2> DEFINE ls == Len(s[n - 1])
             lc == Len(c[n - 1])
             le == Len(e[n - 1])
             h == Cardinality(H)
  <2>71. ls \in Nat /\ lc \in Nat /\ le \in Nat /\ h \in Nat /\ ls + lc + le + h = n - 1
    BY <2>3, <2>6, <2>7
  <2> HIDE DEF o, A
  <2>8. CASE o \in hidden
    <3>1. UpTo(n) \cap hidden = H \cup {o} /\ o \notin H
      BY <2>2, <2>8 DEF A
    <3>2. IsFiniteSet(H \cup {o}) /\ Cardinality(H \cup {o}) = Cardinality(H) + 1
      <4> HIDE DEF H
      <4>1. QED
        BY <2>3, <3>1, FS_AddElement
    <3> HIDE DEF H
    <3>3. s[n] = s[n - 1] /\ c[n] = c[n - 1] /\ e[n] = e[n - 1]
      BY <2>5, <2>8
    <3>31. /\ Len(s[n]) = ls /\ Len(c[n]) = lc /\ Len(e[n]) = le
           /\ Cardinality(UpTo(n) \cap hidden) = h + 1
      BY <3>1, <3>2, <3>3
    <3>4. Len(s[n]) + Len(c[n]) + Len(e[n]) + Cardinality(UpTo(n) \cap hidden) = n
      <4> HIDE DEF ls, lc, le, h
      <4>1. QED
        BY <1>0, <2>71, <3>31
    <3>5. QED
      BY <2>4, <3>1, <3>2, <3>4 DEF Counted
  <2>9. CASE o \notin hidden
    <3>1. UpTo(n) \cap hidden = H
      BY <2>2, <2>9 DEF A
    <3> HIDE DEF H
    <3>2. \/ Len(s[n]) = ls + 1 /\ Len(c[n]) = lc /\ Len(e[n]) = le
          \/ Len(s[n]) = ls /\ Len(c[n]) = lc + 1 /\ Len(e[n]) = le
          \/ Len(s[n]) = ls /\ Len(c[n]) = lc /\ Len(e[n]) = le + 1
      <4>1. CASE pin[o] = "start"
        BY <2>5, <2>7, <2>9, <4>1
      <4>2. CASE pin[o] = "center"
        BY <2>5, <2>7, <2>9, <4>2
      <4>3. CASE pin[o] = "end"
        BY <2>5, <2>7, <2>9, <4>3
      <4>4. QED
        BY <2>1, <4>1, <4>2, <4>3
    <3>21. Cardinality(UpTo(n) \cap hidden) = h
      BY <3>1
    <3>3. Len(s[n]) + Len(c[n]) + Len(e[n]) + Cardinality(UpTo(n) \cap hidden) = n
      <4> DEFINE total(a, b, d, x) == a + b + d + x
      <4>1. /\ total(ls + 1, lc, le, h) = n /\ total(ls, lc + 1, le, h) = n
            /\ total(ls, lc, le + 1, h) = n
        <5> HIDE DEF ls, lc, le, h
        <5>1. QED
          BY <1>0, <2>71
      <4>2. total(Len(s[n]), Len(c[n]), Len(e[n]), Cardinality(UpTo(n) \cap hidden)) = n
        <5> HIDE DEF ls, lc, le, h, total
        <5>1. QED
          BY <3>2, <3>21, <4>1
      <4>3. QED
        BY <4>2
    <3>4. QED
      BY <2>3, <2>4, <3>1, <3>3 DEF Counted
  <2>10. QED
    BY <2>8, <2>9
<1>4. \A n \in 0..N : n \in T
  <2>1. 0 \in T
    BY <1>0, <1>2
  <2>2. ASSUME NEW n \in 1..N, n - 1 \in T PROVE n \in T
    <3>1. Counted(n - 1, s[n - 1], c[n - 1], e[n - 1])
      BY <2>2
    <3>2. QED
      BY <1>0, <1>3, <3>1
  <2> HIDE DEF T
  <2>3. QED
    BY <1>0, <2>1, <2>2, Cells!Climb
<1>5. Counted(N, s[N], c[N], e[N])
  BY <1>0, <1>4
<1>6. QED
  BY <1>5, SideWhole DEF s, c, e

\* How many columns are shown.

\* so the sides are as long together as there are visible columns.
LEMMA ShownCount ==
  ASSUME Body!GridBodyAssumption, ColumnsTyped
  PROVE  /\ Body!Side("start") \in Seq(Labels) /\ Body!Side("center") \in Seq(Labels)
         /\ Body!Side("end") \in Seq(Labels)
         /\ Len(Body!Side("start")) + Len(Body!Side("center")) + Len(Body!Side("end"))
              = Len(Order) - Body!Cardinality(hidden)
         /\ Body!Cardinality(Body!Columns \ hidden) = Len(Order) - Body!Cardinality(hidden)
         /\ Body!Cardinality(hidden) \in Nat
<1>1. \A S : Body!Cardinality(S) = Cardinality(S)
  BY DEF Body!Cardinality, Cardinality
<1>2. UpTo(Len(Order)) = Body!Columns
  BY OrderIs DEF UpTo
<1>3. UpTo(Len(Order)) \cap hidden = hidden
  BY <1>2 DEF ColumnsTyped
<1>4. /\ IsFiniteSet(Body!Columns) /\ Cardinality(Body!Columns) = Len(Order)
      /\ Len(Body!Side("start")) + Len(Body!Side("center")) + Len(Body!Side("end")) + Cardinality(hidden)
           = Len(Order)
      /\ IsFiniteSet(hidden)
  BY <1>2, <1>3, SidesCount DEF Counted
<1>5. Cardinality(hidden) \in Nat /\ Len(Order) \in Nat
  BY <1>4, FS_CardinalityType, OrderIs
<1>6. \A side : Body!Side(side) \in Seq(Body!Columns)
  <2> TAKE side
  <2>1. Len(Order) \in 0..Len(Order)
    BY <1>5
  <2>2. SideTo(side) \in [0..Len(Order) -> Seq(Body!Columns)]
    BY SideIs DEF AddsColumns
  <2>3. SideTo(side)[Len(Order)] \in Seq(Body!Columns)
    BY <2>1, <2>2
  <2>4. QED
    BY <2>3, SideWhole
<1>7. \A side : Body!Side(side) \in Seq(Labels) /\ Len(Body!Side(side)) \in Nat
  BY <1>6, LenProperties DEF Labels
<1>8. Cardinality(Body!Columns \ hidden) = Cardinality(Body!Columns) - Cardinality(hidden)
  <2>1. Body!Columns \cap hidden = hidden
    BY DEF ColumnsTyped
  <2>2. Cardinality(Body!Columns \ hidden) = Cardinality(Body!Columns) - Cardinality(Body!Columns \cap hidden)
    BY <1>4, FS_Difference
  <2>3. QED
    BY <2>1, <2>2
<1>9. QED
  BY <1>1, <1>4, <1>5, <1>7, <1>8

------------------------------------------------------------------------------

\* The filler strip goes to the same place in the rows as in the colgroup.
LEMMA FillFits ==
  ASSUME NEW front, NEW end, NEW before, NEW after, Fits(front, before), Fits(end, after)
  PROVE  Fits(Body!WithFill(front, Body!Wide("fill", 1), end), Body!WithFill(before, <<"fill">>, after))
<1>1. Fits(Body!Wide("fill", 1), <<"fill">>)
  <2>1. "fill" \in Labels /\ <<"fill">> \in Seq(Labels) /\ Len(<<"fill">>) = 1 /\ <<"fill">>[1] = "fill"
    BY DEF Labels
  <2>2. QED
    BY <2>1, WideFits
<1>2. Fits(front \o end, before \o after)
  BY FitsBoth
<1>3. Fits((front \o Body!Wide("fill", 1)) \o end, (before \o <<"fill">>) \o after)
  BY <1>1, FitsBoth
<1>4. Fits((front \o end) \o Body!Wide("fill", 1), (before \o after) \o <<"fill">>)
  BY <1>1, <1>2, FitsBoth
<1>5. QED
  BY <1>2, <1>3, <1>4 DEF Body!WithFill

LEMMA ColGroupIs ==
  Body!ColGroup = Body!WithFill(Body!Side("start") \o Body!Side("center"), <<"fill">>, Body!Side("end"))
BY DEF Body!ColGroup, Body!WithFill

\* What two sequences in a row have where.
LEMMA BothHave ==
  ASSUME NEW S, NEW p \in Seq(S), NEW d \in Seq(S), NEW m, NEW n, Len(p) = m, Len(d) = n
  PROVE  /\ p \o d \in Seq(S) /\ Len(p \o d) = m + n
         /\ \A k \in 1..m : (p \o d)[k] = p[k]
         /\ \A k \in 1..n : (p \o d)[m + k] = d[k]
<1>1. /\ p \o d \in Seq(S) /\ Len(p \o d) = Len(p) + Len(d)
      /\ \A i \in 1..Len(p) : (p \o d)[i] = p[i]
      /\ \A i \in 1..Len(d) : (p \o d)[Len(p) + i] = d[i]
  <2> DEFINE q == p \o d
             lp == Len(p)
             ld == Len(d)
  <2>1. /\ q \in Seq(S) /\ Len(q) = lp + ld
        /\ \A i \in 1..(lp + ld) : q[i] = IF i <= lp THEN p[i] ELSE d[i - lp]
    BY ConcatProperties
  <2>2. lp \in Nat /\ ld \in Nat
    BY LenProperties
  <2> HIDE DEF q, lp, ld
  <2>3. \A i \in 1..lp : q[i] = p[i]
    BY <2>1, <2>2
  <2>4. ASSUME NEW i \in 1..ld PROVE q[lp + i] = d[i]
    <3>1. lp + i \in 1..(lp + ld) /\ ~(lp + i <= lp) /\ (lp + i) - lp = i
      BY <2>2
    <3>2. QED
      BY <2>1, <3>1
  <2>5. QED
    BY <2>1, <2>3, <2>4 DEF q, lp, ld
<1>2. QED
  BY <1>1

LEMMA BothLong ==
  ASSUME NEW S, NEW p \in Seq(S), NEW d \in Seq(S)
  PROVE  p \o d \in Seq(S) /\ Len(p \o d) = Len(p) + Len(d)
BY BothHave

\* A window of n columns.
IsWindow(w, n) == w = <<>> \/ (w \in (1..n) \X (1..n) /\ w[1] <= w[2])

\* A window of the columns, with spacers for those before and behind it, fits them.
LEMMA WindowFits ==
  ASSUME Body!GridBodyAssumption, NEW columns \in Seq(Labels), NEW w, IsWindow(w, Len(columns))
  PROVE  Fits(Body!Windowed(columns, w), columns)
<1>1. CASE w = <<>>
  BY <1>1, CellsFit DEF Body!Windowed
<1>2. CASE w # <<>>
  <2> DEFINE N == Len(columns)
             i == w[1]
             j == w[2]
             a == SubSeq(columns, 1, i - 1)
             b == SubSeq(columns, i, j)
             d == SubSeq(columns, j + 1, N)
  <2>1. N \in Nat /\ i \in 1..N /\ j \in 1..N /\ i <= j
    BY <1>2, LenProperties DEF IsWindow
  <2>2. Body!Min({j, N}) = j
    <3>1. j \in Int /\ N \in Int /\ j <= N
      BY <2>1
    <3> HIDE DEF j, N
    <3>2. \A k \in {j, N} : j <= k
      BY <3>1
    <3>3. \A m \in {j, N} : (\A k \in {j, N} : m <= k) => m = j
      BY <3>1
    <3>4. Body!Min({j, N}) = CHOOSE m \in {j, N} : \A k \in {j, N} : m <= k
      BY DEF Body!Min
    <3>5. QED
      BY <3>2, <3>3, <3>4
  <2>3. Body!Windowed(columns, w) = (Body!Wide("spacer", i - 1) \o Body!Cells(b)) \o Body!Wide("spacer", N - j)
    BY <1>2, <2>2 DEF Body!Windowed
  <2> HIDE DEF i, j, N
  <2>4. /\ a \in Seq(Labels) /\ Len(a) = i - 1 /\ b \in Seq(Labels) /\ Len(b) = j - i + 1
        /\ d \in Seq(Labels) /\ Len(d) = N - j
        /\ \A k \in 1..(i - 1) : a[k] = columns[k]
        /\ \A k \in 1..(j - i + 1) : b[k] = columns[i + k - 1]
        /\ \A k \in 1..(N - j) : d[k] = columns[j + k]
    <3>1. \A k \in 1..N : columns[k] \in Labels
      BY ElementOfSeq DEF N
    <3>2. a = [k \in 1..(i - 1) |-> columns[k]]
      BY <2>1
    <3>3. b = [k \in 1..(j - i + 1) |-> columns[i + k - 1]]
      BY <2>1
    <3>4. d = [k \in 1..(N - j) |-> columns[j + k]]
      BY <2>1
    <3> HIDE DEF a, b, d
    <3>5. a \in Seq(Labels) /\ Len(a) = i - 1
      <4>1. i - 1 \in Nat /\ a \in [1..(i - 1) -> Labels]
        BY <2>1, <3>1, <3>2
      <4>2. QED
        BY <4>1
    <3>6. b \in Seq(Labels) /\ Len(b) = j - i + 1
      <4>1. j - i + 1 \in Nat /\ b \in [1..(j - i + 1) -> Labels]
        BY <2>1, <3>1, <3>3
      <4>2. QED
        BY <4>1
    <3>7. d \in Seq(Labels) /\ Len(d) = N - j
      <4>1. N - j \in Nat /\ d \in [1..(N - j) -> Labels]
        BY <2>1, <3>1, <3>4
      <4>2. QED
        BY <4>1
    <3>8. QED
      BY <3>2, <3>3, <3>4, <3>5, <3>6, <3>7
  <2> HIDE DEF a, b, d
  <2>5. columns = (a \o b) \o d
    <3> DEFINE q == (a \o b) \o d
    <3>1. /\ a \o b \in Seq(Labels) /\ Len(a \o b) = j
          /\ \A k \in 1..(i - 1) : (a \o b)[k] = a[k]
          /\ \A k \in 1..(j - i + 1) : (a \o b)[i - 1 + k] = b[k]
      <4>1. /\ a \o b \in Seq(Labels) /\ Len(a \o b) = (i - 1) + (j - i + 1)
            /\ \A k \in 1..(i - 1) : (a \o b)[k] = a[k]
            /\ \A k \in 1..(j - i + 1) : (a \o b)[(i - 1) + k] = b[k]
        BY <2>4, BothHave
      <4>2. (i - 1) + (j - i + 1) = j
        BY <2>1
      <4>3. QED
        BY <4>1, <4>2
    <3>2. /\ q \in Seq(Labels) /\ Len(q) = N
          /\ \A k \in 1..j : q[k] = (a \o b)[k]
          /\ \A k \in 1..(N - j) : q[j + k] = d[k]
      <4> DEFINE p == a \o b
      <4> HIDE DEF p
      <4>1. p \in Seq(Labels) /\ Len(p) = j
        BY <3>1 DEF p
      <4>2. /\ p \o d \in Seq(Labels) /\ Len(p \o d) = N
            /\ \A k \in 1..j : (p \o d)[k] = p[k]
            /\ \A k \in 1..(N - j) : (p \o d)[j + k] = d[k]
        <5>1. /\ p \o d \in Seq(Labels) /\ Len(p \o d) = j + (N - j)
              /\ \A k \in 1..j : (p \o d)[k] = p[k]
              /\ \A k \in 1..(N - j) : (p \o d)[j + k] = d[k]
          BY <2>4, <4>1, BothHave
        <5>2. j + (N - j) = N
          BY <2>1
        <5>3. QED
          BY <5>1, <5>2
      <4>3. QED
        BY <4>2 DEF p
    <3> HIDE DEF q
    <3>3. \A k \in 1..N : q[k] = columns[k]
      <4> TAKE k \in 1..N
      <4>1. CASE k < i
        <5>1. k \in 1..(i - 1) /\ k \in 1..j
          BY <2>1, <4>1
        <5>2. a[k] = columns[k]
          BY <2>4, <5>1
        <5>3. (a \o b)[k] = a[k]
          BY <3>1, <5>1
        <5>4. q[k] = (a \o b)[k]
          BY <3>2, <5>1
        <5>5. QED
          BY <5>2, <5>3, <5>4
      <4>2. CASE i <= k /\ k <= j
        <5>1. PICK m \in 1..(j - i + 1) : k = i - 1 + m /\ k = i + m - 1
          <6>1. k - i + 1 \in 1..(j - i + 1) /\ k = i - 1 + (k - i + 1) /\ k = i + (k - i + 1) - 1
            BY <2>1, <4>2
          <6>2. QED
            BY <6>1
        <5>2. q[k] = (a \o b)[k] /\ (a \o b)[i - 1 + m] = b[m] /\ b[m] = columns[i + m - 1]
          <6>1. k \in 1..j
            BY <4>2
          <6>2. q[k] = (a \o b)[k]
            BY <3>2, <6>1
          <6>3. (a \o b)[i - 1 + m] = b[m]
            BY <3>1
          <6>4. b[m] = columns[i + m - 1]
            BY <2>4
          <6>5. QED
            BY <6>2, <6>3, <6>4
        <5>3. QED
          BY <5>1, <5>2
      <4>3. CASE j < k
        <5>1. PICK m \in 1..(N - j) : k = j + m
          <6>1. k - j \in 1..(N - j) /\ k = j + (k - j)
            BY <2>1, <4>3
          <6>2. QED
            BY <6>1
        <5>2. QED
          BY <2>4, <3>2, <5>1
      <4>4. QED
        BY <2>1, <4>1, <4>2, <4>3
    <3>4. q = columns
      BY <3>2, <3>3, SeqEqual DEF N
    <3>5. QED
      BY <3>4 DEF q
  <2>6. "spacer" \in Labels /\ "spacer" \notin Body!Columns \cup {"fill"}
    BY DEF Labels, Body!GridBodyAssumption
  <2>7. Fits(Body!Wide("spacer", i - 1), a) /\ Fits(Body!Wide("spacer", N - j), d)
    <3>1. i - 1 \in Nat /\ N - j \in Nat
      BY <2>1
    <3>2. QED
      BY <2>4, <2>6, <3>1, WideFits
  <2>8. Fits(Body!Cells(b), b)
    BY <2>4, CellsFit
  <2>9. Fits((Body!Wide("spacer", i - 1) \o Body!Cells(b)) \o Body!Wide("spacer", N - j), (a \o b) \o d)
    BY <2>7, <2>8, FitsBoth
  <2>10. QED
    BY <2>3, <2>5, <2>9
<1>3. QED
  BY <1>1, <1>2

\* What does not show a column stands anywhere.

\* A row without cells of its own columns fits any columns of that number.
LEMMA OnlyNumber ==
  ASSUME NEW row, NEW c, NEW d, Fits(row, c), d \in Seq(Labels), Len(d) = Len(c),
         \A i \in 1..Len(row) : row[i][1] \notin Body!Columns \cup {"fill"}
  PROVE  Fits(row, d)
BY DEF Fits

\* How many columns the colgroup has.
LEMMA ColGroupCount ==
  ASSUME Body!GridBodyAssumption, ColumnsTyped
  PROVE  /\ Body!ColGroup \in Seq(Labels) /\ Len(Body!ColGroup) \in Nat
         /\ Len(Body!ColGroup) = Len(Order) - Body!Cardinality(hidden) + (IF resizable THEN 1 ELSE 0)
         /\ Body!Side("center") # <<>> => Len(Body!ColGroup) >= 1
<1> DEFINE s == Body!Side("start")
           c == Body!Side("center")
           e == Body!Side("end")
           n == Len(Order) - Body!Cardinality(hidden)
<1>1. /\ s \in Seq(Labels) /\ c \in Seq(Labels) /\ e \in Seq(Labels) /\ Len(s) + Len(c) + Len(e) = n
      /\ Len(s) \in Nat /\ Len(c) \in Nat /\ Len(e) \in Nat /\ n \in Nat /\ (c # <<>> => Len(c) >= 1)
  <2>1. /\ s \in Seq(Labels) /\ c \in Seq(Labels) /\ e \in Seq(Labels)
        /\ Len(s) + Len(c) + Len(e) = n
    BY ShownCount
  <2> HIDE DEF s, c, e, n
  <2>2. Len(s) \in Nat /\ Len(c) \in Nat /\ Len(e) \in Nat
    BY <2>1, LenProperties
  <2>3. n \in Nat
    BY <2>1, <2>2
  <2>4. c # <<>> => Len(c) # 0
    BY <2>1, EmptySeq
  <2>5. QED
    BY <2>1, <2>2, <2>3, <2>4
<1>2. Body!ColGroup = IF ~resizable THEN (s \o c) \o e
                      ELSE IF Body!EndPinned THEN ((s \o c) \o <<"fill">>) \o e
                      ELSE ((s \o c) \o e) \o <<"fill">>
  BY DEF Body!ColGroup
<1> HIDE DEF s, c, e, n
<1>3. <<"fill">> \in Seq(Labels) /\ Len(<<"fill">>) = 1
  BY DEF Labels
<1> DEFINE f == <<"fill">>
<1> HIDE DEF f
<1>4. s \o c \in Seq(Labels) /\ Len(s \o c) = Len(s) + Len(c)
  BY <1>1, BothHave
<1> DEFINE sc == s \o c
<1> HIDE DEF sc
<1>5. /\ sc \o e \in Seq(Labels) /\ Len(sc \o e) = Len(sc) + Len(e)
      /\ sc \o f \in Seq(Labels) /\ Len(sc \o f) = Len(sc) + 1
  BY <1>1, <1>3, <1>4, BothHave DEF sc, f
<1>6. /\ (sc \o f) \o e \in Seq(Labels) /\ Len((sc \o f) \o e) = Len(sc \o f) + Len(e)
      /\ (sc \o e) \o f \in Seq(Labels) /\ Len((sc \o e) \o f) = Len(sc \o e) + Len(f)
      /\ Len(f) = 1
  <2>1. f \in Seq(Labels) /\ Len(f) = 1
    BY <1>3 DEF f
  <2> DEFINE scf == sc \o f
             sce == sc \o e
  <2>2. scf \in Seq(Labels) /\ sce \in Seq(Labels)
    BY <1>5
  <2> HIDE DEF scf, sce
  <2>3. scf \o e \in Seq(Labels) /\ Len(scf \o e) = Len(scf) + Len(e)
    BY <1>1, <2>2, BothLong
  <2>4. sce \o f \in Seq(Labels) /\ Len(sce \o f) = Len(sce) + Len(f)
    BY <2>1, <2>2, BothLong
  <2>5. QED
    BY <2>1, <2>3, <2>4 DEF scf, sce
<1>7. Body!ColGroup \in Seq(Labels) /\ Len(Body!ColGroup) = n + (IF resizable THEN 1 ELSE 0)
  <2>1. CASE ~resizable
    <3>1. Body!ColGroup = sc \o e
      BY <1>2, <2>1 DEF sc
    <3>2. QED
      BY <1>1, <1>4, <1>5, <2>1, <3>1 DEF sc
  <2>2. CASE resizable /\ Body!EndPinned
    <3>1. Body!ColGroup = (sc \o f) \o e
      BY <1>2, <2>2 DEF sc, f
    <3>2. QED
      BY <1>1, <1>4, <1>5, <1>6, <2>2, <3>1 DEF sc
  <2>3. CASE resizable /\ ~Body!EndPinned
    <3>1. Body!ColGroup = (sc \o e) \o f
      BY <1>2, <2>3 DEF sc, f
    <3>2. QED
      BY <1>1, <1>4, <1>5, <1>6, <2>3, <3>1 DEF sc
  <2>4. QED
    BY <2>1, <2>2, <2>3
<1>8. Len(Body!ColGroup) \in Nat /\ (c # <<>> => Len(Body!ColGroup) >= 1)
  BY <1>1, <1>7
<1>9. QED
  BY <1>7, <1>8 DEF c, n

\* Every row that the table may have fits its column group.

\* Rows of data fit the colgroup, but for draggable rows with the filler strip before
\* columns pinned to the end.
LEMMA DataRowFits ==
  ASSUME Body!GridBodyAssumption, ColumnsTyped, ~(view = "dnd" /\ resizable /\ Body!EndPinned),
         NEW w, IsWindow(w, Len(Body!Side("center")))
  PROVE  Fits(Body!DataRow(w), Body!ColGroup)
<1> DEFINE s == Body!Side("start")
           c == Body!Side("center")
           e == Body!Side("end")
<1>1. s \in Seq(Labels) /\ c \in Seq(Labels) /\ e \in Seq(Labels)
  BY ShownCount
<1>2. CASE view # "dnd"
  <2>1. Body!DataRow(w) = Body!WithFill(Body!Cells(s) \o Body!Windowed(c, w), Body!Wide("fill", 1), Body!Cells(e))
    BY <1>2 DEF Body!DataRow
  <2>2. Body!ColGroup = Body!WithFill(s \o c, <<"fill">>, e)
    BY ColGroupIs
  <2>3. Fits(Body!Windowed(c, w), c)
    BY <1>1, WindowFits
  <2> HIDE DEF s, c, e
  <2>4. Fits(Body!Cells(s) \o Body!Windowed(c, w), s \o c) /\ Fits(Body!Cells(e), e)
    BY <1>1, <2>3, CellsFit, FitsBoth
  <2>5. Fits(Body!WithFill(Body!Cells(s) \o Body!Windowed(c, w), Body!Wide("fill", 1), Body!Cells(e)),
             Body!WithFill(s \o c, <<"fill">>, e))
    BY <2>4, FillFits
  <2>6. QED
    BY <2>1, <2>2, <2>5
<1>3. CASE view = "dnd"
  <2> DEFINE all == (s \o c) \o e
  <2>1. Body!DataRow(w) = Body!FillAtEnd(Body!Cells(all))
    BY <1>3 DEF Body!DataRow, Body!DraggableRow
  <2>2. Body!ColGroup = IF resizable THEN all \o <<"fill">> ELSE all
    BY <1>3 DEF Body!ColGroup
  <2> HIDE DEF s, c, e
  <2>3. all \in Seq(Labels)
    BY <1>1, ConcatProperties
  <2> HIDE DEF all
  <2>4. Fits(Body!Cells(all), all)
    BY <2>3, CellsFit
  <2>5. Fits(Body!Cells(all) \o Body!Wide("fill", 1), all \o <<"fill">>)
    <3>1. Fits(Body!Wide("fill", 1), <<"fill">>)
      <4>1. "fill" \in Labels /\ <<"fill">> \in Seq(Labels) /\ Len(<<"fill">>) = 1 /\ <<"fill">>[1] = "fill"
        BY DEF Labels
      <4>2. QED
        BY <4>1, WideFits
    <3>2. QED
      BY <2>4, <3>1, FitsBoth
  <2>6. QED
    BY <2>1, <2>2, <2>4, <2>5 DEF Body!FillAtEnd
<1>4. QED
  BY <1>2, <1>3

LEMMA MaxOfOne == ASSUME NEW n \in Nat, n >= 1 PROVE Body!Max({n, 1}) = n
<1>1. \A m \in {n, 1} : n >= m
  OBVIOUS
<1>2. \A k \in {n, 1} : (\A m \in {n, 1} : k >= m) => k = n
  OBVIOUS
<1>3. Body!Max({n, 1}) = CHOOSE k \in {n, 1} : \A m \in {n, 1} : k >= m
  BY DEF Body!Max
<1>4. QED
  BY <1>1, <1>2, <1>3

\* Messages span all visible columns and the strip,
LEMMA WholeRowFits ==
  ASSUME Body!GridBodyAssumption, ColumnsTyped, Body!Side("center") # <<>>
  PROVE  Fits(Body!WholeRow, Body!ColGroup)
<1> DEFINE n == Len(Body!ColGroup)
<1>1. n \in Nat /\ n >= 1 /\ n = Len(Order) - Body!Cardinality(hidden) + (IF resizable THEN 1 ELSE 0)
  BY ColGroupCount
<1>2. Body!WholeRow = Body!Wide("all", Body!Max({n, 1}))
  <2> HIDE DEF n
  <2>1. QED
    BY <1>1 DEF Body!WholeRow
<1>3. Body!Max({n, 1}) = n
  BY <1>1, MaxOfOne
<1>4. "all" \in Labels /\ "all" \notin Body!Columns \cup {"fill"} /\ Body!ColGroup \in Seq(Labels)
  BY ColGroupCount DEF Labels, Body!GridBodyAssumption
<1>5. Fits(Body!Wide("all", n), Body!ColGroup)
  BY <1>1, <1>4, WideFits
<1>6. QED
  BY <1>2, <1>3, <1>5

\* as the rows above and below the data do,
LEMMA UtilityRowFits ==
  ASSUME Body!GridBodyAssumption, ColumnsTyped, Body!Side("center") # <<>>
  PROVE  Fits(Body!UtilityRow, Body!ColGroup)
<1> DEFINE s == Body!Side("start")
           c == Body!Side("center")
           e == Body!Side("end")
<1>1. s \in Seq(Labels) /\ c \in Seq(Labels) /\ e \in Seq(Labels) /\ Len(c) \in Nat /\ Len(c) >= 1
  <2>1. s \in Seq(Labels) /\ c \in Seq(Labels) /\ e \in Seq(Labels) /\ c # <<>>
    BY ShownCount
  <2> HIDE DEF s, c, e
  <2>2. Len(c) \in Nat /\ Len(c) # 0
    BY <2>1, LenProperties, EmptySeq
  <2>3. QED
    BY <2>1, <2>2
<1>2. Body!UtilityRow = Body!WithFill(Body!Cells(s) \o Body!Wide("note", Body!Max({Len(c), 1})),
                                      Body!Wide("fill", 1), Body!Cells(e))
  BY DEF Body!UtilityRow
<1>3. Body!ColGroup = Body!WithFill(s \o c, <<"fill">>, e)
  BY ColGroupIs
<1>4. "note" \in Labels /\ "note" \notin Body!Columns \cup {"fill"}
  BY DEF Labels, Body!GridBodyAssumption
<1> HIDE DEF s, c, e
<1>5. Body!Max({Len(c), 1}) = Len(c)
  BY <1>1, MaxOfOne
<1>6. Fits(Body!Wide("note", Len(c)), c)
  BY <1>1, <1>4, WideFits
<1>7. Fits(Body!Cells(s) \o Body!Wide("note", Len(c)), s \o c) /\ Fits(Body!Cells(e), e)
  BY <1>1, <1>6, CellsFit, FitsBoth
<1>8. Fits(Body!WithFill(Body!Cells(s) \o Body!Wide("note", Len(c)), Body!Wide("fill", 1), Body!Cells(e)),
           Body!WithFill(s \o c, <<"fill">>, e))
  BY <1>7, FillFits
<1>9. QED
  BY <1>2, <1>3, <1>5, <1>8

\* and the skeleton of draggable rows has a cell for each.
LEMMA SkeletonFits ==
  ASSUME Body!GridBodyAssumption, ColumnsTyped, ~(resizable /\ Body!EndPinned)
  PROVE  Fits(Body!DraggableSkeleton, Body!ColGroup)
<1> DEFINE s == Body!Side("start")
           c == Body!Side("center")
           e == Body!Side("end")
           all == (s \o c) \o e
           n == Body!Cardinality(Body!Columns \ hidden)
           bones == [i \in 1..n |-> "skeleton"]
           row == [i \in 1..n |-> <<"skeleton", 1>>]
<1>1. /\ s \in Seq(Labels) /\ c \in Seq(Labels) /\ e \in Seq(Labels)
      /\ Len(s) + Len(c) + Len(e) = n
  BY ShownCount
<1>2. Body!DraggableSkeleton = Body!FillAtEnd(row)
  BY DEF Body!DraggableSkeleton
<1>3. Body!ColGroup = IF resizable THEN all \o <<"fill">> ELSE all
  BY DEF Body!ColGroup
<1> HIDE DEF s, c, e, n
<1>4. all \in Seq(Labels) /\ Len(all) = n /\ n \in Nat
  <2>1. Len(s) \in Nat /\ Len(c) \in Nat /\ Len(e) \in Nat
    BY <1>1, LenProperties
  <2>2. s \o c \in Seq(Labels) /\ Len(s \o c) = Len(s) + Len(c)
    BY <1>1, BothHave
  <2> DEFINE sc == s \o c
  <2> HIDE DEF sc
  <2>3. sc \in Seq(Labels) /\ Len(sc) = Len(s) + Len(c)
    BY <2>2 DEF sc
  <2>4. sc \o e \in Seq(Labels) /\ Len(sc \o e) = Len(sc) + Len(e)
    <3>1. sc \in Seq(Labels)
      BY <2>3
    <3>2. QED
      BY <1>1, <3>1, BothLong
  <2>5. QED
    BY <1>1, <2>1, <2>3, <2>4 DEF sc
<1> HIDE DEF all
<1>5. bones \in Seq(Labels) /\ Len(bones) = n /\ DOMAIN bones = 1..n
  <2>1. bones \in [1..n -> Labels]
    BY DEF Labels
  <2> HIDE DEF bones
  <2>2. QED
    BY <1>4, <2>1
<1>6. Body!Cells(bones) = row
  <2>1. Body!Cells(bones) = [i \in 1..n |-> <<bones[i], 1>>]
    BY <1>5 DEF Body!Cells
  <2>2. \A i \in 1..n : bones[i] = "skeleton"
    OBVIOUS
  <2> HIDE DEF bones
  <2>3. QED
    BY <2>1, <2>2
<1>7. Fits(row, bones)
  <2>1. Fits(Body!Cells(bones), bones)
    BY <1>5, CellsFit
  <2>2. QED
    BY <1>6, <2>1
<1>8. Fits(row, all)
  <2>1. Len(row) = n /\ \A i \in 1..n : row[i][1] = "skeleton"
    BY <1>4
  <2>2. "skeleton" \notin Body!Columns \cup {"fill"}
    BY DEF Body!GridBodyAssumption
  <2>3. \A i \in 1..Len(row) : row[i][1] \notin Body!Columns \cup {"fill"}
    BY <2>1, <2>2
  <2> HIDE DEF row, bones
  <2>4. QED
    BY <1>4, <1>5, <1>7, <2>3, OnlyNumber
<1> HIDE DEF row
<1>9. Fits(row \o Body!Wide("fill", 1), all \o <<"fill">>)
  <2>1. Fits(Body!Wide("fill", 1), <<"fill">>)
    <3>1. "fill" \in Labels /\ <<"fill">> \in Seq(Labels) /\ Len(<<"fill">>) = 1 /\ <<"fill">>[1] = "fill"
      BY DEF Labels
    <3>2. QED
      BY <3>1, WideFits
  <2>2. QED
    BY <1>8, <2>1, FitsBoth
<1>10. QED
  BY <1>2, <1>3, <1>8, <1>9 DEF Body!FillAtEnd

------------------------------------------------------------------------------
(* What is shown *)

BodyTyped ==
  /\ view \in Views /\ ColumnsTyped /\ {filled, loading, expanded, offscreen, held} \subseteq BOOLEAN
  /\ window \in Body!Windows(Len(Body!Side("center"))) /\ acts \in 0..BodyMaxActs

\* RowsSpanTable is not inductive: whatever the body was rendered for last, its rows are made
\* for the columns of now, and for the window it was rendered with.
OldWindow(w) == w[1] \in Nat /\ w[2] \in Nat /\ 1 <= w[1] /\ w[1] <= w[2] /\ w = <<w[1], w[2]>>
TableRows ==
  {Body!WholeRow, Body!UtilityRow}
    \cup {IF view = "virtual" THEN Body!DataRow(bodyWindow) ELSE Body!DataRow(<<>>)}
    \cup (IF view = "dnd" THEN {Body!DraggableSkeleton} ELSE {})
BodyIsOfTable ==
  /\ bodyWindow # <<>> => view = "virtual" /\ OldWindow(bodyWindow)
  /\ body \subseteq TableRows

BodyInv == BodyTyped /\ BodyIsOfTable

LEMMA WindowsAre ==
  ASSUME NEW n \in Nat, NEW w \in Body!Windows(n)
  PROVE  /\ IsWindow(w, n) /\ (w # <<>> => view = "virtual")
         /\ w # <<>> => OldWindow(w) /\ w[2] <= n
<1>1. w = <<>> \/ (w \in (1..n) \X (1..n) /\ w[1] <= w[2] /\ view = "virtual")
  BY DEF Body!Windows
<1>2. QED
  BY <1>1 DEF IsWindow, OldWindow

\* Then every row that is shown spans the table.
LEMMA RowsSpan ==
  ASSUME Body!GridBodyAssumption, BodyInv
  PROVE  Body!RowsSpanTable
<1> DEFINE n == Len(Body!Side("center"))
<1> SUFFICES ASSUME Body!Side("center") # <<>>, ~(view = "dnd" /\ resizable /\ Body!EndPinned),
                    bodyWindow # <<>> => bodyWindow[2] <= n
             PROVE  \A row \in body \cup {Body!DataRow(window), Body!WholeRow} : Body!Aligned(row)
  BY DEF Body!RowsSpanTable
<1>1. ColumnsTyped /\ n \in Nat
  BY ShownCount, LenProperties DEF BodyInv, BodyTyped
<1>2. IsWindow(window, n)
  BY <1>1, WindowsAre DEF BodyInv, BodyTyped
<1>3. IsWindow(bodyWindow, n) /\ IsWindow(<<>>, n)
  <2>1. bodyWindow # <<>> => OldWindow(bodyWindow)
    BY DEF BodyInv, BodyIsOfTable
  <2> HIDE DEF n
  <2>2. ASSUME bodyWindow # <<>> PROVE bodyWindow \in (1..n) \X (1..n) /\ bodyWindow[1] <= bodyWindow[2]
    <3>1. bodyWindow[1] \in 1..n /\ bodyWindow[2] \in 1..n /\ bodyWindow[1] <= bodyWindow[2]
      BY <1>1, <2>1, <2>2 DEF OldWindow
    <3>2. bodyWindow = <<bodyWindow[1], bodyWindow[2]>>
      BY <2>1, <2>2 DEF OldWindow
    <3>3. QED
      BY <3>1, <3>2
  <2>3. QED
    BY <2>2 DEF IsWindow
<1>4. Fits(Body!WholeRow, Body!ColGroup) /\ Fits(Body!UtilityRow, Body!ColGroup)
  BY <1>1, WholeRowFits, UtilityRowFits
<1>5. /\ Fits(Body!DataRow(window), Body!ColGroup) /\ Fits(Body!DataRow(bodyWindow), Body!ColGroup)
      /\ Fits(Body!DataRow(<<>>), Body!ColGroup)
  BY <1>1, <1>2, <1>3, DataRowFits
<1>6. view = "dnd" => Fits(Body!DraggableSkeleton, Body!ColGroup)
  BY <1>1, SkeletonFits
<1>7. body \subseteq TableRows
  BY DEF BodyInv, BodyIsOfTable
<1>8. \A row \in body \cup {Body!DataRow(window), Body!WholeRow} : Fits(row, Body!ColGroup)
  BY <1>4, <1>5, <1>6, <1>7 DEF TableRows
<1>9. QED
  BY <1>8, FittingIsAligned

\* What a render leaves in the body.
LEMMA SameColumns ==
  ASSUME UNCHANGED <<pin, hidden>>
  PROVE  /\ Body!Side("start")' = Body!Side("start") /\ Body!Side("center")' = Body!Side("center")
         /\ Body!Side("end")' = Body!Side("end")
BY DEF Body!Side

\* Rows depend on what they are made of only.
LEMMA SameRows ==
  ASSUME UNCHANGED <<view, resizable, pin, hidden, bodyWindow>>
  PROVE  TableRows' = TableRows
<1>1. /\ Body!Side("start")' = Body!Side("start") /\ Body!Side("center")' = Body!Side("center")
      /\ Body!Side("end")' = Body!Side("end")
  BY SameColumns
<1>2. Body!WholeRow' = Body!WholeRow
  BY DEF Body!WholeRow
<1>3. Body!UtilityRow' = Body!UtilityRow
  BY <1>1 DEF Body!UtilityRow, Body!WithFill, Body!EndPinned
<1>4. Body!DraggableSkeleton' = Body!DraggableSkeleton
  BY DEF Body!DraggableSkeleton, Body!FillAtEnd
<1>5. Body!DataRow(bodyWindow)' = Body!DataRow(bodyWindow) /\ Body!DataRow(<<>>)' = Body!DataRow(<<>>)
  BY <1>1 DEF Body!DataRow, Body!DraggableRow, Body!FillAtEnd, Body!WithFill, Body!EndPinned, Body!Windowed
<1>6. QED
  BY <1>2, <1>3, <1>4, <1>5 DEF TableRows

LEMMA RenderedRows ==
  ASSUME body' = Body!Body', view' \in {"plain", "virtual", "dnd"}
  PROVE  body' \subseteq TableRows'
<1>1. CASE view' = "plain"
  BY <1>1 DEF Body!Body, Body!PlainBody, Body!LoadedBody, TableRows
<1>2. CASE view' = "virtual"
  BY <1>2 DEF Body!Body, Body!VirtualBody, TableRows
<1>3. CASE view' = "dnd"
  BY <1>3 DEF Body!Body, Body!DraggableBody, Body!LoadedBody, TableRows
<1>4. QED
  BY <1>1, <1>2, <1>3

LEMMA BodyTypedIs == ASSUME BodyInv PROVE Body!TypeOK
BY DEF BodyInv, BodyTyped, ColumnsTyped, Body!TypeOK

LEMMA InitBody == ASSUME Body!GridBodyAssumption, Body!Init PROVE BodyInv
<1>1. view \in Views /\ view \in {"plain", "virtual", "dnd"}
  BY DEF Body!Init, Body!GridBodyAssumption
<1>2. BodyTyped
  <2>1. ColumnsTyped
    BY DEF Body!Init, ColumnsTyped, Body!Sides
  <2>2. {filled, loading, expanded, offscreen, held} \subseteq BOOLEAN
    BY DEF Body!Init
  <2>3. window \in Body!Windows(Len(Body!Side("center")))
    BY DEF Body!Init, Body!Windows
  <2>4. acts \in 0..BodyMaxActs
    BY DEF Body!Init, Body!GridBodyAssumption
  <2>5. QED
    BY <1>1, <2>1, <2>2, <2>3, <2>4 DEF BodyTyped
<1>3. body \subseteq TableRows
  <2>1. CASE view = "plain"
    BY <2>1 DEF Body!Init, Body!Body, Body!PlainBody, Body!LoadedBody, TableRows
  <2>2. CASE view = "virtual"
    BY <2>2 DEF Body!Init, Body!Body, Body!VirtualBody, TableRows
  <2>3. CASE view = "dnd"
    BY <2>3 DEF Body!Init, Body!Body, Body!DraggableBody, Body!LoadedBody, TableRows
  <2>4. QED
    BY <1>1, <2>1, <2>2, <2>3
<1>4. QED
  BY <1>2, <1>3 DEF BodyInv, BodyIsOfTable, Body!Init

\* Each step ends with a render, or leaves alone what is rendered.
Rendering ==
  \/ Body!Render(TRUE)
  \/ UNCHANGED <<pin, hidden>> /\ Body!Render(FALSE)
  \/ UNCHANGED <<pin, hidden, window, body, bodyWindow>>

\* A step renders everything anew, or what has changed, or nothing.
LEMMA BodySteps ==
  ASSUME Body!GridBodyAssumption, BodyTyped, [Body!Next]_(Body!vars)
  PROVE  /\ UNCHANGED <<view, resizable>> /\ ColumnsTyped' /\ acts' \in 0..BodyMaxActs
         /\ {filled', loading', expanded', offscreen', held'} \subseteq BOOLEAN /\ Rendering
<1> USE DEF BodyTyped, ColumnsTyped, Rendering, Body!Act, Body!Props
<1>0. \A n \in 0..BodyMaxActs : n < BodyMaxActs => n + 1 \in 0..BodyMaxActs
  BY DEF Body!GridBodyAssumption
<1>1. CASE Body!Load \/ Body!Expand \/ Body!Scroll \/ Body!Hold \/ Body!Release
  BY <1>0, <1>1 DEF Body!Load, Body!Expand, Body!Scroll, Body!Hold, Body!Release
<1>2. CASE \E rows \in BOOLEAN : Body!Answer(rows) \/ Body!SetData(rows)
  BY <1>0, <1>2 DEF Body!Answer, Body!SetData
<1>3. CASE \E c \in Body!Columns : Body!ShowOrHide(c)
  BY <1>0, <1>3 DEF Body!ShowOrHide
<1>4. CASE \E c \in Body!Columns, side \in Body!Sides : Body!MoveColumn(c, side)
  BY <1>0, <1>4 DEF Body!MoveColumn
<1>5. CASE UNCHANGED Body!vars
  BY <1>5 DEF Body!vars
<1>6. QED
  BY <1>1, <1>2, <1>3, <1>4, <1>5 DEF Body!Next

\* Every step keeps the rows those of the columns: what changes columns renders all of
\* them.
LEMMA BodyKept ==
  ASSUME Body!GridBodyAssumption, BodyInv, [Body!Next]_(Body!vars)
  PROVE  BodyInv'
<1>0. /\ UNCHANGED <<view, resizable>> /\ ColumnsTyped' /\ acts' \in 0..BodyMaxActs
      /\ {filled', loading', expanded', offscreen', held'} \subseteq BOOLEAN /\ Rendering
  BY BodySteps DEF BodyInv
<1>1. CASE UNCHANGED <<pin, hidden, window, body, bodyWindow>>
  <2>1. TableRows' = TableRows /\ Body!Side("center")' = Body!Side("center")
    BY <1>0, <1>1, SameRows, SameColumns
  <2>2. BodyTyped'
    BY <1>0, <1>1, <2>1 DEF BodyInv, BodyTyped, Body!Windows
  <2>3. BodyIsOfTable'
    BY <1>0, <1>1, <2>1 DEF BodyInv, BodyIsOfTable, OldWindow
  <2>4. QED
    BY <2>2, <2>3 DEF BodyInv
<1>2. CASE Body!Render(TRUE) \/ (UNCHANGED <<pin, hidden>> /\ Body!Render(FALSE))
  <2>1. window' \in Body!Windows(Len(Body!Side("center")'))
    BY <1>2 DEF Body!Render
  <2>2. BodyTyped'
    BY <1>0, <2>1 DEF BodyInv, BodyTyped, Body!Windows
  <2>3. bodyWindow' = (IF held' THEN bodyWindow ELSE window')
    BY <1>2 DEF Body!Render, Body!RenderBody
  <2>4. bodyWindow' # <<>> => view' = "virtual" /\ OldWindow(bodyWindow')
    <3>1. bodyWindow # <<>> => view = "virtual" /\ OldWindow(bodyWindow)
      BY DEF BodyInv, BodyIsOfTable
    <3>2. window' # <<>> => view = "virtual" /\ OldWindow(window')
      BY <2>1 DEF Body!Windows, OldWindow
    <3>3. QED
      BY <1>0, <2>3, <3>1, <3>2
  <2>5. body' \subseteq TableRows'
    <3>1. CASE body' = Body!Body'
      <4>1. view' \in {"plain", "virtual", "dnd"}
        BY <1>0 DEF BodyInv, BodyTyped, Body!GridBodyAssumption
      <4>2. QED
        BY <3>1, <4>1, RenderedRows
    <3>2. CASE held' /\ UNCHANGED body /\ UNCHANGED <<pin, hidden>>
      <4>1. TableRows' = TableRows
        BY <1>0, <2>3, <3>2, SameRows
      <4>2. QED
        BY <3>2, <4>1 DEF BodyInv, BodyIsOfTable
    <3>3. QED
      BY <1>2, <3>1, <3>2 DEF Body!Render, Body!RenderBody
  <2>6. QED
    BY <2>2, <2>4, <2>5 DEF BodyInv, BodyIsOfTable
<1>3. QED
  BY <1>0, <1>1, <1>2 DEF Rendering

------------------------------------------------------------------------------
(* The theorems *)

\* The part a behaviour is about keeps its invariant.
\* The inductive invariant: what each part keeps, for the part that runs.
GridInv ==
  /\ unit = "cells" => CellsInv /\ Cells!CellsTyped
  /\ unit = "editor" => EditorInv /\ TimersAreLatest /\ EditorPlaced
  /\ unit = "widths" => WidthsInv /\ WidthsTyped
  /\ unit = "scrolling" => ScrollingInv /\ RowsAreLoaded
  /\ unit = "body" => BodyInv

LEMMA InitGrid == Init => GridInv
<1> SUFFICES ASSUME Init
             PROVE  GridInv
  OBVIOUS
<1>1. unit = "cells" => CellsInv /\ Cells!CellsTyped
  BY InitOfPart, InitCells, Cells!CellsTypedInit, InstancesAreSound
<1>2. unit = "editor" => EditorInv /\ TimersAreLatest /\ EditorPlaced
  <2>1. Editor!Init => TimersAreLatest
    BY DEF Editor!Init, TimersAreLatest
  <2>2. QED
    BY <2>1, InitOfPart, InitEditor, EditorPlacedInit, InstancesAreSound
<1>3. unit = "widths" => WidthsInv /\ WidthsTyped
  BY InitOfPart, InitWidths, WidthsTypedInit, InstancesAreSound
<1>4. unit = "scrolling" => ScrollingInv /\ RowsAreLoaded
  BY InitOfPart, InitScrolling, InitLoaded, InstancesAreSound
<1>5. unit = "body" => BodyInv
  BY InitOfPart, InitBody, InstancesAreSound
<1>6. QED
  BY <1>1, <1>2, <1>3, <1>4, <1>5 DEF GridInv

LEMMA GridKept == GridInv /\ [Next]_vars => GridInv'
<1> SUFFICES ASSUME GridInv, [Next]_vars
             PROVE  GridInv'
  OBVIOUS
<1>1. unit' = unit
  BY StepOfPart
<1>2. unit = "cells" => CellsInv' /\ Cells!CellsTyped'
  BY StepOfPart, CellsKept, Cells!CellsTypedStep, InstancesAreSound DEF GridInv
<1>3. unit = "editor" => EditorInv' /\ TimersAreLatest' /\ EditorPlaced'
  BY StepOfPart, EditorKept, TimersKept, EditorPlacedStep, InstancesAreSound DEF GridInv, EditorInv
<1>4. unit = "widths" => WidthsInv' /\ WidthsTyped'
  BY StepOfPart, WidthsStep, WidthsTypedStep, InstancesAreSound DEF GridInv
<1>5. unit = "scrolling" => ScrollingInv' /\ RowsAreLoaded'
  BY StepOfPart, ScrollingKept, RowsStayLoaded, InstancesAreSound DEF GridInv, ScrollingInv
<1>6. unit = "body" => BodyInv'
  BY StepOfPart, BodyKept, InstancesAreSound DEF GridInv
<1>7. QED
  BY <1>1, <1>2, <1>3, <1>4, <1>5, <1>6 DEF GridInv

LEMMA GridHolds == Spec => []GridInv
BY InitGrid, GridKept, PTL DEF Spec

\* Every part's state is one its code can be in: what is selected is of the grid, the clipboard
\* holds a text, there is one editor and one session at most, a width is a number, what is
\* mounted is loaded, and the window of columns is one of those there are (the state of
\* data-grid-cell-selection.tsx, data-grid-table.tsx and data-grid-table-virtual.tsx).
THEOREM GridTypeCorrect == Spec => []TypeOK
<1>1. GridInv => TypeOK
  <2> SUFFICES ASSUME GridInv
               PROVE  TypeOK
    OBVIOUS
  <2>1. unit = "cells" => Cells!TypeOK
    BY Cells!TypedImpliesTypeOK, InstancesAreSound DEF GridInv
  <2>2. unit = "editor" => Editor!TypeOK
    BY EditorTypedIs DEF GridInv, EditorInv
  <2>3. unit = "widths" => Widths!TypeOK
    BY WidthsTypedIs DEF GridInv
  <2>4. unit = "scrolling" => Scrolling!TypeOK
    BY ScrollingTyped DEF GridInv, ScrollingInv
  <2>5. unit = "body" => Body!TypeOK
    BY BodyTypedIs DEF GridInv
  <2>6. QED
    BY <2>1, <2>2, <2>3, <2>4, <2>5 DEF TypeOK
<1>2. QED
  BY <1>1, GridHolds, PTL

\* What is copied and pasted where it came from changes nothing, whatever the cells hold,
\* and rejects only what its column would not have accepted anyway
\* (serializeDataGridClipboardText, parseDataGridClipboardText, tileDataGridClipboardBlock).
THEOREM PastesAreCopies == Spec => []PasteIsCopy
<1>1. GridInv => PasteIsCopy
  BY Cells!CopiesPaste, InstancesAreSound DEF GridInv, PasteIsCopy
<1>2. QED
  BY <1>1, GridHolds, PTL

\* Every row of the table spans what its column group spans, also the rows that are there
\* for something else than data, whatever columns are pinned, hidden or scrolled out of sight
\* and whichever body is kept from an earlier render; the tables that GridBody names are
\* excepted (DataGridTableRenderedRow, the utility rows, the memoized body).
THEOREM RowsSpanTheTable == Spec => []RowsSpanTable
<1>1. GridInv => RowsSpanTable
  BY RowsSpan, InstancesAreSound DEF GridInv, RowsSpanTable
<1>2. QED
  BY <1>1, GridHolds, PTL

\* A batch can be taken back and done again, unless the rows of a fill were updated while
\* it was dragged (invertDataGridCellsChange).
THEOREM BatchesUndo == Spec => []UndoRestores
<1>1. GridInv => UndoRestores
  BY BatchComesBack DEF GridInv, UndoRestores
<1>2. QED
  BY <1>1, GridHolds, PTL

\* A batch writes only cells the user can see and may write, and what is deleted, cut or
\* filled is what was marked for it (getDataGridRenderedRowIds, applyPreview, finish).
THEOREM BatchesAreShown == Spec => []OnlyShownCellsChange
<1>1. GridInv => OnlyShownCellsChange
  BY DEF GridInv, CellsInv, OnlyShownCellsChange
<1>2. QED
  BY <1>1, GridHolds, PTL

\* An edit lands once and in the cell its editor was opened for, whatever ends the editor
\* and wherever the focus is by then (commitEditorSession, finish).
THEOREM EditsAreSafe == Spec => []EditsLandOnce
<1>1. GridInv => EditsLandOnce
  BY DEF GridInv, EditorInv, EditsLandOnce
<1>2. QED
  BY <1>1, GridHolds, PTL

\* A call of focusCell that has been superseded never sets the focus, however many of its
\* timers were still to come (focusCell).
THEOREM LatestCallHolds == Spec => LatestCallWins
<1>1. GridInv /\ [Next]_vars => (unit = "editor" => Editor!CallIsLatest)
  BY StepOfPart, TimersKept DEF GridInv
<1>2. QED
  BY <1>1, GridHolds, PTL DEF Spec, LatestCallWins

\* A width has one writer: a drag, once, a reset, or the controller as long as the width is
\* its own, whatever measurements and timers are on their way (reflow, apply, endResize).
THEOREM WidthsAreSafe == Spec => WidthsHaveOneWriter
<1>1. GridInv /\ [Next]_vars => (unit = "widths" => Widths!OneWriter)
  BY StepOfPart, WidthsStep, InstancesAreSound DEF GridInv
<1>2. QED
  BY <1>1, GridHolds, PTL DEF Spec, WidthsHaveOneWriter

\* A row the consumer asked for is completely in sight once its reveal has ended, whether
\* it was mounted at once or had to be scrolled near first, and also if the request was
\* withdrawn and made again meanwhile (getDataGridTableScrollTarget, the reveal effects).
THEOREM RevealsShow == Spec => []RevealedRowIsShown
<1>1. ScrollingInv => Scrolling!RevealedRowIsShown
  BY DEF ScrollingInv, Counters, LastIsShown, Scrolling!RevealedRowIsShown, Scrolling!Asked,
         Scrolling!Request, Scrolling!NoRequest, Scrolling!None
<1>2. GridInv => RevealedRowIsShown
  BY <1>1 DEF GridInv, RevealedRowIsShown
<1>3. QED
  BY <1>2, GridHolds, PTL

\* The next rows are asked for once at each number of rows, however often the end is
\* rendered (fetchMoreFiredAtCountRef).
THEOREM FetchedOnce == Spec => []FetchesOnce
<1>1. ScrollingInv => Scrolling!FetchesOnce
  BY DEF ScrollingInv, CallIsOfCount, Scrolling!FetchesOnce
<1>2. GridInv => FetchesOnce
  BY <1>1 DEF GridInv, FetchesOnce
<1>3. QED
  BY <1>2, GridHolds, PTL

\* Renders and loaded rows do not scroll away from where the user has scrolled to
\* (isSameDataGridTableScrollRequest).
THEOREM UserIsLeftAlone == Spec => StaysWhereScrolled
<1>1. ScrollingInv /\ [Scrolling!Next]_(Scrolling!vars) => Scrolling!StaysPut
  <2>1. SUFFICES ASSUME ScrollingInv, [Scrolling!Next]_(Scrolling!vars), top' # top, acts' = acts
                 PROVE  last # Scrolling!Request \/ pending # Scrolling!None
    BY DEF Scrolling!StaysPut
  <2>2. Scrolling!Commit
    BY <2>1 DEF Scrolling!Next, Scrolling!vars, Scrolling!StartFetch, Scrolling!Hold,
                Scrolling!Answer,
                Scrolling!Scroll, Scrolling!Ask, ScrollingInv, Counters
  <2>3. PICK rows : IF Scrolling!EndsPending(rows) THEN Scrolling!EndPending ELSE Scrolling!RevealRow(rows)
    BY <2>2 DEF Scrolling!Commit
  <2>4. CASE Scrolling!EndsPending(rows)
    BY <2>4 DEF Scrolling!EndsPending, Scrolling!Asked, Scrolling!None, ScrollingInv, Counters
  <2>5. CASE ~Scrolling!EndsPending(rows)
    BY <2>1, <2>3, <2>5 DEF Scrolling!RevealRow
  <2>6. QED
    BY <2>4, <2>5
<1>2. GridInv /\ [Next]_vars => (unit = "scrolling" => Scrolling!StaysPut)
  BY <1>1, StepOfPart DEF GridInv
<1>3. QED
  BY <1>2, GridHolds, PTL DEF Spec, StaysWhereScrolled
==============================================================================
