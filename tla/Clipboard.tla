------------------------------ MODULE Clipboard ------------------------------
(***************************************************************************)
(* The clipboard text of the data grid (data-grid-cell-selection.tsx): how *)
(* a region of cells becomes tab-separated lines, quoted the way Excel     *)
(* does, how a text is scanned back into a block of fields, and how a      *)
(* block is repeated to fill a region.  A text is a sequence of characters *)
(* of which only the four that matter to the format are told apart.        *)
(***************************************************************************)
EXTENDS Naturals, Sequences, SequencesExt

Tab == "tab"
CR == "cr"
LF == "lf"
Quote == "quote"
Special == {Tab, CR, LF, Quote}

Intersperse(texts, separator) ==
  LET joined[n \in 0..Len(texts)] ==
        IF n = 0 THEN <<>>
        ELSE joined[n - 1] \o (IF n = 1 THEN texts[1] ELSE separator \o texts[n])
  IN joined[Len(texts)]

\* Mutant of Quoted: inner quotes are not doubled.
QuotedOnce(field) == <<Quote>> \o field \o <<Quote>>

\* Every quote stands for itself twice.
Doubled(field) ==
  LET upTo[n \in 0..Len(field)] ==
        IF n = 0 THEN <<>>
        ELSE upTo[n - 1] \o (IF field[n] = Quote THEN <<Quote, Quote>> ELSE <<field[n]>>)
  IN upTo[Len(field)]

Quoted(field) == <<Quote>> \o Doubled(field) \o <<Quote>>

SerializeField(field) ==
  IF \E i \in DOMAIN field : field[i] \in Special THEN Quoted(field) ELSE field

Serialize(grid) ==
  Intersperse([r \in DOMAIN grid |->
                 Intersperse([c \in DOMAIN grid[r] |-> SerializeField(grid[r][c])], <<Tab>>)],
              <<CR, LF>>)

------------------------------------------------------------------------------
(* The scan.  A pair, "" in quotes or CR LF outside, is taken in one step:  *)
(* "skip" is set on its first character.                                   *)

Started == [rows |-> <<>>, row |-> <<>>, field |-> <<>>, quoted |-> FALSE, skip |-> FALSE]

EndField(s) == [s EXCEPT !.row = Append(s.row, s.field), !.field = <<>>]
EndRow(s) == LET t == EndField(s) IN [t EXCEPT !.rows = Append(t.rows, t.row), !.row = <<>>]

\* The character belongs to the field.
Keep(s, ch) == [s EXCEPT !.field = Append(s.field, ch)]

ScanQuoted(s, ch, next) ==
  IF ch # Quote THEN Keep(s, ch)
  ELSE IF next = Quote THEN [Keep(s, ch) EXCEPT !.skip = TRUE]
  ELSE [s EXCEPT !.quoted = FALSE]

ScanPlain(s, ch, next) ==
  IF ch = Quote /\ s.field = <<>> THEN [s EXCEPT !.quoted = TRUE]
  ELSE IF ch = Tab THEN EndField(s)
  ELSE IF ch \in {CR, LF} THEN [EndRow(s) EXCEPT !.skip = (ch = CR /\ next = LF)]
  ELSE Keep(s, ch)

Scan(text, s, i) ==
  LET next == IF i < Len(text) THEN text[i + 1] ELSE "end"
  IN IF s.skip THEN [s EXCEPT !.skip = FALSE]
     ELSE IF s.quoted THEN ScanQuoted(s, text[i], next)
     ELSE ScanPlain(s, text[i], next)

\* The empty last line that ends Excel's text is not a row of data.
DropArtifact(rows) == IF Len(rows) > 1 /\ Last(rows) = << <<>> >> THEN Front(rows) ELSE rows

\* The state after the whole text.
Scanned(text) ==
  LET after[i \in 0..Len(text)] == IF i = 0 THEN Started ELSE Scan(text, after[i - 1], i)
  IN after[Len(text)]

Parse(text) == DropArtifact(EndRow(Scanned(text)).rows)

Tile(block, rows, columns) ==
  [r \in 1..rows |->
     LET source == block[1 + ((r - 1) % Len(block))]
     IN [c \in 1..columns |-> source[1 + ((c - 1) % Len(source))]]]

------------------------------------------------------------------------------
(* Properties *)

\* The grid's own text loses this region's last cell: an empty field alone in the
\* last line of several looks like the end of Excel's text.
LooksEnded(grid) == Len(grid) > 1 /\ Last(grid) = << <<>> >>

\* What the grid copies is what it would paste, whatever tabs, quotes and line ends
\* the cells hold (serializeDataGridClipboardText, parseDataGridClipboardText), but
\* for that one shape.
RoundTrip(grid) == Parse(Serialize(grid)) = IF LooksEnded(grid) THEN Front(grid) ELSE grid

\* A block that is repeated over a region of its own size is itself.
TileOfItsSize(grid) == Tile(grid, Len(grid), Len(grid[1])) = grid
==============================================================================
