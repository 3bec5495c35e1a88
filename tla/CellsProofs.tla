----------------------------- MODULE CellsProofs -----------------------------
(***************************************************************************)
(* What the clipboard and the selection of cells promise, for any grid and *)
(* any texts: what is copied is read back as it was, a block that is       *)
(* repeated over its own size is itself, so a copy that is pasted where it *)
(* came from changes nothing; and every step keeps the state typed.  The   *)
(* texts are put together and read by recursive functions; that these      *)
(* exist is shown by induction on the natural numbers, for which the       *)
(* well-foundedness of < is enough.                                        *)
(***************************************************************************)
EXTENDS CellSelection, FiniteSetTheorems, SequenceTheorems, WellFoundedInduction, TLAPS

------------------------------------------------------------------------------
(* Numbers and recursive functions *)

\* A set of numbers has a least one.
LEMMA LeastNumber ==
  ASSUME NEW T, T \subseteq Nat, T # {}
  PROVE  \E n \in T : \A m \in T : n <= m
<1>1. IsWellFoundedOn(OpToRel(<, Nat), Nat)
  BY NatLessThanWellFounded
<1>2. PICK n \in T : \A m \in T : ~(<<m, n>> \in OpToRel(<, Nat))
  BY <1>1, WFMin
<1>3. \A m \in T : ~(m < n)
  BY <1>2 DEF OpToRel
<1>4. QED
  BY <1>3

\* What holds of 0, and of n + 1 whenever it holds of n, holds of every number up to N.
LEMMA Climb ==
  ASSUME NEW N \in Nat, NEW T, 0 \in T, \A n \in 1..N : n - 1 \in T => n \in T
  PROVE  \A n \in 0..N : n \in T
<1> SUFFICES ASSUME NEW k \in 0..N, k \notin T PROVE FALSE
  OBVIOUS
<1>0. (0..N) \ T \subseteq Nat /\ (0..N) \ T # {}
  OBVIOUS
<1>1. PICK n \in (0..N) \ T : \A m \in (0..N) \ T : n <= m
  BY <1>0, LeastNumber
<1>2. n # 0 /\ n - 1 \in 0..N /\ n - 1 \in T
  BY <1>1
<1>3. QED
  BY <1>1, <1>2

\* A function that says what it is at n by what it is at n - 1 exists.
Steps(N, S, a, step) == N \in Nat /\ a \in S /\ \A n \in 1..N, s \in S : step[<<n, s>>] \in S
\* f takes each value from the one before by step, beginning with a.
Recurs(f, N, S, a, step) ==
  f \in [0..N -> S] /\ f[0] = a /\ \A n \in 1..N : f[n] = step[<<n, f[n - 1]>>]

\* There is such a function, by induction on the number of steps.
LEMMA RecursionExists ==
  ASSUME NEW N, NEW S, NEW a, NEW step, Steps(N, S, a, step)
  PROVE  \E f : Recurs(f, N, S, a, step)
<1> USE DEF Steps
<1> DEFINE Good(n, f) == f[0] = a /\ \A m \in 1..n : f[m] = step[<<m, f[m - 1]>>]
           T == {n \in 0..N : \E f \in [0..N -> S] : Good(n, f)}
<1>1. 0 \in T
  <2>1. [m \in 0..N |-> a] \in [0..N -> S] /\ Good(0, [m \in 0..N |-> a])
    OBVIOUS
  <2>2. \E f \in [0..N -> S] : Good(0, f)
    <3> HIDE DEF Good
    <3>1. QED
      BY <2>1
  <2>3. QED
    BY <2>2
<1>2. ASSUME NEW n \in 1..N, n - 1 \in T PROVE n \in T
  <2>1. PICK f \in [0..N -> S] : Good(n - 1, f)
    BY <1>2
  <2> DEFINE g == [f EXCEPT ![n] = step[<<n, f[n - 1]>>]]
  <2>2. g \in [0..N -> S] /\ g[0] = a /\ g[n] = step[<<n, f[n - 1]>>]
    BY <2>1
  <2>3. \A m \in 0..(n - 1) : g[m] = f[m]
    OBVIOUS
  <2>4. \A m \in 1..n : g[m] = step[<<m, g[m - 1]>>]
    <3> SUFFICES ASSUME NEW m \in 1..n PROVE g[m] = step[<<m, g[m - 1]>>]
      OBVIOUS
    <3>1. g[m - 1] = f[m - 1]
      BY <2>3
    <3>2. CASE m = n
      BY <3>1, <3>2, <2>2
    <3>3. CASE m # n
      BY <3>1, <3>3, <2>1, <2>3
    <3>4. QED
      BY <3>2, <3>3
  <2>5. Good(n, g)
    BY <2>2, <2>4
  <2>6. \E h \in [0..N -> S] : Good(n, h)
    <3> HIDE DEF Good, g
    <3>1. QED
      BY <2>2, <2>5
  <2>7. QED
    BY <2>6
<1>3. N \in T
  <2> HIDE DEF T
  <2>1. \A n \in 0..N : n \in T
    BY <1>1, <1>2, Climb
  <2>2. QED
    BY <2>1
<1>4. QED
  BY <1>3 DEF Recurs

------------------------------------------------------------------------------
(* Texts *)

\* The text holds t after its first p characters.
Holds(text, p, t) ==
  /\ p \in Nat /\ p + Len(t) <= Len(text)
  /\ \A k \in 1..Len(t) : text[p + k] = t[k]

\* A text that holds two pieces in a row holds each.
LEMMA HoldsBoth ==
  ASSUME NEW C, NEW text \in Seq(C), NEW a \in Seq(C), NEW b \in Seq(C), NEW p, Holds(text, p, a \o b)
  PROVE  Holds(text, p, a) /\ Holds(text, p + Len(a), b)
<1>1. /\ Len(a \o b) = Len(a) + Len(b) /\ Len(a) \in Nat /\ Len(b) \in Nat
      /\ \A k \in 1..Len(a) : (a \o b)[k] = a[k]
      /\ \A k \in 1..Len(b) : (a \o b)[Len(a) + k] = b[k]
  BY ConcatProperties, LenProperties
<1>2. p \in Nat /\ p + Len(a) + Len(b) <= Len(text) /\ Len(text) \in Nat
  BY <1>1, LenProperties DEF Holds
<1>3. \A k \in 1..Len(a) : text[p + k] = a[k]
  <2> TAKE k \in 1..Len(a)
  <2>1. k \in 1..Len(a \o b)
    BY <1>1
  <2>2. text[p + k] = (a \o b)[k]
    BY <2>1 DEF Holds
  <2>3. QED
    BY <1>1, <2>2
<1>4. \A k \in 1..Len(b) : text[p + Len(a) + k] = b[k]
  <2> SUFFICES ASSUME NEW k \in 1..Len(b) PROVE text[p + Len(a) + k] = b[k]
    OBVIOUS
  <2>1. Len(a) + k \in 1..Len(a \o b)
    BY <1>1
  <2>2. text[p + (Len(a) + k)] = (a \o b)[Len(a) + k]
    BY <2>1 DEF Holds
  <2>3. p + (Len(a) + k) = p + Len(a) + k
    BY <1>1, <1>2
  <2>4. QED
    BY <1>1, <2>2, <2>3
<1>5. QED
  BY <1>1, <1>2, <1>3, <1>4 DEF Holds

\* whole is put together from the pieces, one after the other.
PutTogether(whole, N, C, piece) ==
  /\ N \in Nat /\ whole \in [0..N -> Seq(C)] /\ piece \in [1..N -> Seq(C)]
  /\ whole[0] = <<>> /\ \A n \in 1..N : whole[n] = whole[n - 1] \o piece[n]

\* Each piece is in the text where those before it end.
PiecesAt(text, p, N, whole, piece) ==
  \A n \in 1..N : /\ Holds(text, p + Len(whole[n - 1]), piece[n])
                   /\ Len(whole[n]) = Len(whole[n - 1]) + Len(piece[n])

\* A text that is put together from pieces holds each of them where it was put.
LEMMA PiecesHold ==
  ASSUME NEW C, NEW text \in Seq(C), NEW p, NEW N, NEW whole, NEW piece,
         PutTogether(whole, N, C, piece), Holds(text, p, whole[N])
  PROVE  PiecesAt(text, p, N, whole, piece)
<1>0. /\ N \in Nat /\ whole \in [0..N -> Seq(C)] /\ piece \in [1..N -> Seq(C)]
      /\ whole[0] = <<>> /\ \A n \in 1..N : whole[n] = whole[n - 1] \o piece[n]
  BY DEF PutTogether
<1> USE <1>0
<1> DEFINE T == {m \in 0..N : Holds(text, p, whole[N - m])}
<1>1. \A n \in 1..N : whole[n] \in Seq(C) /\ whole[n - 1] \in Seq(C) /\ piece[n] \in Seq(C)
  <2> TAKE n \in 1..N
  <2>1. n \in 0..N /\ n - 1 \in 0..N
    OBVIOUS
  <2>2. QED
    BY <2>1
<1>2. \A m \in 0..N : m \in T
  <2>1. 0 \in T
    OBVIOUS
  <2>2. ASSUME NEW m \in 1..N, m - 1 \in T PROVE m \in T
    <3>1. N - (m - 1) \in 1..N /\ N - (m - 1) - 1 = N - m
      OBVIOUS
    <3>2. Holds(text, p, whole[N - (m - 1)])
      BY <2>2
    <3> DEFINE a == whole[N - m]
               b == piece[N - (m - 1)]
    <3>3. a \in Seq(C) /\ b \in Seq(C) /\ Holds(text, p, a \o b)
      BY <1>1, <3>1, <3>2
    <3> HIDE DEF a, b
    <3>4. Holds(text, p, a)
      BY <3>3, HoldsBoth
    <3>5. QED
      BY <3>4 DEF a
  <2> HIDE DEF T
  <2>3. QED
    BY <2>1, <2>2, Climb
<1>3. ASSUME NEW n \in 1..N PROVE Holds(text, p, whole[n])
  <2>1. N - n \in 0..N /\ N - (N - n) = n
    OBVIOUS
  <2>2. N - n \in T
    BY <1>2, <2>1
  <2>3. QED
    BY <2>1, <2>2
<1> HIDE DEF T
<1>4. ASSUME NEW n \in 1..N
      PROVE  /\ Holds(text, p + Len(whole[n - 1]), piece[n])
             /\ Len(whole[n]) = Len(whole[n - 1]) + Len(piece[n])
  <2> DEFINE a == whole[n - 1]
             b == piece[n]
  <2>1. a \in Seq(C) /\ b \in Seq(C) /\ Holds(text, p, a \o b) /\ whole[n] = a \o b
    BY <1>1, <1>3
  <2> HIDE DEF a, b
  <2>2. Holds(text, p + Len(a), b) /\ Len(a \o b) = Len(a) + Len(b)
    BY <2>1, HoldsBoth, ConcatProperties
  <2>3. QED
    BY <2>1, <2>2 DEF a, b
<1>5. QED
  BY <1>4 DEF PiecesAt

\* The recursive functions of Clipboard are what their definitions say.
DoubledTo(field) ==
  LET upTo[n \in 0..Len(field)] ==
        IF n = 0 THEN <<>>
        ELSE upTo[n - 1] \o (IF field[n] = Quote THEN <<Quote, Quote>> ELSE <<field[n]>>)
  IN upTo

DoubledPiece(field) ==
  [n \in 1..Len(field) |-> IF field[n] = Quote THEN <<Quote, Quote>> ELSE <<field[n]>>]

\* Pieces can be put together, and
LEMMA PiecesFit ==
  ASSUME NEW C, NEW N \in Nat, NEW P \in [1..N -> Seq(C)]
  PROVE  \E f : PutTogether(f, N, C, P)
<1> DEFINE step == [p \in (1..N) \X Seq(C) |-> p[2] \o P[p[1]]]
<1>1. \A n \in 1..N, t \in Seq(C) : step[<<n, t>>] = t \o P[n] /\ step[<<n, t>>] \in Seq(C)
  <2> TAKE n \in 1..N, t \in Seq(C)
  <2>1. P[n] \in Seq(C)
    OBVIOUS
  <2>2. t \o P[n] \in Seq(C)
    BY <2>1, ConcatProperties
  <2>3. QED
    BY <2>2
<1>2. PICK f : Recurs(f, N, Seq(C), <<>>, step)
  <2>1. Steps(N, Seq(C), <<>>, step)
    BY <1>1, EmptySeq DEF Steps
  <2>2. QED
    BY <2>1, RecursionExists
<1>3. f \in [0..N -> Seq(C)] /\ f[0] = <<>> /\ \A n \in 1..N : f[n] = f[n - 1] \o P[n]
  <2>1. \A n \in 1..N : f[n - 1] \in Seq(C)
    BY <1>2 DEF Recurs
  <2> HIDE DEF step
  <2>2. QED
    BY <1>1, <1>2, <2>1 DEF Recurs
<1>4. QED
  BY <1>3 DEF PutTogether

OfNumbers(f, N) == f = [n \in 0..N |-> f[n]]

\* what puts them together is known by that.
LEMMA PiecesOnly ==
  ASSUME NEW C, NEW N \in Nat, NEW P \in [1..N -> Seq(C)], NEW f, OfNumbers(f, N),
         f[0] = <<>>, \A n \in 1..N : f[n] = f[n - 1] \o P[n]
  PROVE  PutTogether(f, N, C, P)
<1> DEFINE T == {n \in 0..N : f[n] \in Seq(C)}
<1>1. 0 \in T
  <2>1. <<>> \in Seq(C)
    BY EmptySeq
  <2>2. f[0] \in Seq(C)
    BY <2>1
  <2>3. 0 \in 0..N
    OBVIOUS
  <2>4. QED
    BY <2>2, <2>3, Zenon
<1>2. ASSUME NEW n \in 1..N, n - 1 \in T PROVE n \in T
  <2>1. f[n - 1] \in Seq(C) /\ P[n] \in Seq(C)
    BY <1>2
  <2>2. f[n - 1] \o P[n] \in Seq(C)
    BY <2>1, ConcatProperties
  <2>3. f[n] \in Seq(C)
    BY <2>2
  <2>4. QED
    BY <2>3
<1>3. \A n \in 0..N : n \in T
  <2> HIDE DEF T
  <2>1. QED
    BY <1>1, <1>2, Climb
<1>4. f \in [0..N -> Seq(C)]
  BY <1>3 DEF OfNumbers
<1>5. QED
  BY <1>4 DEF PutTogether

\* A field with its quotes doubled is put together from its characters,
LEMMA DoubledIs ==
  ASSUME NEW C, Quote \in C, NEW field \in Seq(C)
  PROVE  PutTogether(DoubledTo(field), Len(field), C, DoubledPiece(field))
<1> DEFINE N == Len(field)
           P == DoubledPiece(field)
           D(f) == [n \in 0..N |-> IF n = 0 THEN <<>>
                      ELSE f[n - 1] \o (IF field[n] = Quote THEN <<Quote, Quote>> ELSE <<field[n]>>)]
<1>1. N \in Nat /\ P \in [1..N -> Seq(C)]
  BY LenProperties, ElementOfSeq DEF DoubledPiece
<1>2. ASSUME NEW f PROVE /\ f = D(f) => f[0] = <<>> /\ \A n \in 1..N : f[n] = f[n - 1] \o P[n]
                         /\ PutTogether(f, N, C, P) => f = D(f)
  <2>1. ASSUME NEW n \in 1..N PROVE D(f)[n] = f[n - 1] \o P[n]
    <3>1. P[n] = IF field[n] = Quote THEN <<Quote, Quote>> ELSE <<field[n]>>
      BY DEF DoubledPiece
    <3>2. n \in 0..N /\ n # 0
      BY <1>1
    <3> HIDE DEF P, N
    <3>3. D(f)[n] = f[n - 1] \o (IF field[n] = Quote THEN <<Quote, Quote>> ELSE <<field[n]>>)
      BY <3>2, Zenon
    <3>4. QED
      BY <3>1, <3>3, Zenon
  <2>2. D(f)[0] = <<>> /\ DOMAIN D(f) = 0..N /\ D(f) = [n \in 0..N |-> D(f)[n]]
    BY <1>1
  <2> HIDE DEF D, P
  <2>3. ASSUME PutTogether(f, N, C, P) PROVE f = D(f)
    <3>1. f = [n \in 0..N |-> f[n]]
      BY <2>3 DEF PutTogether
    <3>2. f[0] = D(f)[0] /\ \A n \in 1..N : f[n] = D(f)[n]
      BY <2>1, <2>2, <2>3 DEF PutTogether
    <3> HIDE DEF N
    <3>3. \A n \in 0..N : n = 0 \/ n \in 1..N
      BY <1>1
    <3>4. \A n \in 0..N : f[n] = D(f)[n]
      BY <3>2, <3>3
    <3>5. QED
      BY <2>2, <3>1, <3>4, Zenon
  <2>4. QED
    BY <2>1, <2>2, <2>3
<1>3. PICK f : PutTogether(f, N, C, P)
  BY <1>1, PiecesFit
<1>4. DoubledTo(field) = CHOOSE g : g = D(g)
  BY DEF DoubledTo
<1>5. DoubledTo(field) = D(DoubledTo(field))
  <2> HIDE DEF D
  <2>1. QED
    BY <1>2, <1>3, <1>4
<1>6. OfNumbers(DoubledTo(field), N)
  BY <1>5 DEF OfNumbers
<1>7. QED
  <2> HIDE DEF N, P, D
  <2>1. PutTogether(DoubledTo(field), N, C, P)
    BY <1>1, <1>2, <1>5, <1>6, PiecesOnly
  <2>2. QED
    BY <2>1 DEF N, P

LEMMA DoubledWhole == ASSUME NEW field PROVE Doubled(field) = DoubledTo(field)[Len(field)]
  BY DEF Doubled, DoubledTo

JoinedTo(texts, separator) ==
  LET joined[n \in 0..Len(texts)] ==
        IF n = 0 THEN <<>>
        ELSE joined[n - 1] \o (IF n = 1 THEN texts[1] ELSE separator \o texts[n])
  IN joined

JoinedPiece(texts, separator) ==
  [n \in 1..Len(texts) |-> IF n = 1 THEN texts[1] ELSE separator \o texts[n]]

\* and a line from its fields and what separates them.
LEMMA JoinedIs ==
  ASSUME NEW C, NEW texts \in Seq(Seq(C)), NEW separator \in Seq(C)
  PROVE  PutTogether(JoinedTo(texts, separator), Len(texts), C, JoinedPiece(texts, separator))
<1> DEFINE N == Len(texts)
           P == JoinedPiece(texts, separator)
           D(f) == [n \in 0..N |-> IF n = 0 THEN <<>>
                      ELSE f[n - 1] \o (IF n = 1 THEN texts[1] ELSE separator \o texts[n])]
<1>1. N \in Nat /\ P \in [1..N -> Seq(C)]
  <2>1. N \in Nat /\ \A n \in 1..N : texts[n] \in Seq(C)
    BY LenProperties, ElementOfSeq
  <2>2. \A n \in 1..N : separator \o texts[n] \in Seq(C)
    BY <2>1, ConcatProperties
  <2>3. QED
    BY <2>1, <2>2 DEF JoinedPiece
<1>2. ASSUME NEW f PROVE /\ f = D(f) => f[0] = <<>> /\ \A n \in 1..N : f[n] = f[n - 1] \o P[n]
                         /\ PutTogether(f, N, C, P) => f = D(f)
  <2>1. ASSUME NEW n \in 1..N PROVE D(f)[n] = f[n - 1] \o P[n]
    <3>1. P[n] = IF n = 1 THEN texts[1] ELSE separator \o texts[n]
      BY DEF JoinedPiece
    <3>2. n \in 0..N /\ n # 0
      BY <1>1
    <3> HIDE DEF P, N
    <3>3. D(f)[n] = f[n - 1] \o (IF n = 1 THEN texts[1] ELSE separator \o texts[n])
      BY <3>2, Zenon
    <3>4. QED
      BY <3>1, <3>3, Zenon
  <2>2. D(f)[0] = <<>> /\ DOMAIN D(f) = 0..N /\ D(f) = [n \in 0..N |-> D(f)[n]]
    BY <1>1
  <2> HIDE DEF D, P
  <2>3. ASSUME PutTogether(f, N, C, P) PROVE f = D(f)
    <3>1. f = [n \in 0..N |-> f[n]]
      BY <2>3 DEF PutTogether
    <3>2. f[0] = D(f)[0] /\ \A n \in 1..N : f[n] = D(f)[n]
      BY <2>1, <2>2, <2>3 DEF PutTogether
    <3> HIDE DEF N
    <3>3. \A n \in 0..N : n = 0 \/ n \in 1..N
      BY <1>1
    <3>4. \A n \in 0..N : f[n] = D(f)[n]
      BY <3>2, <3>3
    <3>5. QED
      BY <2>2, <3>1, <3>4, Zenon
  <2>4. QED
    BY <2>1, <2>2, <2>3
<1>3. PICK f : PutTogether(f, N, C, P)
  BY <1>1, PiecesFit
<1>4. JoinedTo(texts, separator) = CHOOSE g : g = D(g)
  BY DEF JoinedTo
<1>5. JoinedTo(texts, separator) = D(JoinedTo(texts, separator))
  <2> HIDE DEF D
  <2>1. QED
    BY <1>2, <1>3, <1>4
<1>6. OfNumbers(JoinedTo(texts, separator), N)
  BY <1>5 DEF OfNumbers
<1>7. QED
  <2> HIDE DEF N, P, D
  <2>1. PutTogether(JoinedTo(texts, separator), N, C, P)
    BY <1>1, <1>2, <1>5, <1>6, PiecesOnly
  <2>2. QED
    BY <2>1 DEF N, P

LEMMA JoinedWhole ==
  ASSUME NEW texts, NEW separator
  PROVE  Intersperse(texts, separator) = JoinedTo(texts, separator)[Len(texts)]
  BY DEF Intersperse, JoinedTo

------------------------------------------------------------------------------
(* The scan *)

Block(C) == Seq(Seq(C)) \ {<<>>}
States(C) == [rows : Seq(Block(C)), row : Seq(Seq(C)), field : Seq(C), quoted : BOOLEAN, skip : BOOLEAN]
State(rows, row, field, quoted, skip) ==
  [rows |-> rows, row |-> row, field |-> field, quoted |-> quoted, skip |-> skip]

\* The state of the scan after each character.
After(text) ==
  LET after[i \in 0..Len(text)] == IF i = 0 THEN Started ELSE Scan(text, after[i - 1], i)
  IN after

\* The fields of a state, for which a record need not be written out.
Has(s, rows, row, field, quoted, skip) ==
  s.rows = rows /\ s.row = row /\ s.field = field /\ s.quoted = quoted /\ s.skip = skip

LEMMA StateHas ==
  ASSUME NEW C, NEW s \in States(C), NEW rows, NEW row, NEW field, NEW quoted, NEW skip
  PROVE  Has(s, rows, row, field, quoted, skip) <=> s = State(rows, row, field, quoted, skip)
  BY DEF Has, States, State

LEMMA BlockGrows ==
  ASSUME NEW C, NEW rows \in Seq(Block(C)), NEW row \in Seq(Seq(C)), NEW field \in Seq(C)
  PROVE  /\ Append(row, field) \in Seq(Seq(C)) /\ Append(row, field) \in Block(C)
         /\ Append(rows, Append(row, field)) \in Seq(Block(C))
<1>1. Append(row, field) \in Seq(Seq(C)) /\ Len(Append(row, field)) = Len(row) + 1 /\ Len(row) \in Nat
  BY AppendProperties, LenProperties
<1>2. Append(row, field) # <<>>
  BY <1>1
<1>3. Append(row, field) \in Block(C)
  BY <1>1, <1>2 DEF Block
<1>4. Append(rows, Append(row, field)) \in Seq(Block(C))
  BY <1>3, AppendProperties
<1>5. QED
  BY <1>1, <1>3, <1>4

\* What the operators of the scan do to its state.
LEMMA KeepIs ==
  ASSUME NEW C, NEW s \in States(C), NEW ch \in C
  PROVE  Keep(s, ch) \in States(C) /\ Has(Keep(s, ch), s.rows, s.row, Append(s.field, ch), s.quoted, s.skip)
<1>1. s.field \in Seq(C)
  BY DEF States
<1>2. Append(s.field, ch) \in Seq(C)
  BY <1>1, AppendProperties
<1>3. QED
  BY <1>2 DEF Keep, States, Has

LEMMA RowEnds ==
  ASSUME NEW C, NEW s \in States(C)
  PROVE  /\ EndField(s) \in States(C) /\ EndRow(s) \in States(C)
         /\ Has(EndField(s), s.rows, Append(s.row, s.field), <<>>, s.quoted, s.skip)
         /\ Has(EndRow(s), Append(s.rows, Append(s.row, s.field)), <<>>, <<>>, s.quoted, s.skip)
<1>1. s.rows \in Seq(Block(C)) /\ s.row \in Seq(Seq(C)) /\ s.field \in Seq(C)
  BY DEF States
<1>2. <<>> \in Seq(C) /\ <<>> \in Seq(Seq(C))
  BY EmptySeq
<1>3. /\ EndField(s) \in States(C)
      /\ Has(EndField(s), s.rows, Append(s.row, s.field), <<>>, s.quoted, s.skip)
  BY <1>1, <1>2, BlockGrows DEF EndField, States, Has
<1>4. /\ EndRow(s) \in States(C)
      /\ Has(EndRow(s), Append(s.rows, Append(s.row, s.field)), <<>>, <<>>, s.quoted, s.skip)
  <2> DEFINE t == EndField(s)
  <2>1. t.row = Append(s.row, s.field) /\ t.rows = s.rows /\ EndRow(s) = [t EXCEPT !.rows = Append(t.rows, t.row), !.row = <<>>]
    BY <1>3 DEF EndRow, Has
  <2>2. Append(t.rows, t.row) \in Seq(Block(C))
    BY <1>1, <2>1, BlockGrows
  <2> HIDE DEF t
  <2>3. t \in States(C) /\ Has(t, s.rows, Append(s.row, s.field), <<>>, s.quoted, s.skip)
    BY <1>3 DEF t
  <2>4. QED
    BY <1>1, <1>2, <2>1, <2>2, <2>3 DEF States, Has
<1>5. QED
  BY <1>3, <1>4

\* What a character does, by the state it is read in.
LEMMA SkipIs ==
  ASSUME NEW C, NEW text \in Seq(C), NEW i \in 1..Len(text), NEW s \in States(C), s.skip
  PROVE  Scan(text, s, i) \in States(C) /\ Has(Scan(text, s, i), s.rows, s.row, s.field, s.quoted, FALSE)
  BY DEF Scan, States, Has

Next1(text, i) == IF i < Len(text) THEN text[i + 1] ELSE "end"

\* A character in quotes: a quote ends the field or stands for the next one.
LEMMA QuotedIs ==
  ASSUME NEW C, NEW text \in Seq(C), NEW i \in 1..Len(text), NEW s \in States(C), ~s.skip, s.quoted
  PROVE  /\ Scan(text, s, i) \in States(C)
         /\ text[i] # Quote => Has(Scan(text, s, i), s.rows, s.row, Append(s.field, text[i]), TRUE, FALSE)
         /\ text[i] = Quote /\ Next1(text, i) = Quote
              => Has(Scan(text, s, i), s.rows, s.row, Append(s.field, text[i]), TRUE, TRUE)
         /\ text[i] = Quote /\ Next1(text, i) # Quote => Has(Scan(text, s, i), s.rows, s.row, s.field, FALSE, FALSE)
<1> DEFINE k == Keep(s, text[i])
<1>1. text[i] \in C /\ s.quoted = TRUE /\ s.skip = FALSE
  BY ElementOfSeq DEF States
<1>2. k \in States(C) /\ Has(k, s.rows, s.row, Append(s.field, text[i]), TRUE, FALSE)
  <2>1. k \in States(C) /\ Has(k, s.rows, s.row, Append(s.field, text[i]), s.quoted, s.skip)
    BY <1>1, KeepIs
  <2>2. QED
    BY <1>1, <2>1
<1> HIDE DEF k
<1>3. /\ [k EXCEPT !.skip = TRUE] \in States(C)
      /\ Has([k EXCEPT !.skip = TRUE], s.rows, s.row, Append(s.field, text[i]), TRUE, TRUE)
  BY <1>2 DEF States, Has
<1>4. /\ [s EXCEPT !.quoted = FALSE] \in States(C)
      /\ Has([s EXCEPT !.quoted = FALSE], s.rows, s.row, s.field, FALSE, FALSE)
  BY DEF States, Has
<1>5. Scan(text, s, i) = IF text[i] # Quote THEN k
                         ELSE IF Next1(text, i) = Quote THEN [k EXCEPT !.skip = TRUE]
                         ELSE [s EXCEPT !.quoted = FALSE]
  BY DEF Scan, ScanQuoted, k, Next1
<1>6. QED
  BY <1>2, <1>3, <1>4, <1>5

\* A character outside of quotes: it opens quotes, separates, or is kept.
LEMMA PlainIs ==
  ASSUME NEW C, NEW text \in Seq(C), NEW i \in 1..Len(text), NEW s \in States(C), ~s.skip, ~s.quoted
  PROVE  /\ Scan(text, s, i) \in States(C)
         /\ text[i] = Quote /\ s.field = <<>> => Has(Scan(text, s, i), s.rows, s.row, s.field, TRUE, FALSE)
         /\ text[i] \notin Special => Has(Scan(text, s, i), s.rows, s.row, Append(s.field, text[i]), FALSE, FALSE)
         /\ text[i] = Tab => Has(Scan(text, s, i), s.rows, Append(s.row, s.field), <<>>, FALSE, FALSE)
         /\ text[i] = CR /\ Next1(text, i) = LF
              => Has(Scan(text, s, i), Append(s.rows, Append(s.row, s.field)), <<>>, <<>>, FALSE, TRUE)
<1> DEFINE k == Keep(s, text[i])
           r == EndRow(s)
           skip == text[i] = CR /\ Next1(text, i) = LF
<1>1. text[i] \in C /\ s.quoted = FALSE /\ s.skip = FALSE
  BY ElementOfSeq DEF States
<1>2. k \in States(C) /\ Has(k, s.rows, s.row, Append(s.field, text[i]), FALSE, FALSE)
  <2>1. k \in States(C) /\ Has(k, s.rows, s.row, Append(s.field, text[i]), s.quoted, s.skip)
    BY <1>1, KeepIs
  <2>2. QED
    BY <1>1, <2>1
<1>3. /\ EndField(s) \in States(C) /\ Has(EndField(s), s.rows, Append(s.row, s.field), <<>>, FALSE, FALSE)
      /\ r \in States(C) /\ Has(r, Append(s.rows, Append(s.row, s.field)), <<>>, <<>>, FALSE, FALSE)
  <2>1. /\ EndField(s) \in States(C) /\ Has(EndField(s), s.rows, Append(s.row, s.field), <<>>, s.quoted, s.skip)
        /\ r \in States(C) /\ Has(r, Append(s.rows, Append(s.row, s.field)), <<>>, <<>>, s.quoted, s.skip)
    BY RowEnds
  <2>2. QED
    BY <1>1, <2>1
<1>4. /\ [s EXCEPT !.quoted = TRUE] \in States(C)
      /\ Has([s EXCEPT !.quoted = TRUE], s.rows, s.row, s.field, TRUE, FALSE)
  BY DEF States, Has
<1>5. Scan(text, s, i) = IF text[i] = Quote /\ s.field = <<>> THEN [s EXCEPT !.quoted = TRUE]
                         ELSE IF text[i] = Tab THEN EndField(s)
                         ELSE IF text[i] \in {CR, LF} THEN [r EXCEPT !.skip = skip]
                         ELSE k
  BY DEF Scan, ScanPlain, Next1
<1> HIDE DEF k, r
<1>6. /\ [r EXCEPT !.skip = skip] \in States(C)
      /\ Has([r EXCEPT !.skip = skip], Append(s.rows, Append(s.row, s.field)), <<>>, <<>>, FALSE, skip)
  <2>1. skip \in BOOLEAN
    OBVIOUS
  <2> HIDE DEF skip
  <2>2. QED
    BY <1>3, <2>1 DEF States, Has
<1>7. Quote # Tab /\ CR # Quote /\ CR # Tab
  BY DEF Quote, Tab, CR
<1>8. Scan(text, s, i) \in States(C)
  <2> HIDE DEF skip
  <2>1. QED
    BY <1>2, <1>3, <1>4, <1>5, <1>6
<1>9. text[i] = CR /\ Next1(text, i) = LF => Scan(text, s, i) = [r EXCEPT !.skip = skip] /\ skip = TRUE
  BY <1>5, <1>7
<1>10. text[i] \notin Special => Scan(text, s, i) = k
  BY <1>5 DEF Special
<1>11. text[i] = Tab => Scan(text, s, i) = EndField(s)
  BY <1>5, <1>7
<1> HIDE DEF skip
<1>12. QED
  BY <1>2, <1>3, <1>4, <1>5, <1>6, <1>8, <1>9, <1>10, <1>11

LEMMA ScanTyped ==
  ASSUME NEW C, NEW text \in Seq(C), NEW i \in 1..Len(text), NEW s \in States(C)
  PROVE  Scan(text, s, i) \in States(C)
<1>1. CASE s.skip
  BY <1>1, SkipIs
<1>2. CASE ~s.skip /\ s.quoted
  BY <1>2, QuotedIs
<1>3. CASE ~s.skip /\ ~s.quoted
  BY <1>3, PlainIs
<1>4. QED
  BY <1>1, <1>2, <1>3

\* The scan goes on from the state before.
LEMMA AfterIs ==
  ASSUME NEW C, NEW text \in Seq(C)
  PROVE  /\ After(text) \in [0..Len(text) -> States(C)] /\ After(text)[0] = Started
         /\ \A i \in 1..Len(text) : After(text)[i] = Scan(text, After(text)[i - 1], i)
<1> DEFINE N == Len(text)
           step == [p \in (1..N) \X States(C) |-> Scan(text, p[2], p[1])]
           D(f) == [i \in 0..N |-> IF i = 0 THEN Started ELSE Scan(text, f[i - 1], i)]
<1>1. N \in Nat /\ Started \in States(C)
  BY LenProperties, EmptySeq DEF Started, States
<1>2. \A i \in 1..N, s \in States(C) :
        step[<<i, s>>] = Scan(text, s, i) /\ step[<<i, s>>] \in States(C)
  BY ScanTyped
<1>3. PICK f : Recurs(f, N, States(C), Started, step)
  <2>1. Steps(N, States(C), Started, step)
    BY <1>1, <1>2 DEF Steps
  <2>2. QED
    BY <2>1, RecursionExists
<1>4. f \in [0..N -> States(C)] /\ f[0] = Started /\ \A i \in 1..N : f[i] = Scan(text, f[i - 1], i)
  <2>1. \A i \in 1..N : f[i - 1] \in States(C)
    BY <1>3 DEF Recurs
  <2> HIDE DEF step
  <2>2. QED
    BY <1>2, <1>3, <2>1 DEF Recurs
<1> HIDE DEF N
<1>5. ASSUME NEW g PROVE DOMAIN D(g) = 0..N /\ D(g)[0] = Started /\ \A i \in 1..N : D(g)[i] = Scan(text, g[i - 1], i)
  <2>1. ASSUME NEW i \in 1..N PROVE D(g)[i] = Scan(text, g[i - 1], i)
    <3>1. i \in 0..N /\ i # 0
      BY <1>1
    <3>2. QED
      BY <3>1, Zenon
  <2>2. D(g)[0] = Started
    BY <1>1
  <2>3. DOMAIN D(g) = 0..N
    OBVIOUS
  <2>4. QED
    BY <2>1, <2>2, <2>3
<1>6. f = D(f)
  <2>1. \A i \in 0..N : i = 0 \/ i \in 1..N
    BY <1>1
  <2>2. \A i \in 0..N : f[i] = D(f)[i]
    <3> HIDE DEF D
    <3>1. QED
      BY <1>4, <1>5, <2>1
  <2>3. f = [i \in 0..N |-> f[i]] /\ D(f) = [i \in 0..N |-> D(f)[i]]
    BY <1>4
  <2>4. QED
    BY <2>2, <2>3, Zenon
<1>7. After(text) = CHOOSE g : g = D(g)
  BY DEF After, N
<1>8. After(text) = D(After(text))
  <2> HIDE DEF D
  <2>1. QED
    BY <1>6, <1>7
<1> HIDE DEF D
<1>9. /\ DOMAIN After(text) = 0..N /\ After(text)[0] = Started
      /\ \A i \in 1..N : After(text)[i] = Scan(text, After(text)[i - 1], i)
  BY <1>5, <1>8, Zenon
<1> DEFINE T == {i \in 0..N : After(text)[i] = f[i]}
<1>10. 0 \in T
  BY <1>1, <1>4, <1>9
<1>11. ASSUME NEW i \in 1..N, i - 1 \in T PROVE i \in T
  <2>1. After(text)[i - 1] = f[i - 1]
    BY <1>11
  <2>2. After(text)[i] = f[i] /\ i \in 0..N
    BY <1>1, <1>4, <1>9, <2>1
  <2>3. QED
    BY <2>2, Zenon
<1>12. \A i \in 0..N : i \in T
  <2> HIDE DEF T
  <2>1. QED
    BY <1>1, <1>10, <1>11, Climb
<1>13. \A i \in 0..N : After(text)[i] \in States(C)
  BY <1>4, <1>12
<1>14. After(text) = [i \in 0..N |-> After(text)[i]]
  BY <1>8 DEF D
<1>15. After(text) \in [0..N -> States(C)]
  BY <1>13, <1>14
<1>16. QED
  BY <1>9, <1>15 DEF N

\* The first n elements.
Fore(s, n) == SubSeq(s, 1, n)

\* The first n elements of a sequence.
LEMMA ForeIs ==
  ASSUME NEW S, NEW s \in Seq(S)
  PROVE  /\ Fore(s, 0) = <<>> /\ Fore(s, Len(s)) = s
         /\ \A n \in 0..Len(s) : Fore(s, n) \in Seq(S)
         /\ \A n \in 1..Len(s) : Fore(s, n) = Append(Fore(s, n - 1), s[n])
<1>1. Len(s) \in Nat /\ \A n \in 1..Len(s) : s[n] \in S
  BY LenProperties, ElementOfSeq
<1>2. Fore(s, 0) = <<>> /\ Fore(s, Len(s)) = s
  BY SubSeqEmpty, SubSeqFull DEF Fore
<1>3. ASSUME NEW n \in 0..Len(s) PROVE Fore(s, n) \in Seq(S)
  <2>1. n \in Int /\ 1 \in Int /\ \A i \in 1..n : s[i] \in S
    BY <1>1
  <2>2. QED
    BY <2>1, SubSeqProperties DEF Fore
<1>4. ASSUME NEW n \in 1..Len(s) PROVE Fore(s, n) = Append(Fore(s, n - 1), s[n])
  <2>1. 1 \in 1..Len(s) /\ n \in 1..Len(s) /\ n - 1 \in 0..Len(s)
    BY <1>1
  <2>2. SubSeq(s, 1, n) = SubSeq(s, 1, n - 1) \o <<s[n]>>
    BY <2>1, SubSeqRecursiveSecond
  <2>3. Fore(s, n - 1) \in Seq(S) /\ s[n] \in S
    BY <1>1, <1>3, <2>1
  <2>4. Append(Fore(s, n - 1), s[n]) = Fore(s, n - 1) \o <<s[n]>>
    BY <2>3, AppendIsConcat
  <2>5. QED
    BY <2>2, <2>4 DEF Fore
<1>5. QED
  BY <1>2, <1>3, <1>4

\* The field is read as it is when nothing in it is special.
LEMMA PlainField ==
  ASSUME NEW C, NEW text \in Seq(C), NEW field \in Seq(C), NEW p, Holds(text, p, field),
         \A k \in 1..Len(field) : field[k] \notin Special,
         NEW s, s = After(text)[p], s.field = <<>>, s.quoted = FALSE, s.skip = FALSE
  PROVE  Has(After(text)[p + Len(field)], s.rows, s.row, field, FALSE, FALSE)
<1> DEFINE at(k) == After(text)[p + k]
           T == {k \in 0..Len(field) : Has(at(k), s.rows, s.row, Fore(field, k), FALSE, FALSE)}
<1>1. Len(field) \in Nat /\ Len(text) \in Nat /\ p \in Nat /\ p + Len(field) <= Len(text)
  BY LenProperties DEF Holds
<1>2. 0 \in T
  <2>1. p + 0 = p
    BY <1>1
  <2>2. Has(at(0), s.rows, s.row, Fore(field, 0), FALSE, FALSE)
    BY <2>1, ForeIs DEF Has
  <2>3. 0 \in 0..Len(field)
    BY <1>1
  <2> HIDE DEF at
  <2>4. QED
    BY <2>2, <2>3, Zenon
<1>3. ASSUME NEW k \in 1..Len(field), k - 1 \in T PROVE k \in T
  <2>1. /\ p + k \in 1..Len(text) /\ (p + k) - 1 = p + (k - 1) /\ p + (k - 1) \in 0..Len(text)
        /\ k \in 0..Len(field)
    BY <1>1
  <2>2. at(k - 1) \in States(C) /\ at(k) = Scan(text, at(k - 1), p + k)
    BY <2>1, AfterIs
  <2>3. Has(at(k - 1), s.rows, s.row, Fore(field, k - 1), FALSE, FALSE)
    BY <1>3
  <2>4. text[p + k] = field[k] /\ field[k] \notin Special
    BY DEF Holds
  <2>5. Fore(field, k) = Append(Fore(field, k - 1), field[k])
    BY ForeIs
  <2> HIDE DEF at
  <2>6. ~at(k - 1).skip /\ ~at(k - 1).quoted
    BY <2>3 DEF Has
  <2>7. Has(at(k), at(k - 1).rows, at(k - 1).row, Append(at(k - 1).field, text[p + k]), FALSE, FALSE)
    BY <2>1, <2>2, <2>4, <2>6, PlainIs
  <2>8. Has(at(k), s.rows, s.row, Fore(field, k), FALSE, FALSE)
    BY <2>3, <2>4, <2>5, <2>7 DEF Has
  <2>9. QED
    BY <2>1, <2>8
<1>4. Len(field) \in T
  <2> HIDE DEF T
  <2>1. \A k \in 0..Len(field) : k \in T
    BY <1>1, <1>2, <1>3, Climb
  <2>2. QED
    BY <1>1, <2>1
<1>5. QED
  BY <1>4, ForeIs

\* Between its quotes a field is read with each doubled quote as one.
LEMMA QuotedField ==
  ASSUME NEW C, Quote \in C, NEW text \in Seq(C), NEW field \in Seq(C), NEW p, Holds(text, p, Quoted(field)),
         Next1(text, p + Len(Quoted(field))) # Quote,
         NEW s, s = After(text)[p], s.field = <<>>, s.quoted = FALSE, s.skip = FALSE
  PROVE  Has(After(text)[p + Len(Quoted(field))], s.rows, s.row, field, FALSE, FALSE)
<1> DEFINE N == Len(field)
           whole == DoubledTo(field)
           piece == DoubledPiece(field)
           q == p + 1
           at(k) == After(text)[q + Len(whole[k])]
           T == {k \in 0..N : Has(at(k), s.rows, s.row, Fore(field, k), TRUE, FALSE)}
<1>1. PutTogether(whole, N, C, piece) /\ Doubled(field) = whole[N] /\ N \in Nat
  BY DoubledIs, DoubledWhole, LenProperties
<1>2. whole[N] \in Seq(C) /\ <<Quote>> \in Seq(C) /\ Len(<<Quote>>) = 1 /\ <<Quote>>[1] = Quote
  <2>1. N \in 0..N /\ whole \in [0..N -> Seq(C)]
    BY <1>1 DEF PutTogether
  <2> HIDE DEF N, whole
  <2>2. whole[N] \in Seq(C)
    BY <2>1
  <2>3. QED
    BY <2>2
<1>3. Quoted(field) = <<Quote>> \o whole[N] \o <<Quote>>
  BY <1>1 DEF Quoted
<1>4. <<Quote>> \o whole[N] \in Seq(C) /\ Len(<<Quote>> \o whole[N]) = 1 + Len(whole[N]) /\ Len(whole[N]) \in Nat
  BY <1>2, ConcatProperties, LenProperties
<1>5. Len(Quoted(field)) = Len(whole[N]) + 2
  BY <1>2, <1>3, <1>4, ConcatProperties
<1>6. Holds(text, p, <<Quote>> \o whole[N]) /\ Holds(text, p + Len(<<Quote>> \o whole[N]), <<Quote>>)
  BY <1>2, <1>3, <1>4, HoldsBoth
<1>7. Holds(text, p, <<Quote>>) /\ Holds(text, q, whole[N])
  BY <1>2, <1>6, HoldsBoth
<1>8. text[q] = Quote /\ p \in Nat /\ q <= Len(text) /\ Len(text) \in Nat
  BY <1>2, <1>7, LenProperties DEF Holds
<1>9. /\ text[q + Len(whole[N]) + 1] = Quote /\ q + Len(whole[N]) + 1 <= Len(text)
      /\ q + Len(whole[N]) + 1 = p + Len(Quoted(field))
  <2> DEFINE l == Len(whole[N])
  <2>1. Holds(text, p + (1 + l), <<Quote>>) /\ l \in Nat
    BY <1>4, <1>6
  <2> HIDE DEF l
  <2>2. text[p + (1 + l) + 1] = Quote /\ p + (1 + l) + 1 <= Len(text)
    BY <1>2, <2>1 DEF Holds
  <2>3. p + (1 + l) + 1 = q + l + 1 /\ q + l + 1 = p + (l + 2)
    BY <1>8, <2>1
  <2>4. QED
    BY <1>5, <2>2, <2>3 DEF l
<1>10. /\ q \in 1..Len(text) /\ q \in Nat /\ After(text)[q - 1] = s /\ After(text)[q - 1] \in States(C)
       /\ After(text)[q] = Scan(text, After(text)[q - 1], q)
  <2>1. q \in 1..Len(text) /\ q \in Nat /\ q - 1 = p /\ p \in 0..Len(text)
    BY <1>8
  <2>2. After(text)[q - 1] = s /\ After(text)[p] \in States(C)
    BY <2>1, AfterIs
  <2> HIDE DEF q
  <2>3. After(text)[q] = Scan(text, After(text)[q - 1], q)
    BY <2>1, AfterIs
  <2>4. QED
    BY <2>1, <2>2, <2>3
<1>11. Has(After(text)[q], s.rows, s.row, <<>>, TRUE, FALSE)
  BY <1>8, <1>10, PlainIs
<1>12. 0 \in T
  <2>1. whole[0] = <<>> /\ Len(<<>>) = 0 /\ 0 \in 0..N
    BY <1>1, EmptySeq DEF PutTogether
  <2>2. q + 0 = q
    BY <1>10
  <2>3. Has(at(0), s.rows, s.row, Fore(field, 0), TRUE, FALSE)
    BY <1>11, <2>1, <2>2, ForeIs
  <2> HIDE DEF at
  <2>4. QED
    BY <2>1, <2>3, Zenon
<1>13. /\ whole \in [0..N -> Seq(C)] /\ piece \in [1..N -> Seq(C)] /\ whole[0] = <<>>
       /\ \A n \in 1..N : whole[n] = whole[n - 1] \o piece[n]
  BY <1>1 DEF PutTogether
<1>14. \A n \in 1..N : /\ Holds(text, q + Len(whole[n - 1]), piece[n])
                       /\ Len(whole[n]) = Len(whole[n - 1]) + Len(piece[n])
  <2> HIDE DEF N, whole, piece, q
  <2>1. PiecesAt(text, q, N, whole, piece)
    BY <1>1, <1>7, PiecesHold
  <2>2. QED
    BY <2>1 DEF PiecesAt
<1>15. ASSUME NEW k \in 1..N, k - 1 \in T PROVE k \in T
  <2> DEFINE r == q + Len(whole[k - 1])
             b == After(text)[r]
  <2>0. k - 1 \in 0..N /\ k \in 0..N
    BY <1>1
  <2>1. Holds(text, r, piece[k]) /\ Len(whole[k]) = Len(whole[k - 1]) + Len(piece[k])
    BY <1>14
  <2>2. Len(whole[k - 1]) \in Nat /\ r \in Nat /\ r >= q
    BY <1>10, <1>13, <2>0, LenProperties
  <2>3. Has(b, s.rows, s.row, Fore(field, k - 1), TRUE, FALSE)
    BY <1>15
  <2>4. Fore(field, k) = Append(Fore(field, k - 1), field[k])
    BY ForeIs
  <2>5. piece[k] = IF field[k] = Quote THEN <<Quote, Quote>> ELSE <<field[k]>>
    BY DEF DoubledPiece
  <2>6. at(k) = After(text)[r + Len(piece[k])]
    <3> DEFINE l == Len(whole[k - 1])
               m == Len(piece[k])
    <3>1. l \in Nat /\ m \in Nat /\ q \in Nat
      BY <1>10, <1>13, <2>2, LenProperties
    <3> HIDE DEF l, m, q
    <3>2. q + (l + m) = q + l + m
      BY <3>1
    <3>3. QED
      BY <2>1, <3>2 DEF l, m
  <2> HIDE DEF N, at, r, piece, whole, q
  <2>7. CASE field[k] # Quote
    <3>1. piece[k] = <<field[k]>> /\ Len(piece[k]) = 1 /\ piece[k][1] = field[k]
      BY <2>5, <2>7
    <3>2. text[r + 1] = field[k] /\ r + 1 \in 1..Len(text) /\ (r + 1) - 1 = r /\ r \in 0..Len(text)
      BY <1>8, <2>1, <2>2, <3>1 DEF Holds
    <3>3. b \in States(C) /\ at(k) = Scan(text, b, r + 1)
      BY <2>6, <3>1, <3>2, AfterIs
    <3>4. ~b.skip /\ b.quoted
      BY <2>3 DEF Has
    <3>5. Has(at(k), b.rows, b.row, Append(b.field, field[k]), TRUE, FALSE)
      BY <2>7, <3>2, <3>3, <3>4, QuotedIs
    <3>6. Has(at(k), s.rows, s.row, Fore(field, k), TRUE, FALSE)
      BY <2>3, <2>4, <3>5 DEF Has
    <3>7. QED
      BY <2>0, <3>6
  <2>8. CASE field[k] = Quote
    <3> DEFINE c == After(text)[r + 1]
    <3>1. piece[k] = <<Quote, Quote>> /\ Len(piece[k]) = 2 /\ piece[k][1] = Quote /\ piece[k][2] = Quote
      BY <2>5, <2>8
    <3>2. /\ text[r + 1] = Quote /\ r + 1 \in 1..Len(text) /\ (r + 1) - 1 = r /\ r \in 0..Len(text)
          /\ text[r + 2] = Quote /\ r + 2 \in 1..Len(text) /\ (r + 2) - 1 = r + 1 /\ r + 1 \in 0..Len(text)
          /\ r + 1 < Len(text) /\ (r + 1) + 1 = r + 2
      BY <1>8, <2>1, <2>2, <3>1 DEF Holds
    <3>3. b \in States(C) /\ c = Scan(text, b, r + 1) /\ c \in States(C) /\ at(k) = Scan(text, c, r + 2)
      BY <2>6, <3>1, <3>2, AfterIs
    <3>4. ~b.skip /\ b.quoted
      BY <2>3 DEF Has
    <3>5. Next1(text, r + 1) = Quote
      BY <3>2 DEF Next1
    <3>6. Has(c, b.rows, b.row, Append(b.field, Quote), TRUE, TRUE)
      BY <3>2, <3>3, <3>4, <3>5, QuotedIs
    <3> HIDE DEF c
    <3>s. c.skip
      BY <3>6 DEF Has
    <3>7. Has(at(k), c.rows, c.row, c.field, c.quoted, FALSE)
      BY <3>2, <3>3, <3>s, SkipIs
    <3>8. Has(at(k), s.rows, s.row, Fore(field, k), TRUE, FALSE)
      BY <2>3, <2>4, <2>8, <3>6, <3>7 DEF Has
    <3>9. QED
      BY <2>0, <3>8
  <2>9. QED
    BY <2>7, <2>8
<1>16. Has(at(N), s.rows, s.row, field, TRUE, FALSE)
  <2>1. \A k \in 0..N : k \in T
    <3> HIDE DEF T
    <3>1. QED
      BY <1>1, <1>12, <1>15, Climb
  <2>2. N \in 0..N /\ Fore(field, N) = field
    BY <1>1, ForeIs
  <2>3. QED
    BY <2>1, <2>2
<1>17. QED
  <2> DEFINE r == q + Len(whole[N])
  <2>1. /\ r + 1 \in 1..Len(text) /\ (r + 1) - 1 = r /\ r \in 0..Len(text)
        /\ r + 1 = p + Len(Quoted(field)) /\ text[r + 1] = Quote
    BY <1>4, <1>9, <1>10
  <2>2. at(N) \in States(C) /\ After(text)[r + 1] = Scan(text, at(N), r + 1)
    BY <2>1, AfterIs
  <2> HIDE DEF at, r
  <2>3. ~at(N).skip /\ at(N).quoted
    BY <1>16 DEF Has
  <2>4. Next1(text, r + 1) # Quote
    BY <2>1
  <2>5. Has(After(text)[r + 1], at(N).rows, at(N).row, at(N).field, FALSE, FALSE)
    BY <2>1, <2>2, <2>3, <2>4, QuotedIs
  <2>6. QED
    BY <1>16, <2>1, <2>5 DEF Has


\* The text of a field is read as the field, when no quote follows it.
LEMMA FieldScan ==
  ASSUME NEW C, Quote \in C, NEW text \in Seq(C), NEW field \in Seq(C), NEW p,
         Holds(text, p, SerializeField(field)), Next1(text, p + Len(SerializeField(field))) # Quote,
         NEW s, s = After(text)[p], s.field = <<>>, s.quoted = FALSE, s.skip = FALSE
  PROVE  Has(After(text)[p + Len(SerializeField(field))], s.rows, s.row, field, FALSE, FALSE)
<1>1. DOMAIN field = 1..Len(field)
  BY LenProperties
<1>2. CASE \E i \in DOMAIN field : field[i] \in Special
  <2>1. SerializeField(field) = Quoted(field)
    BY <1>2 DEF SerializeField
  <2>2. QED
    BY <2>1, QuotedField
<1>3. CASE ~\E i \in DOMAIN field : field[i] \in Special
  <2>1. SerializeField(field) = field
    BY <1>3 DEF SerializeField
  <2>2. \A k \in 1..Len(field) : field[k] \notin Special
    BY <1>1, <1>3
  <2>3. QED
    BY <2>1, <2>2, PlainField
<1>4. QED
  BY <1>2, <1>3

\* What is written of a field, a line or a grid is a text.
LEMMA FieldText ==
  ASSUME NEW C, Quote \in C, NEW field \in Seq(C)
  PROVE  SerializeField(field) \in Seq(C)
<1>1. PutTogether(DoubledTo(field), Len(field), C, DoubledPiece(field)) /\ Len(field) \in Nat
  BY DoubledIs, LenProperties
<1>2. Doubled(field) \in Seq(C)
  <2>1. Len(field) \in 0..Len(field) /\ DoubledTo(field) \in [0..Len(field) -> Seq(C)]
    BY <1>1 DEF PutTogether
  <2>2. DoubledTo(field)[Len(field)] \in Seq(C)
    BY <2>1
  <2>3. QED
    BY <2>2, DoubledWhole
<1>3. Quoted(field) \in Seq(C)
  <2>1. <<Quote>> \in Seq(C)
    OBVIOUS
  <2>2. <<Quote>> \o Doubled(field) \in Seq(C)
    BY <1>2, <2>1, ConcatProperties
  <2>3. QED
    BY <2>1, <2>2, ConcatProperties DEF Quoted
<1>4. QED
  BY <1>3 DEF SerializeField

LEMMA JoinedText ==
  ASSUME NEW C, NEW texts \in Seq(Seq(C)), NEW separator \in Seq(C)
  PROVE  Intersperse(texts, separator) \in Seq(C)
<1> DEFINE w == JoinedTo(texts, separator)
<1>1. PutTogether(w, Len(texts), C, JoinedPiece(texts, separator)) /\ Len(texts) \in Nat
  BY JoinedIs, LenProperties
<1>2. Len(texts) \in 0..Len(texts) /\ w \in [0..Len(texts) -> Seq(C)]
  BY <1>1 DEF PutTogether
<1> HIDE DEF w
<1>3. w[Len(texts)] \in Seq(C)
  BY <1>2
<1>4. QED
  BY <1>3, JoinedWhole DEF w

\* Where the texts that were joined are, and the separators between them.
Places(text, p, N, texts, separator, place, total) ==
  /\ place \in [1..N -> Nat] /\ place[1] = p /\ place[N] + Len(texts[N]) = p + total
  /\ \A n \in 1..N : Holds(text, place[n], texts[n]) /\ Next1(text, place[n] + Len(texts[n])) # Quote
  /\ \A n \in 2..N : /\ Holds(text, place[n - 1] + Len(texts[n - 1]), separator)
                     /\ place[n] = place[n - 1] + Len(texts[n - 1]) + Len(separator)

\* Where each text begins in what they are joined to.
LEMMA JoinedPlaces ==
  ASSUME NEW C, NEW text \in Seq(C), NEW texts \in Seq(Seq(C)), Len(texts) >= 1,
         NEW separator \in Seq(C), Len(separator) >= 1, separator[1] # Quote,
         NEW p, Holds(text, p, Intersperse(texts, separator)),
         Next1(text, p + Len(Intersperse(texts, separator))) # Quote
  PROVE  \E place : Places(text, p, Len(texts), texts, separator, place, Len(Intersperse(texts, separator)))
<1> DEFINE N == Len(texts)
           whole == JoinedTo(texts, separator)
           piece == JoinedPiece(texts, separator)
           l == Len(separator)
           total == Len(Intersperse(texts, separator))
<1>1. PutTogether(whole, N, C, piece) /\ Intersperse(texts, separator) = whole[N] /\ N \in Nat /\ N >= 1
  BY JoinedIs, JoinedWhole, LenProperties
<1>2. /\ l \in Nat /\ l >= 1 /\ p \in Nat /\ Len(text) \in Nat /\ total = Len(whole[N])
      /\ \A n \in 1..N : texts[n] \in Seq(C)
  BY <1>1, LenProperties, ElementOfSeq DEF Holds
<1>3. \A n \in 1..N : /\ piece[n] = IF n = 1 THEN texts[1] ELSE separator \o texts[n]
                      /\ piece[n] \in Seq(C)
  BY <1>1 DEF JoinedPiece, PutTogether
<1>4. Holds(text, p, whole[N]) /\ Next1(text, p + Len(whole[N])) # Quote
  BY <1>1, <1>2
<1>5. whole \in [0..N -> Seq(C)] /\ whole[0] = <<>>
  BY <1>1 DEF PutTogether
<1> HIDE DEF N, whole, piece, l, total
<1>6. PiecesAt(text, p, N, whole, piece)
  BY <1>1, <1>4, PiecesHold
<1>7. \A n \in 0..N : Len(whole[n]) \in Nat
  <2> TAKE n \in 0..N
  <2>1. whole[n] \in Seq(C)
    BY <1>5
  <2>2. QED
    BY <2>1, LenProperties
<1>8. \A n \in 1..N : Len(texts[n]) \in Nat
  BY <1>2, LenProperties
<1> DEFINE place == [n \in 1..N |-> IF n = 1 THEN p ELSE p + Len(whole[n - 1]) + l]
<1>9. ASSUME NEW n \in 1..N
      PROVE  /\ place[n] \in Nat /\ place[n] + Len(texts[n]) = p + Len(whole[n])
             /\ Holds(text, place[n], texts[n])
             /\ n # 1 => /\ Holds(text, p + Len(whole[n - 1]), separator)
                         /\ place[n] = p + Len(whole[n - 1]) + l
  <2>0. n - 1 \in 0..N /\ n \in 0..N
    BY <1>1
  <2>1. /\ Holds(text, p + Len(whole[n - 1]), piece[n])
        /\ Len(whole[n]) = Len(whole[n - 1]) + Len(piece[n])
    BY <1>6 DEF PiecesAt
  <2>2. CASE n = 1
    <3>1. piece[n] = texts[1] /\ whole[n - 1] = <<>> /\ Len(<<>>) = 0 /\ place[n] = p
      BY <1>3, <1>5, <2>2, EmptySeq
    <3>2. Len(whole[n - 1]) = 0 /\ p + 0 = p
      BY <1>2, <3>1
    <3> HIDE DEF place
    <3>3. p + Len(whole[n - 1]) = p
      BY <3>2
    <3>4. QED
      BY <1>2, <1>8, <2>1, <2>2, <3>1, <3>2, <3>3
  <2>3. CASE n # 1
    <3>1. piece[n] = separator \o texts[n] /\ place[n] = p + Len(whole[n - 1]) + l
      BY <1>3, <2>3
    <3>2. Holds(text, p + Len(whole[n - 1]), separator \o texts[n])
      BY <2>1, <3>1
    <3>3. /\ Holds(text, p + Len(whole[n - 1]), separator)
          /\ Holds(text, p + Len(whole[n - 1]) + Len(separator), texts[n])
      BY <1>2, <3>2, HoldsBoth
    <3>4. Len(piece[n]) = l + Len(texts[n])
      BY <1>2, <3>1, ConcatProperties DEF l
    <3> HIDE DEF place
    <3>5. p + Len(whole[n - 1]) + Len(separator) = place[n]
      BY <3>1 DEF l
    <3>6. /\ Len(whole[n - 1]) \in Nat /\ Len(texts[n]) \in Nat
          /\ Len(whole[n]) = Len(whole[n - 1]) + (l + Len(texts[n]))
      BY <1>7, <1>8, <2>0, <2>1, <3>4
    <3>7. place[n] \in Nat /\ place[n] + Len(texts[n]) = p + Len(whole[n])
      <4> DEFINE a == Len(whole[n - 1])
                 t == Len(texts[n])
      <4>1. /\ a \in Nat /\ t \in Nat /\ l \in Nat /\ p \in Nat
            /\ place[n] = p + a + l /\ Len(whole[n]) = a + (l + t)
        BY <1>2, <3>1, <3>6
      <4> HIDE DEF a, t
      <4>2. p + a + l + t = p + (a + (l + t)) /\ p + a + l \in Nat
        BY <4>1
      <4>3. QED
        BY <4>1, <4>2 DEF t
    <3>8. Holds(text, place[n], texts[n])
      BY <3>3, <3>5
    <3>9. QED
      BY <3>1, <3>3, <3>7, <3>8
  <2>4. QED
    BY <2>2, <2>3
<1>10. place \in [1..N -> Nat] /\ place[1] = p
  BY <1>1, <1>2, <1>9
<1> HIDE DEF place
<1>11. ASSUME NEW n \in 1..N PROVE Next1(text, place[n] + Len(texts[n])) # Quote
  <2>1. CASE n = N
    BY <1>4, <1>9, <2>1
  <2>2. CASE n # N
    <3>1. n + 1 \in 1..N /\ (n + 1) - 1 = n /\ n + 1 # 1 /\ n \in 0..N
      BY <1>1, <2>2
    <3>2. Holds(text, p + Len(whole[n]), separator)
      BY <1>9, <3>1
    <3>3. text[p + Len(whole[n]) + 1] = separator[1] /\ p + Len(whole[n]) < Len(text)
      BY <1>2, <1>7, <3>1, <3>2 DEF Holds, l
    <3>4. Next1(text, p + Len(whole[n])) # Quote
      BY <3>3 DEF Next1
    <3>5. QED
      BY <1>9, <3>4
  <2>3. QED
    BY <2>1, <2>2
<1>12. ASSUME NEW n \in 2..N
       PROVE  /\ Holds(text, place[n - 1] + Len(texts[n - 1]), separator)
              /\ place[n] = place[n - 1] + Len(texts[n - 1]) + l
  <2>1. n \in 1..N /\ n - 1 \in 1..N /\ n # 1
    BY <1>1
  <2>2. place[n - 1] + Len(texts[n - 1]) = p + Len(whole[n - 1])
    BY <1>9, <2>1
  <2>3. QED
    BY <1>9, <2>1, <2>2
<1>13. place[N] + Len(texts[N]) = p + total
  BY <1>1, <1>2, <1>9
<1>14. Places(text, p, N, texts, separator, place, total)
  BY <1>9, <1>10, <1>11, <1>12, <1>13 DEF Places, l
<1>15. QED
  BY <1>14 DEF N, total


\* The lines and fields of a grid as texts.
FieldTexts(row) == [c \in DOMAIN row |-> SerializeField(row[c])]
RowText(row) == Intersperse(FieldTexts(row), <<Tab>>)

LEMMA RowTexts ==
  ASSUME NEW C, Quote \in C, Tab \in C, NEW row \in Seq(Seq(C))
  PROVE  /\ FieldTexts(row) \in Seq(Seq(C)) /\ Len(FieldTexts(row)) = Len(row)
         /\ \A n \in 1..Len(row) : FieldTexts(row)[n] = SerializeField(row[n])
         /\ <<Tab>> \in Seq(C) /\ RowText(row) \in Seq(C)
<1>1. Len(row) \in Nat /\ DOMAIN row = 1..Len(row) /\ \A n \in 1..Len(row) : row[n] \in Seq(C)
  BY LenProperties, ElementOfSeq
<1>2. FieldTexts(row) \in [1..Len(row) -> Seq(C)]
  <2>1. \A n \in 1..Len(row) : SerializeField(row[n]) \in Seq(C)
    BY <1>1, FieldText
  <2>2. QED
    BY <1>1, <2>1 DEF FieldTexts
<1>3. FieldTexts(row) \in Seq(Seq(C)) /\ Len(FieldTexts(row)) = Len(row)
  <2> DEFINE t == FieldTexts(row)
             N == Len(row)
  <2>1. N \in Nat /\ t \in [1..N -> Seq(C)]
    BY <1>1, <1>2
  <2> HIDE DEF t, N
  <2>2. t \in Seq(Seq(C)) /\ Len(t) = N
    BY <2>1
  <2>3. QED
    BY <2>2 DEF t, N
<1>4. <<Tab>> \in Seq(C)
  OBVIOUS
<1>5. QED
  BY <1>1, <1>3, <1>4, JoinedText DEF FieldTexts, RowText

\* The text of a row is read as its fields, of which the last waits for the row to end.
LEMMA RowScan ==
  ASSUME NEW C, Quote \in C, Tab \in C, NEW text \in Seq(C), NEW row \in Block(C), NEW p,
         Holds(text, p, RowText(row)), Next1(text, p + Len(RowText(row))) # Quote,
         NEW s, s = After(text)[p], s.row = <<>>, s.field = <<>>, s.quoted = FALSE, s.skip = FALSE
  PROVE  Has(After(text)[p + Len(RowText(row))], s.rows, Fore(row, Len(row) - 1), row[Len(row)], FALSE, FALSE)
<1> DEFINE N == Len(row)
           texts == FieldTexts(row)
           total == Len(RowText(row))
<1>1. row \in Seq(Seq(C)) /\ N \in Nat /\ N >= 1 /\ \A n \in 1..N : row[n] \in Seq(C)
  <2>1. row \in Seq(Seq(C)) /\ row # <<>>
    BY DEF Block
  <2>2. Len(row) # 0
    BY <2>1, EmptySeq
  <2>3. QED
    BY <2>1, <2>2, LenProperties, ElementOfSeq
<1>2. /\ texts \in Seq(Seq(C)) /\ Len(texts) = N /\ <<Tab>> \in Seq(C)
      /\ \A n \in 1..N : texts[n] = SerializeField(row[n])
  BY <1>1, RowTexts
<1>3. Len(<<Tab>>) = 1 /\ <<Tab>>[1] = Tab /\ Tab # Quote
  BY DEF Tab, Quote
<1>4. PICK place : Places(text, p, N, texts, <<Tab>>, place, total)
  <2> HIDE DEF texts
  <2>1. RowText(row) = Intersperse(texts, <<Tab>>)
    BY DEF RowText, texts
  <2>2. /\ Len(texts) >= 1 /\ Len(<<Tab>>) >= 1 /\ <<Tab>>[1] # Quote
        /\ Holds(text, p, Intersperse(texts, <<Tab>>))
        /\ Next1(text, p + Len(Intersperse(texts, <<Tab>>))) # Quote
    BY <1>1, <1>2, <1>3, <2>1
  <2>3. \E place : Places(text, p, Len(texts), texts, <<Tab>>, place, Len(Intersperse(texts, <<Tab>>)))
    BY <1>2, <2>2, JoinedPlaces
  <2>4. QED
    BY <1>2, <2>1, <2>3
<1> DEFINE at(n) == After(text)[place[n] + Len(texts[n])]
           T == {n \in 0..N : n # 0 => Has(at(n), s.rows, Fore(row, n - 1), row[n], FALSE, FALSE)}
<1> HIDE DEF N, texts, total
<1>5. 0 \in T
  BY <1>1
<1>6. ASSUME NEW n \in 1..N, n - 1 \in T PROVE n \in T
  <2>1. /\ n \in 0..N /\ Holds(text, place[n], SerializeField(row[n])) /\ texts[n] = SerializeField(row[n])
        /\ Next1(text, place[n] + Len(SerializeField(row[n]))) # Quote /\ row[n] \in Seq(C)
    <3>1. n \in 0..N
      BY <1>1
    <3>2. Holds(text, place[n], texts[n]) /\ Next1(text, place[n] + Len(texts[n])) # Quote
      BY <1>4 DEF Places
    <3>3. QED
      BY <1>1, <1>2, <3>1, <3>2
  <2>2. ASSUME After(text)[place[n]].field = <<>>, After(text)[place[n]].quoted = FALSE,
               After(text)[place[n]].skip = FALSE, After(text)[place[n]].rows = s.rows,
               After(text)[place[n]].row = Fore(row, n - 1)
        PROVE  n \in T
    <3> DEFINE b == After(text)[place[n]]
    <3>1. b.field = <<>> /\ b.quoted = FALSE /\ b.skip = FALSE /\ b.rows = s.rows /\ b.row = Fore(row, n - 1)
      BY <2>2
    <3> HIDE DEF b
    <3>2. b = After(text)[place[n]]
      BY DEF b
    <3>3. Has(at(n), b.rows, b.row, row[n], FALSE, FALSE)
      BY <2>1, <3>1, <3>2, FieldScan
    <3>4. Has(at(n), s.rows, Fore(row, n - 1), row[n], FALSE, FALSE)
      BY <3>1, <3>3
    <3> HIDE DEF at
    <3>5. QED
      BY <2>1, <3>4
  <2>3. CASE n = 1
    <3>1. place[n] = p /\ Fore(row, n - 1) = <<>>
      BY <1>1, <1>4, <2>3, ForeIs DEF Places
    <3>2. QED
      BY <2>2, <3>1
  <2>4. CASE n # 1
    <3> DEFINE q == place[n - 1] + Len(texts[n - 1])
    <3>1. /\ n - 1 # 0 /\ n - 1 \in 1..N /\ n \in 2..N /\ n - 1 - 1 = n - 2
          /\ Fore(row, n - 1) = Append(Fore(row, n - 2), row[n - 1])
      <4>1. n - 1 # 0 /\ n - 1 \in 1..N /\ n \in 2..N /\ n - 1 - 1 = n - 2
        BY <1>1, <2>4
      <4>2. n - 1 \in 1..Len(row)
        BY <4>1 DEF N
      <4>3. Fore(row, n - 1) = Append(Fore(row, (n - 1) - 1), row[n - 1])
        BY <1>1, <4>2, ForeIs
      <4>4. QED
        BY <4>1, <4>3
    <3>2. Has(at(n - 1), s.rows, Fore(row, n - 2), row[n - 1], FALSE, FALSE)
      BY <1>6, <3>1
    <3>3. Holds(text, q, <<Tab>>) /\ place[n] = q + 1
      BY <1>3, <1>4, <3>1 DEF Places
    <3> HIDE DEF q
    <3>4. q \in Nat /\ text[q + 1] = Tab /\ q + 1 \in 1..Len(text) /\ (q + 1) - 1 = q /\ q \in 0..Len(text)
      BY <1>3, <3>3, LenProperties DEF Holds
    <3> DEFINE a == After(text)[q]
               b == After(text)[place[n]]
    <3>5. a \in States(C) /\ b = Scan(text, a, q + 1)
      BY <3>3, <3>4, AfterIs
    <3>6. Has(a, s.rows, Fore(row, n - 2), row[n - 1], FALSE, FALSE)
      BY <3>2 DEF q
    <3> HIDE DEF a
    <3>7. ~a.skip /\ ~a.quoted
      BY <3>6 DEF Has
    <3>8. Has(Scan(text, a, q + 1), a.rows, Append(a.row, a.field), <<>>, FALSE, FALSE)
      BY <3>4, <3>5, <3>7, PlainIs
    <3>9. Has(b, s.rows, Fore(row, n - 1), <<>>, FALSE, FALSE)
      BY <3>1, <3>5, <3>6, <3>8 DEF Has
    <3>10. QED
      BY <2>2, <3>9 DEF Has
  <2>5. QED
    BY <2>3, <2>4
<1>7. N \in T
  <2> HIDE DEF T
  <2>1. \A n \in 0..N : n \in T
    BY <1>1, <1>5, <1>6, Climb
  <2>2. QED
    BY <1>1, <2>1
<1>8. place[N] + Len(texts[N]) = p + total
  BY <1>4 DEF Places
<1>9. Has(at(N), s.rows, Fore(row, N - 1), row[N], FALSE, FALSE)
  <2>1. N # 0
    BY <1>1
  <2> HIDE DEF at
  <2>2. QED
    BY <1>7, <2>1
<1>10. QED
  BY <1>8, <1>9 DEF total, N


RowTextsOf(grid) == [r \in DOMAIN grid |-> RowText(grid[r])]

LEMMA GridTexts ==
  ASSUME NEW C, Special \subseteq C, NEW grid \in Seq(Seq(Seq(C)))
  PROVE  /\ RowTextsOf(grid) \in Seq(Seq(C)) /\ Len(RowTextsOf(grid)) = Len(grid)
         /\ \A n \in 1..Len(grid) : RowTextsOf(grid)[n] = RowText(grid[n])
         /\ <<CR, LF>> \in Seq(C) /\ Serialize(grid) \in Seq(C)
         /\ Serialize(grid) = Intersperse(RowTextsOf(grid), <<CR, LF>>)
<1>0. Quote \in C /\ Tab \in C /\ CR \in C /\ LF \in C
  BY DEF Special
<1>1. Len(grid) \in Nat /\ DOMAIN grid = 1..Len(grid) /\ \A n \in 1..Len(grid) : grid[n] \in Seq(Seq(C))
  BY LenProperties, ElementOfSeq
<1>2. RowTextsOf(grid) \in [1..Len(grid) -> Seq(C)]
  <2>1. \A n \in 1..Len(grid) : RowText(grid[n]) \in Seq(C)
    BY <1>0, <1>1, RowTexts
  <2>2. QED
    BY <1>1, <2>1 DEF RowTextsOf
<1>3. RowTextsOf(grid) \in Seq(Seq(C)) /\ Len(RowTextsOf(grid)) = Len(grid)
  <2> DEFINE t == RowTextsOf(grid)
             N == Len(grid)
  <2>1. N \in Nat /\ t \in [1..N -> Seq(C)]
    BY <1>1, <1>2
  <2> HIDE DEF t, N
  <2>2. t \in Seq(Seq(C)) /\ Len(t) = N
    BY <2>1
  <2>3. QED
    BY <2>2 DEF t, N
<1>4. <<CR, LF>> \in Seq(C)
  BY <1>0
<1>5. Serialize(grid) = Intersperse(RowTextsOf(grid), <<CR, LF>>)
  BY DEF Serialize, RowTextsOf, RowText, FieldTexts
<1>6. QED
  BY <1>1, <1>3, <1>4, <1>5, JoinedText DEF RowTextsOf

\* Rows that are not empty are rows.
LEMMA RowsOfFields ==
  ASSUME NEW C, NEW grid \in Seq(Block(C))
  PROVE  grid \in Seq(Seq(Seq(C)))
<1>1. Len(grid) \in Nat /\ grid \in [1..Len(grid) -> Block(C)] /\ Block(C) \subseteq Seq(Seq(C))
  BY LenProperties DEF Block
<1> DEFINE N == Len(grid)
<1>2. N \in Nat /\ grid \in [1..N -> Seq(Seq(C))]
  BY <1>1
<1> HIDE DEF N
<1>3. QED
  BY <1>2

\* The text of a grid is read as the grid.
LEMMA GridScan ==
  ASSUME NEW C, Special \subseteq C, NEW grid \in Seq(Block(C)), grid # <<>>
  PROVE  EndRow(Scanned(Serialize(grid))).rows = grid
<1> DEFINE N == Len(grid)
           texts == RowTextsOf(grid)
           text == Serialize(grid)
           total == Len(text)
<1>0. Quote \in C /\ Tab \in C /\ Quote # CR /\ Len(<<CR, LF>>) = 2 /\ <<CR, LF>>[1] = CR /\ <<CR, LF>>[2] = LF
  BY DEF Special, Quote, CR
<1>1. grid \in Seq(Block(C)) /\ N \in Nat /\ N >= 1 /\ \A n \in 1..N : grid[n] \in Block(C)
  <2>1. Len(grid) # 0
    BY EmptySeq
  <2>2. QED
    BY <2>1, LenProperties, ElementOfSeq
<1>2. /\ texts \in Seq(Seq(C)) /\ Len(texts) = N /\ <<CR, LF>> \in Seq(C) /\ text \in Seq(C)
      /\ text = Intersperse(texts, <<CR, LF>>) /\ total \in Nat
      /\ \A n \in 1..N : texts[n] = RowText(grid[n])
  <2>1. grid \in Seq(Seq(Seq(C)))
    BY RowsOfFields
  <2>2. QED
    BY <2>1, GridTexts, LenProperties
<1>3. PICK place : Places(text, 0, N, texts, <<CR, LF>>, place, total)
  <2> HIDE DEF texts, text
  <2>1. Holds(text, 0, text) /\ Next1(text, 0 + Len(text)) # Quote
    BY <1>2 DEF Holds, Next1, Quote
  <2>2. /\ Len(texts) >= 1 /\ Len(<<CR, LF>>) >= 1 /\ <<CR, LF>>[1] # Quote
        /\ Holds(text, 0, Intersperse(texts, <<CR, LF>>))
        /\ Next1(text, 0 + Len(Intersperse(texts, <<CR, LF>>))) # Quote
    BY <1>0, <1>1, <1>2, <2>1
  <2>3. \E place : Places(text, 0, Len(texts), texts, <<CR, LF>>, place, Len(Intersperse(texts, <<CR, LF>>)))
    BY <1>2, <2>2, JoinedPlaces
  <2>4. QED
    BY <1>2, <2>3
<1> DEFINE at(n) == After(text)[place[n] + Len(texts[n])]
           Read(n) == Has(at(n), Fore(grid, n - 1), Fore(grid[n], Len(grid[n]) - 1), grid[n][Len(grid[n])], FALSE, FALSE)
           T == {n \in 0..N : n # 0 => Read(n)}
<1>w. ASSUME NEW n \in 1..N
      PROVE  Append(Fore(grid[n], Len(grid[n]) - 1), grid[n][Len(grid[n])]) = grid[n]
  <2>1. grid[n] \in Seq(Seq(C)) /\ grid[n] # <<>>
    BY <1>1 DEF Block
  <2> DEFINE row == grid[n]
  <2> HIDE DEF row
  <2>2. row \in Seq(Seq(C)) /\ Len(row) # 0
    BY <2>1, EmptySeq DEF row
  <2>3. Len(row) \in 1..Len(row)
    BY <2>2, LenProperties
  <2>4. Fore(row, Len(row)) = row
    BY <2>2, ForeIs
  <2>5. Fore(row, Len(row)) = Append(Fore(row, Len(row) - 1), row[Len(row)])
    BY <2>2, <2>3, ForeIs
  <2>6. QED
    BY <2>4, <2>5 DEF row
<1> HIDE DEF N, texts, text, total
<1>4. 0 \in T
  BY <1>1
<1>5. ASSUME NEW n \in 1..N, n - 1 \in T PROVE n \in T
  <2>1. /\ n \in 0..N /\ Holds(text, place[n], RowText(grid[n])) /\ texts[n] = RowText(grid[n])
        /\ Next1(text, place[n] + Len(RowText(grid[n]))) # Quote /\ grid[n] \in Block(C)
    <3>1. n \in 0..N
      BY <1>1
    <3>2. Holds(text, place[n], texts[n]) /\ Next1(text, place[n] + Len(texts[n])) # Quote
      BY <1>3 DEF Places
    <3>3. QED
      BY <1>1, <1>2, <3>1, <3>2
  <2>2. ASSUME Has(After(text)[place[n]], Fore(grid, n - 1), <<>>, <<>>, FALSE, FALSE)
        PROVE  n \in T
    <3> DEFINE b == After(text)[place[n]]
    <3>1. b.field = <<>> /\ b.quoted = FALSE /\ b.skip = FALSE /\ b.rows = Fore(grid, n - 1) /\ b.row = <<>>
      BY <2>2 DEF Has
    <3> HIDE DEF b
    <3>2. b = After(text)[place[n]]
      BY DEF b
    <3>3. Has(at(n), b.rows, Fore(grid[n], Len(grid[n]) - 1), grid[n][Len(grid[n])], FALSE, FALSE)
      BY <1>0, <1>2, <2>1, <3>1, <3>2, RowScan
    <3>4. Read(n)
      BY <3>1, <3>3
    <3> HIDE DEF Read
    <3>5. QED
      BY <2>1, <3>4
  <2>3. CASE n = 1
    <3>1. place[n] = 0 /\ Fore(grid, n - 1) = <<>>
      BY <1>1, <1>3, <2>3, ForeIs DEF Places
    <3>2. 0 \in 0..Len(text) /\ After(text)[0] = Started
      BY <1>2, AfterIs, LenProperties
    <3>3. Has(Started, <<>>, <<>>, <<>>, FALSE, FALSE)
      BY DEF Has, Started
    <3>4. QED
      BY <2>2, <3>1, <3>2, <3>3
  <2>4. CASE n # 1
    <3> DEFINE q == place[n - 1] + Len(texts[n - 1])
    <3>1. n - 1 # 0 /\ n - 1 \in 1..N /\ n \in 2..N
      BY <1>1, <2>4
    <3>2. Read(n - 1)
      <4> HIDE DEF Read
      <4>1. QED
        BY <1>5, <3>1
    <3>3. Holds(text, q, <<CR, LF>>) /\ place[n] = q + 2
      BY <1>0, <1>3, <3>1 DEF Places
    <3> HIDE DEF q
    <3>4. /\ q \in Nat /\ text[q + 1] = CR /\ q + 1 \in 1..Len(text) /\ (q + 1) - 1 = q /\ q \in 0..Len(text)
          /\ (q + 1) + 1 = q + 2 /\ q + 2 \in 1..Len(text) /\ (q + 2) - 1 = q + 1 /\ q + 1 \in 0..Len(text)
          /\ q + 1 < Len(text) /\ text[q + 2] = LF
      <4>1. Len(text) \in Nat
        BY <1>2, LenProperties
      <4>2. q \in Nat /\ q + 2 <= Len(text) /\ \A k \in 1..2 : text[q + k] = <<CR, LF>>[k]
        BY <1>0, <3>3 DEF Holds
      <4>3. text[q + 1] = CR /\ text[q + 2] = LF
        BY <1>0, <4>2
      <4>4. QED
        BY <4>1, <4>2, <4>3
    <3> DEFINE a == After(text)[q]
               b == After(text)[q + 1]
               c == After(text)[place[n]]
    <3>5. a \in States(C) /\ b = Scan(text, a, q + 1) /\ b \in States(C) /\ c = Scan(text, b, q + 2)
      BY <1>2, <3>3, <3>4, AfterIs
    <3>6. Has(a, Fore(grid, n - 2), Fore(grid[n - 1], Len(grid[n - 1]) - 1), grid[n - 1][Len(grid[n - 1])], FALSE, FALSE)
      <4>1. (n - 1) - 1 = n - 2
        OBVIOUS
      <4>2. QED
        BY <3>2, <4>1 DEF q
    <3>7. Append(Fore(grid[n - 1], Len(grid[n - 1]) - 1), grid[n - 1][Len(grid[n - 1])]) = grid[n - 1]
      BY <1>w, <3>1
    <3>8. Fore(grid, n - 1) = Append(Fore(grid, n - 2), grid[n - 1])
      <4>1. n - 1 \in 1..Len(grid) /\ (n - 1) - 1 = n - 2
        BY <3>1 DEF N
      <4>2. QED
        BY <1>1, <4>1, ForeIs
    <3> HIDE DEF a, b, c
    <3>9. ~a.skip /\ ~a.quoted /\ Append(a.rows, Append(a.row, a.field)) = Fore(grid, n - 1)
      BY <3>6, <3>7, <3>8 DEF Has
    <3>10. Next1(text, q + 1) = LF
      BY <3>4 DEF Next1
    <3>11. Has(b, Append(a.rows, Append(a.row, a.field)), <<>>, <<>>, FALSE, TRUE)
      BY <1>2, <3>4, <3>5, <3>9, <3>10, PlainIs
    <3>12. b.skip
      BY <3>11 DEF Has
    <3>13. Has(c, b.rows, b.row, b.field, b.quoted, FALSE)
      BY <1>2, <3>4, <3>5, <3>12, SkipIs
    <3>14. Has(c, Fore(grid, n - 1), <<>>, <<>>, FALSE, FALSE)
      BY <3>9, <3>11, <3>13 DEF Has
    <3>15. QED
      BY <2>2, <3>14 DEF c
  <2>5. QED
    BY <2>3, <2>4
<1>6. Read(N)
  <2> HIDE DEF Read
  <2>1. \A n \in 0..N : n \in T
    <3> HIDE DEF T
    <3>1. QED
      BY <1>1, <1>4, <1>5, Climb
  <2>2. N \in 0..N /\ N # 0
    BY <1>1
  <2>3. QED
    BY <2>1, <2>2
<1>7. at(N) = Scanned(text)
  <2>1. place[N] + Len(texts[N]) = total
    BY <1>2, <1>3 DEF Places
  <2>2. Scanned(text) = After(text)[Len(text)]
    BY DEF Scanned, After
  <2>3. QED
    BY <2>1, <2>2 DEF total
<1> DEFINE s == Scanned(text)
<1>8. s \in States(C)
  <2>1. Len(text) \in 0..Len(text) /\ After(text)[Len(text)] \in States(C)
    BY <1>2, AfterIs DEF total
  <2>2. QED
    BY <2>1 DEF Scanned, After
<1>9. Has(s, Fore(grid, N - 1), Fore(grid[N], Len(grid[N]) - 1), grid[N][Len(grid[N])], FALSE, FALSE)
  BY <1>6, <1>7
<1> HIDE DEF s
<1>10. Has(EndRow(s), Append(s.rows, Append(s.row, s.field)), <<>>, <<>>, s.quoted, s.skip)
  BY <1>8, RowEnds
<1>11. Append(s.row, s.field) = grid[N]
  BY <1>1, <1>9, <1>w DEF Has
<1>12. Append(Fore(grid, N - 1), grid[N]) = grid
  <2>1. N \in 1..Len(grid) /\ N = Len(grid)
    BY <1>1 DEF N
  <2>2. QED
    BY <1>1, <2>1, ForeIs
<1>13. EndRow(s).rows = grid
  BY <1>9, <1>10, <1>11, <1>12 DEF Has
<1>14. QED
  BY <1>13 DEF s, text


\* A text is read as a block of rows, each of at least one field.
LEMMA ParseTyped ==
  ASSUME NEW C, NEW text \in Seq(C)
  PROVE  Parse(text) \in Seq(Block(C)) /\ Len(Parse(text)) >= 1
<1> DEFINE s == Scanned(text)
           rows == EndRow(s).rows
<1>1. s \in States(C)
  <2>1. Len(text) \in 0..Len(text) /\ After(text)[Len(text)] \in States(C)
    BY AfterIs, LenProperties
  <2>2. QED
    BY <2>1 DEF Scanned, After
<1> HIDE DEF s
<1>2. rows \in Seq(Block(C)) /\ Len(rows) >= 1
  <2>1. EndRow(s) \in States(C) /\ rows = Append(s.rows, Append(s.row, s.field)) /\ s.rows \in Seq(Block(C))
    BY <1>1, RowEnds DEF Has, States
  <2>2. rows \in Seq(Block(C))
    BY <2>1 DEF States
  <2>3. Len(Append(s.rows, Append(s.row, s.field))) = Len(s.rows) + 1 /\ Len(s.rows) \in Nat
    <3> DEFINE e == Append(s.row, s.field)
    <3>1. e \in Block(C)
      BY <1>1, BlockGrows DEF States
    <3> HIDE DEF e
    <3>2. QED
      BY <2>1, <3>1, AppendProperties, LenProperties DEF e
  <2>4. QED
    BY <2>1, <2>2, <2>3
<1> HIDE DEF rows
<1>3. Len(rows) > 1 => Front(rows) \in Seq(Block(C)) /\ Len(Front(rows)) = Len(rows) - 1
  <2> SUFFICES ASSUME Len(rows) > 1 PROVE Front(rows) \in Seq(Block(C)) /\ Len(Front(rows)) = Len(rows) - 1
    OBVIOUS
  <2>1. Len(rows) \in Nat /\ \A i \in 1..(Len(rows) - 1) : rows[i] \in Block(C)
    BY <1>2, LenProperties, ElementOfSeq
  <2>2. QED
    BY <2>1, SubSeqProperties DEF Front
<1>4. Parse(text) = IF Len(rows) > 1 /\ Last(rows) = << <<>> >> THEN Front(rows) ELSE rows
  BY DEF Parse, DropArtifact, rows, s
<1>5. Len(rows) \in Nat
  BY <1>2, LenProperties
<1>6. QED
  BY <1>2, <1>3, <1>4, <1>5

\* What the grid writes to the clipboard is what it would read from it, whatever the
\* fields hold: tabs, quotes, line ends, nothing.  Only a last line that is one empty
\* field, after others, is lost (serializeDataGridClipboardText,
\* parseDataGridClipboardText).
THEOREM ClipboardRoundTrip ==
  ASSUME NEW C, Special \subseteq C, NEW grid \in Seq(Seq(Seq(C)) \ {<<>>}), grid # <<>>
  PROVE  RoundTrip(grid)
<1>1. grid \in Seq(Block(C))
  BY DEF Block
<1>2. EndRow(Scanned(Serialize(grid))).rows = grid
  BY <1>1, GridScan
<1>3. Parse(Serialize(grid)) = DropArtifact(grid)
  BY <1>2 DEF Parse
<1>4. QED
  BY <1>3 DEF RoundTrip, DropArtifact, LooksEnded

------------------------------------------------------------------------------
(* Numbers in order *)

\* How many of a set are up to a number.
LEMMA UpToGrows ==
  ASSUME NEW S, S \subseteq Nat, IsFiniteSet(S), NEW t \in Nat
  PROVE  /\ IsFiniteSet(UpTo(S, t)) /\ Cardinality(UpTo(S, t)) \in Nat
         /\ Cardinality(UpTo(S, t)) <= Cardinality(S) /\ Cardinality(S) \in Nat
         /\ \A n \in S : n <= t => Cardinality(UpTo(S, n)) <= Cardinality(UpTo(S, t))
         /\ \A n \in S : n > t => Cardinality(UpTo(S, n)) > Cardinality(UpTo(S, t))
<1>1. /\ UpTo(S, t) \subseteq S /\ IsFiniteSet(UpTo(S, t)) /\ Cardinality(UpTo(S, t)) \in Nat
      /\ Cardinality(UpTo(S, t)) <= Cardinality(S) /\ Cardinality(S) \in Nat
  <2>1. UpTo(S, t) \subseteq S
    BY DEF UpTo
  <2>2. QED
    BY <2>1, FS_Subset, FS_CardinalityType
<1>2. ASSUME NEW n \in S, n <= t PROVE Cardinality(UpTo(S, n)) <= Cardinality(UpTo(S, t))
  <2>0. n \in Nat /\ \A m \in S : m \in Nat /\ (m <= n => m <= t)
    BY <1>2
  <2>1. UpTo(S, n) \subseteq UpTo(S, t)
    BY <2>0 DEF UpTo
  <2>2. QED
    BY <1>1, <2>1, FS_Subset
<1>3. ASSUME NEW n \in S, n > t PROVE Cardinality(UpTo(S, n)) > Cardinality(UpTo(S, t))
  <2> DEFINE A == UpTo(S, t)
             B == UpTo(S, n)
  <2>0. n \in Nat /\ n <= n /\ ~(n <= t) /\ \A m \in S : m \in Nat /\ (m <= t => m <= n)
    BY <1>3
  <2>1. A \cup {n} \subseteq B /\ n \notin A /\ B \subseteq S
    BY <2>0 DEF UpTo
  <2> HIDE DEF A, B
  <2>2. IsFiniteSet(A) /\ IsFiniteSet(B)
    BY <1>1, <2>1, FS_Subset DEF A
  <2>3. Cardinality(A \cup {n}) = Cardinality(A) + 1 /\ IsFiniteSet(A \cup {n})
    BY <2>1, <2>2, FS_AddElement
  <2>4. Cardinality(A \cup {n}) <= Cardinality(B) /\ Cardinality(A) \in Nat /\ Cardinality(B) \in Nat
    BY <2>1, <2>2, FS_Subset, FS_CardinalityType
  <2>5. Cardinality(B) > Cardinality(A)
    BY <2>3, <2>4
  <2>6. QED
    BY <2>5 DEF A, B
<1>4. QED
  BY <1>1, <1>2, <1>3

\* The numbers of a set are taken from the first to the one that t cuts off.
LEMMA FirstNumbers ==
  ASSUME NEW S, S \subseteq Nat, IsFiniteSet(S), NEW t \in Nat
  PROVE  FirstN(S, Cardinality(UpTo(S, t))) = UpTo(S, t)
<1>1. \A n \in S : n <= t <=> Cardinality(UpTo(S, n)) <= Cardinality(UpTo(S, t))
  <2> TAKE n \in S
  <2>1. n \in Nat
    OBVIOUS
  <2>2. Cardinality(UpTo(S, n)) \in Nat /\ Cardinality(UpTo(S, t)) \in Nat
    BY <2>1, UpToGrows
  <2>3. CASE n <= t
    BY <2>3, UpToGrows
  <2>4. CASE ~(n <= t)
    <3>1. n > t
      BY <2>1, <2>4
    <3>2. Cardinality(UpTo(S, n)) > Cardinality(UpTo(S, t))
      BY <3>1, UpToGrows
    <3>3. QED
      BY <2>2, <2>4, <3>2
  <2>5. QED
    BY <2>3, <2>4
<1>2. QED
  BY <1>1 DEF FirstN, UpTo

\* The numbers of a set in order: as many as there are, each of them in the set.
LEMMA AscendingIs ==
  ASSUME NEW S, S \subseteq Nat, IsFiniteSet(S)
  PROVE  /\ Ascending(S) \in Seq(S) /\ Len(Ascending(S)) = Cardinality(S)
         /\ DOMAIN Ascending(S) = 1..Cardinality(S) /\ Cardinality(S) \in Nat
         /\ \A i \in 1..Cardinality(S) : Ascending(S)[i] \in S
<1> DEFINE N == Cardinality(S)
           T == {i \in 0..N : i # 0 => \E n \in S : Cardinality(UpTo(S, n)) = i}
<1>1. N \in Nat
  BY FS_CardinalityType
<1>2. \A i \in 0..N : i \in T
  <2>1. 0 \in T
    BY <1>1
  <2>2. ASSUME NEW i \in 1..N, i - 1 \in T PROVE i \in T
    <3>0. i \in 0..N
      BY <1>1
    <3>1. PICK R : R \subseteq S /\ Cardinality(R) = i - 1 /\ \A n \in S \ R, m \in R : m <= n
      <4>1. CASE i = 1
        <5>1. Cardinality({}) = i - 1
          BY <4>1, FS_EmptySet
        <5>2. QED
          BY <5>1
      <4>2. CASE i # 1
        <5>1. PICK n \in S : Cardinality(UpTo(S, n)) = i - 1
          BY <2>2, <4>2
        <5>2. UpTo(S, n) \subseteq S /\ \A k \in S \ UpTo(S, n), m \in UpTo(S, n) : m <= k
          BY DEF UpTo
        <5>3. QED
          BY <5>1, <5>2
      <4>3. QED
        BY <4>1, <4>2
    <3>2. S \ R # {} /\ S \ R \subseteq Nat
      <4>1. R = S => i - 1 = N
        BY <3>1
      <4>2. R # S
        BY <1>1, <4>1
      <4>3. QED
        BY <3>1, <4>2
    <3>3. PICK n \in S \ R : \A k \in S \ R : n <= k
      BY <3>2, LeastNumber
    <3>4. UpTo(S, n) = R \cup {n}
      <4>1. \A m \in R : m <= n
        BY <3>1
      <4>2. \A k \in S \ R : k <= n => k = n
        BY <3>2, <3>3
      <4>3. n <= n /\ n \in S
        BY <3>2
      <4>4. QED
        BY <3>1, <4>1, <4>2, <4>3 DEF UpTo
    <3>5. Cardinality(R \cup {n}) = (i - 1) + 1
      <4>1. IsFiniteSet(R) /\ n \notin R
        BY <3>1, <3>3, FS_Subset
      <4>2. QED
        BY <3>1, <4>1, FS_AddElement
    <3>6. Cardinality(UpTo(S, n)) = i /\ n \in S
      BY <3>4, <3>5
    <3>7. QED
      BY <3>0, <3>6
  <2>3. QED
    <3> HIDE DEF T, N
    <3>1. QED
      BY <1>1, <2>1, <2>2, Climb
<1>3. ASSUME NEW i \in 1..N PROVE Ascending(S)[i] \in S
  <2>1. i \in 0..N /\ i # 0
    BY <1>1
  <2>2. \E n \in S : Cardinality(UpTo(S, n)) = i
    BY <1>2, <2>1
  <2>3. Ascending(S)[i] = CHOOSE n \in S : Cardinality(UpTo(S, n)) = i
    BY DEF Ascending
  <2>4. QED
    BY <2>2, <2>3
<1>4. Ascending(S) \in [1..N -> S]
  BY <1>3 DEF Ascending
<1> DEFINE a == Ascending(S)
<1> HIDE DEF N, a
<1>5. a \in [1..N -> S] /\ N \in Nat
  BY <1>1, <1>4 DEF a
<1>6. a \in Seq(S) /\ Len(a) = N /\ DOMAIN a = 1..N
  BY <1>5
<1>7. QED
  BY <1>1, <1>3, <1>6 DEF a, N


\* and every number of the set is among them.
LEMMA AscendingIsOnto ==
  ASSUME NEW S, S \subseteq Nat, IsFiniteSet(S), NEW n \in S
  PROVE  \E i \in 1..Cardinality(S) : Ascending(S)[i] = n
<1> DEFINE i == Cardinality(UpTo(S, n))
<1>1. i \in 1..Cardinality(S)
  <2>1. n \in UpTo(S, n) /\ n \in Nat
    BY DEF UpTo
  <2>2. IsFiniteSet(UpTo(S, n)) /\ i \in Nat /\ i <= Cardinality(S) /\ Cardinality(S) \in Nat
    BY <2>1, UpToGrows
  <2>3. i # 0
    BY <2>1, <2>2, FS_EmptySet
  <2>4. QED
    BY <2>2, <2>3
<1>2. \A m \in S : Cardinality(UpTo(S, m)) = i => m = n
  <2> SUFFICES ASSUME NEW m \in S, Cardinality(UpTo(S, m)) = i PROVE m = n
    OBVIOUS
  <2>1. m \in Nat /\ n \in Nat
    OBVIOUS
  <2>2. i \in Nat /\ Cardinality(UpTo(S, m)) \in Nat
    BY <2>1, UpToGrows
  <2>3. m > n => Cardinality(UpTo(S, m)) > i
    BY <2>1, UpToGrows
  <2>4. n > m => i > Cardinality(UpTo(S, m))
    BY <2>1, UpToGrows
  <2> HIDE DEF i
  <2>5. QED
    BY <2>1, <2>2, <2>3, <2>4
<1>3. Ascending(S)[i] = CHOOSE m \in S : Cardinality(UpTo(S, m)) = i
  <2> HIDE DEF i
  <2>1. QED
    BY <1>1 DEF Ascending
<1>4. Ascending(S)[i] = n
  <2> HIDE DEF i
  <2>1. \E m \in S : Cardinality(UpTo(S, m)) = i
    BY DEF i
  <2>2. QED
    BY <1>2, <1>3, <2>1
<1>5. QED
  BY <1>1, <1>4

\* A finite set of numbers has a greatest one.
LEMMA GreatestNumber ==
  ASSUME NEW N \in Nat, NEW T, T \subseteq 0..N, T # {}
  PROVE  \E n \in T : \A m \in T : n >= m
<1> DEFINE U == {k \in 0..N : N - k \in T}
<1>1. U \subseteq Nat /\ U # {}
  <2>1. PICK n \in T : TRUE
    OBVIOUS
  <2>2. n \in 0..N
    BY <2>1
  <2>3. N - n \in 0..N /\ N - (N - n) = n
    BY <2>2
  <2>4. N - n \in U
    BY <2>1, <2>3
  <2>5. U \subseteq Nat
    OBVIOUS
  <2> HIDE DEF U
  <2>6. QED
    BY <2>4, <2>5
<1>2. PICK k \in U : \A j \in U : k <= j
  <2> HIDE DEF U
  <2>1. QED
    BY <1>1, LeastNumber
<1>3. N - k \in T /\ k \in 0..N
  OBVIOUS
<1>4. ASSUME NEW m \in T PROVE N - k >= m
  <2>1. m \in 0..N
    OBVIOUS
  <2>2. N - m \in 0..N /\ N - (N - m) = m
    BY <2>1
  <2>3. N - m \in U
    BY <2>2
  <2>4. k <= N - m
    BY <1>2, <2>3
  <2>5. QED
    BY <1>3, <2>1, <2>4
<1>5. QED
  BY <1>3, <1>4

LEMMA MinIs == ASSUME NEW S, S \subseteq Nat, S # {} PROVE Min(S) \in S /\ \A m \in S : Min(S) <= m
<1>1. \E n \in S : \A m \in S : n <= m
  BY LeastNumber
<1>2. QED
  BY <1>1 DEF Min

LEMMA MaxIs ==
  ASSUME NEW N \in Nat, NEW S, S \subseteq 0..N, S # {}
  PROVE  Max(S) \in S /\ \A m \in S : Max(S) >= m
<1>1. \E n \in S : \A m \in S : n >= m
  BY GreatestNumber
<1>2. QED
  BY <1>1 DEF Max

------------------------------------------------------------------------------
(* What the state of the controller is *)

\* The characters of the clipboard: those of the values and those that separate them.
Characters == Special \cup UNION {{field[i] : i \in DOMAIN field} : field \in Values}

\* What the state is made of: ranges by their two ends, regions by their bounds, a drag
\* by what it began with.
Ends == [anchor : Cells, far : Cells]
IsBound(b) ==
  /\ b.top \in Rows /\ b.bottom \in Rows /\ b.left \in Columns /\ b.right \in Columns
  /\ b.top <= b.bottom /\ b.left <= b.right
RegionBounds == [top : Rows, bottom : Rows, left : Columns, right : Columns]
Sources == [on : {TRUE}, bound : RegionBounds, rendered : SUBSET Rows, axis : {"none", "row", "column"},
            count : Nat, data : [Cells -> Values]]

\* A drag keeps the bounds, the rendered rows and the contents of its start: rows of it
\* were rendered then, and dragging to the right stays in the columns.
DragTyped ==
  \/ drag = NoDrag
  \/ /\ drag \in Sources /\ IsBound(drag.bound)
     /\ (drag.bound.top..drag.bound.bottom) \intersect drag.rendered # {}
     /\ drag.axis = "column" => drag.bound.right + drag.count \in Columns

\* There is a range exactly if a cell has the focus.
SelectionTyped ==
  /\ focus \in Cells \cup {NoCell} /\ ranges \in Seq(Ends) /\ Len(ranges) <= 2
  /\ focus = NoCell <=> ranges = <<>>

CellsTyped ==
  /\ data \in [Cells -> Values] /\ page \in DOMAIN Pages
  /\ SelectionTyped /\ DragTyped
  /\ clip \in Seq(Characters) \cup {NoText} /\ cutting \in Seq(Characters) \cup {NoText}

\* What the assumption says of the constants, in one place.
LEMMA Constants ==
  ASSUME CellSelectionAssumption, CellsTyped
  PROVE  /\ NumRows \in Nat /\ NumColumns \in Nat /\ Rows \subseteq Nat /\ Columns \subseteq Nat
         /\ IsFiniteSet(Rows) /\ IsFiniteSet(Columns) /\ Rows \subseteq 0..NumRows /\ Columns \subseteq 0..NumColumns
         /\ Selectable \subseteq Columns /\ Rendered \subseteq Rows /\ NoCell \notin Cells
         /\ Values \subseteq Seq(Characters) /\ Special \subseteq Characters
         /\ \A c \in Columns, value \in Values : FormatOf[c][value] \in Values
         /\ \A c \in Writable : ClearValue[c] \in Values
         /\ \A c \in Writable : \A field \in DOMAIN ParseOf[c] : ParseOf[c][field] \in Values
<1>1. NumRows \in Nat /\ NumColumns \in Nat /\ Rows = 1..NumRows /\ Columns = 1..NumColumns
  BY DEF CellSelectionAssumption, Rows, Columns
<1>2. IsFiniteSet(Rows) /\ IsFiniteSet(Columns)
  BY <1>1, FS_Interval
<1>3. Selectable \subseteq Columns /\ Rendered \subseteq Rows
  BY DEF CellSelectionAssumption, CellsTyped, Rendered
<1>4. NoCell \notin Cells
  BY <1>1 DEF Cells, NoCell
<1>5. Values \subseteq Seq(Characters)
  <2> SUFFICES ASSUME NEW field \in Values PROVE field \in Seq(Characters)
    OBVIOUS
  <2> DEFINE S == {field[i] : i \in DOMAIN field}
  <2>1. field \in Seq(S) /\ S \subseteq Characters
    BY DEF CellSelectionAssumption, Characters
  <2> HIDE DEF S
  <2>2. Len(field) \in Nat /\ field \in [1..Len(field) -> S]
    BY <2>1, LenProperties
  <2> DEFINE N == Len(field)
  <2>3. N \in Nat /\ field \in [1..N -> Characters]
    BY <2>1, <2>2
  <2> HIDE DEF N
  <2>4. QED
    BY <2>3
<1>6. Special \subseteq Characters
  BY DEF Characters
<1>7. /\ \A c \in Columns, value \in Values : FormatOf[c][value] \in Values
      /\ \A c \in Writable : ClearValue[c] \in Values
      /\ \A c \in Writable : \A field \in DOMAIN ParseOf[c] : ParseOf[c][field] \in Values
  BY DEF CellSelectionAssumption
<1>8. QED
  BY <1>1, <1>2, <1>3, <1>4, <1>5, <1>6, <1>7

\* The bounds of a range are of the grid.
LEMMA BoundTyped ==
  ASSUME CellSelectionAssumption, NEW r \in Ends
  PROVE  IsBound(Bound(r)) /\ Bound(r) \in RegionBounds
<1>1. /\ r.anchor[1] \in 1..NumRows /\ r.far[1] \in 1..NumRows
      /\ r.anchor[2] \in 1..NumColumns /\ r.far[2] \in 1..NumColumns
      /\ NumRows \in Nat /\ NumColumns \in Nat
  BY DEF Ends, Cells, Rows, Columns, CellSelectionAssumption
<1>2. \A N \in Nat : \A m, n \in 1..N : Lesser(m, n) \in 1..N /\ Greater(m, n) \in 1..N /\ Lesser(m, n) <= Greater(m, n)
  BY DEF Lesser, Greater
<1>3. QED
  BY <1>1, <1>2 DEF Bound, IsBound, RegionBounds, Rows, Columns

\* Of one or two bounds there is a first and a last.
LEMMA BoundsInOrder ==
  ASSUME CellSelectionAssumption, NEW bs, bs # {}, NEW a, NEW b, bs \subseteq {a, b}, IsBound(a), IsBound(b)
  PROVE  (\E m \in bs : \A n \in bs : Before(m, n)) /\ (\E m \in bs : \A n \in bs : Before(n, m))
<1>1. /\ a.top \in Int /\ a.left \in Int /\ b.top \in Int /\ b.left \in Int
  BY DEF IsBound, Rows, Columns, CellSelectionAssumption
<1>2. Before(a, a) /\ Before(b, b) /\ (Before(a, b) \/ Before(b, a))
  BY <1>1 DEF Before
<1>3. QED
  BY <1>2

LEMMA ActiveBoundTyped ==
  ASSUME CellSelectionAssumption, CellsTyped, ranges # <<>>
  PROVE  IsBound(ActiveBound) /\ ActiveBound \in RegionBounds /\ ActiveBound \in Bounds
<1>1. Len(ranges) \in 1..2 /\ DOMAIN ranges = 1..Len(ranges) /\ \A i \in DOMAIN ranges : ranges[i] \in Ends
  <2>1. ranges \in Seq(Ends) /\ Len(ranges) <= 2
    BY DEF CellsTyped, SelectionTyped
  <2>2. Len(ranges) # 0
    BY <2>1, EmptySeq
  <2>3. Len(ranges) \in Nat /\ DOMAIN ranges = 1..Len(ranges)
    BY <2>1, LenProperties
  <2>4. \A i \in 1..Len(ranges) : ranges[i] \in Ends
    BY <2>1, ElementOfSeq
  <2>5. Len(ranges) \in 1..2
    BY <2>1, <2>2, <2>3
  <2>6. QED
    BY <2>3, <2>4, <2>5
<1>2. \A c \in Bounds : IsBound(c) /\ c \in RegionBounds
  BY <1>1, BoundTyped DEF Bounds
<1>3. PICK a \in Bounds, b \in Bounds : Bounds \subseteq {a, b}
  <2>1. CASE Len(ranges) = 1
    <3>1. Bounds = {Bound(ranges[1])}
      BY <1>1, <2>1 DEF Bounds
    <3>2. QED
      BY <3>1
  <2>2. CASE Len(ranges) = 2
    <3>1. Bounds = {Bound(ranges[1]), Bound(ranges[2])}
      BY <1>1, <2>2 DEF Bounds
    <3>2. QED
      BY <3>1
  <2>3. QED
    BY <1>1, <2>1, <2>2
<1> DEFINE containing == {c \in Bounds : Within(focus, c)}
<1>4. CASE containing # {}
  <2> HIDE DEF containing
  <2>1. containing \subseteq {a, b} /\ containing \subseteq Bounds
    BY <1>3 DEF containing
  <2>2. \E m \in containing : \A n \in containing : Before(m, n)
    BY <1>2, <1>3, <1>4, <2>1, BoundsInOrder
  <2>3. FirstOf(containing) \in containing
    BY <2>2 DEF FirstOf
  <2>4. ActiveBound = FirstOf(containing)
    BY <1>4 DEF ActiveBound, containing
  <2>5. QED
    BY <1>2, <2>1, <2>3, <2>4
<1>5. CASE containing = {}
  <2>1. \E m \in Bounds : \A n \in Bounds : Before(n, m)
    BY <1>2, <1>3, BoundsInOrder
  <2>2. LastBound \in Bounds
    BY <2>1 DEF LastBound
  <2>3. ActiveBound = LastBound
    BY <1>5 DEF ActiveBound
  <2>4. QED
    BY <1>2, <2>2, <2>3
<1>6. QED
  BY <1>4, <1>5

\* The rows and the columns of a region, and what it holds.
ShownRows(b) == (b.top..b.bottom) \intersect Rendered
ShownColumns(b) == (b.left..b.right) \intersect Selectable

\* The text of a value is a field.
LEMMA TextTyped ==
  ASSUME CellSelectionAssumption, CellsTyped, NEW held \in [Cells -> Values], NEW cell \in Cells
  PROVE  TextOf(cell, held) \in Values
<1>1. cell[2] \in Columns /\ held[cell] \in Values
  BY DEF Cells
<1>2. QED
  BY <1>1, Constants DEF TextOf

\* What is copied of a region: its rendered rows and selectable columns, in their order,
\* each cell with its text.
LEMMA RegionIs ==
  ASSUME CellSelectionAssumption, CellsTyped, NEW b, IsBound(b)
  PROVE  LET rows == Ascending(ShownRows(b))
             columns == Ascending(ShownColumns(b))
             grid == RegionGrid(b)
         IN /\ grid \in Seq(Seq(Values)) /\ Len(grid) = Len(rows)
            /\ \A r \in 1..Len(rows) : /\ grid[r] \in Seq(Values) /\ Len(grid[r]) = Len(columns)
                                       /\ rows[r] \in ShownRows(b)
                                       /\ \A c \in 1..Len(columns) : grid[r][c] = TextOf(<<rows[r], columns[c]>>, data)
            /\ \A c \in 1..Len(columns) : columns[c] \in ShownColumns(b)
            /\ Len(rows) = Cardinality(ShownRows(b)) /\ Len(rows) \in Nat
            /\ Len(columns) = Cardinality(ShownColumns(b)) /\ Len(columns) \in Nat
            /\ IsFiniteSet(ShownRows(b)) /\ IsFiniteSet(ShownColumns(b))
            /\ ShownRows(b) \subseteq Rows /\ ShownColumns(b) \subseteq Columns
<1> DEFINE rows == Ascending(ShownRows(b))
           columns == Ascending(ShownColumns(b))
           grid == RegionGrid(b)
           R == Len(rows)
           W == Len(columns)
<1>1. /\ ShownRows(b) \subseteq Rows /\ IsFiniteSet(ShownRows(b)) /\ ShownRows(b) \subseteq Nat
      /\ ShownColumns(b) \subseteq Columns /\ IsFiniteSet(ShownColumns(b)) /\ ShownColumns(b) \subseteq Nat
  <2>1. ShownRows(b) \subseteq Rows /\ ShownColumns(b) \subseteq Columns
    BY Constants DEF ShownRows, ShownColumns
  <2>2. QED
    BY <2>1, Constants, FS_Subset
<1>2. /\ R = Cardinality(ShownRows(b)) /\ R \in Nat /\ DOMAIN rows = 1..R
      /\ \A r \in 1..R : rows[r] \in ShownRows(b)
      /\ W = Cardinality(ShownColumns(b)) /\ W \in Nat /\ DOMAIN columns = 1..W
      /\ \A c \in 1..W : columns[c] \in ShownColumns(b)
  BY <1>1, AscendingIs
<1>3. grid = [r \in DOMAIN rows |-> [c \in DOMAIN columns |-> TextOf(<<rows[r], columns[c]>>, data)]]
  BY DEF RegionGrid, ShownRows, ShownColumns
<1> HIDE DEF rows, columns, grid, R, W
<1>4. \A r \in 1..R, c \in 1..W : TextOf(<<rows[r], columns[c]>>, data) \in Values
  <2> TAKE r \in 1..R, c \in 1..W
  <2>1. <<rows[r], columns[c]>> \in Cells
    BY <1>1, <1>2 DEF Cells
  <2>2. QED
    BY <2>1, TextTyped DEF CellsTyped
<1>5. ASSUME NEW r \in 1..R
      PROVE  /\ grid[r] \in Seq(Values) /\ Len(grid[r]) = W
             /\ \A c \in 1..W : grid[r][c] = TextOf(<<rows[r], columns[c]>>, data)
  <2>1. grid[r] = [c \in 1..W |-> TextOf(<<rows[r], columns[c]>>, data)]
    BY <1>2, <1>3
  <2>2. grid[r] \in [1..W -> Values]
    BY <1>4, <2>1
  <2>3. grid[r] \in Seq(Values) /\ Len(grid[r]) = W
    <3> DEFINE f == grid[r]
    <3>1. f \in [1..W -> Values] /\ W \in Nat
      BY <1>2, <2>2
    <3> HIDE DEF f
    <3>2. f \in Seq(Values) /\ Len(f) = W
      BY <3>1
    <3>3. QED
      BY <3>2 DEF f
  <2>4. QED
    BY <2>1, <2>3
<1>6. grid \in [1..R -> Seq(Values)]
  BY <1>2, <1>3, <1>5
<1>7. grid \in Seq(Seq(Values)) /\ Len(grid) = R
  BY <1>2, <1>6
<1>8. QED
  BY <1>1, <1>2, <1>5, <1>7 DEF rows, columns, grid, R, W


------------------------------------------------------------------------------
(* Copy and paste *)

LEMMA Remainders ==
  ASSUME NEW n \in Nat, n > 0
  PROVE  n % n = 0 /\ \A k \in 0..(n - 1) : k % n = k
  OBVIOUS

\* A block that is repeated over a region of its own size is itself.
THEOREM TileItself ==
  ASSUME NEW S, NEW grid \in Seq(Seq(S)), Len(grid) >= 1, Len(grid[1]) >= 1,
         \A r \in 1..Len(grid) : Len(grid[r]) = Len(grid[1])
  PROVE  TileOfItsSize(grid)
<1> DEFINE R == Len(grid)
           W == Len(grid[1])
           tiled == Tile(grid, R, W)
<1>1. /\ R \in Nat /\ W \in Nat /\ DOMAIN grid = 1..R /\ grid \in [1..R -> Seq(S)]
      /\ \A r \in 1..R : grid[r] \in Seq(S) /\ grid[r] \in [1..W -> S]
  <2>1. R \in Nat /\ DOMAIN grid = 1..R /\ grid \in [1..R -> Seq(S)]
    BY LenProperties
  <2>2. ASSUME NEW r \in 1..R PROVE grid[r] \in Seq(S) /\ grid[r] \in [1..W -> S]
    <3>1. grid[r] \in Seq(S)
      BY ElementOfSeq
    <3>2. grid[r] \in [1..Len(grid[r]) -> S]
      BY <3>1, LenProperties
    <3>3. QED
      BY <3>1, <3>2
  <2>3. 1 \in 1..R
    BY <2>1
  <2>4. W \in Nat
    BY <2>2, <2>3, LenProperties
  <2>5. QED
    BY <2>1, <2>2, <2>4
<1>2. tiled = [r \in 1..R |->
                 [c \in 1..W |-> grid[1 + ((r - 1) % R)][1 + ((c - 1) % Len(grid[1 + ((r - 1) % R)]))]]]
  BY DEF Tile
<1> HIDE DEF tiled
<1>3. ASSUME NEW r \in 1..R PROVE tiled[r] = grid[r]
  <2>1. 1 + ((r - 1) % R) = r
    <3>1. r - 1 \in 0..(R - 1) /\ R > 0
      BY <1>1
    <3>2. (r - 1) % R = r - 1
      BY <1>1, <3>1, Remainders
    <3>3. QED
      BY <3>2
  <2>2. Len(grid[r]) = W
    OBVIOUS
  <2> HIDE DEF R, W
  <2>3. tiled[r] = [c \in 1..W |-> grid[r][1 + ((c - 1) % W)]]
    BY <1>2, <2>1, <2>2
  <2>4. \A c \in 1..W : 1 + ((c - 1) % W) = c
    <3> TAKE c \in 1..W
    <3>1. c - 1 \in 0..(W - 1) /\ W > 0
      BY <1>1
    <3>2. (c - 1) % W = c - 1
      BY <1>1, <3>1, Remainders
    <3>3. QED
      BY <3>2
  <2>5. tiled[r] = [c \in 1..W |-> grid[r][c]]
    BY <2>3, <2>4
  <2>6. grid[r] = [c \in 1..W |-> grid[r][c]]
    BY <1>1
  <2>7. QED
    BY <2>5, <2>6
<1>4. tiled = [r \in 1..R |-> tiled[r]]
  BY <1>2
<1>5. grid = [r \in 1..R |-> grid[r]]
  BY <1>1
<1>6. tiled = grid
  <2> HIDE DEF R
  <2>1. QED
    BY <1>3, <1>4, <1>5
<1>7. QED
  BY <1>6 DEF TileOfItsSize, tiled

\* The parts of a paste.
PutIn(rows, columns, tiled) ==
  {[cell |-> <<rows[r], columns[c]>>, raw |-> tiled[r][c]] : r \in DOMAIN rows, c \in DOMAIN columns}
Good(put) == {p \in put : WritableCell(p.cell) /\ Accepts(p.cell[2], p.raw)}
PasteRows(b, size) == Ascending(FirstN({r \in Rendered : r >= b.top}, size[1]))
PasteColumns(b, size) == Ascending(FirstN({c \in Selectable : c >= b.left}, size[2]))
SizeOf(block, b) == PasteSize(block, b.bottom - b.top + 1, Cardinality((b.left..b.right) \intersect Selectable))

PasteHas(paste, b, rows, columns, put) ==
  /\ paste.changes = {Changed(p.cell, ParseOf[p.cell[2]][p.raw], data) : p \in Good(put)}
  /\ paste.rejected = {p.cell : p \in put \ Good(put)}
  /\ paste.corner = IF Len(rows) = 0 THEN <<b.top, columns[Len(columns)]>>
                    ELSE <<rows[Len(rows)], columns[Len(columns)]>>
  /\ paste.first = <<b.top, columns[1]>>

\* What a paste writes, by its rows, columns and pieces.
LEMMA PasteParts ==
  ASSUME NEW block, NEW b, NEW size, size = SizeOf(block, b), NEW rows, rows = PasteRows(b, size),
         NEW columns, columns = PasteColumns(b, size), NEW put,
         put = PutIn(rows, columns, Tile(block, size[1], size[2]))
  PROVE  PasteHas(Paste(block, b), b, rows, columns, put)
  BY DEF PasteHas, Paste, SizeOf, PasteRows, PasteColumns, PutIn, Good

\* What is copied and pasted where it came from brings each cell its own text.
LEMMA CopiesPaste ==
  ASSUME CellSelectionAssumption, CellsTyped
  PROVE  PasteIsCopy
<1> DEFINE b == ActiveBound
           grid == RegionGrid(b)
<1> SUFFICES ASSUME ranges # <<>>, b.top..b.bottom \subseteq Rendered, ShownColumns(b) # {}, ~LooksEnded(grid)
             PROVE  LET paste == Paste(Parse(Serialize(grid)), b)
                        taken == {cell \in Painted(b) : WritableCell(cell) /\ Accepts(cell[2], TextOf(cell, data))}
                    IN /\ paste.changes =
                            {Changed(cell, ParseOf[cell[2]][TextOf(cell, data)], data) : cell \in taken}
                       /\ paste.rejected = Painted(b) \ taken
  BY DEF PasteIsCopy, ShownColumns
<1>1. IsBound(b)
  BY ActiveBoundTyped
<1> HIDE DEF b, grid
<1> DEFINE rows == Ascending(ShownRows(b))
           columns == Ascending(ShownColumns(b))
           R == Len(rows)
           W == Len(columns)
<1>2. /\ grid \in Seq(Seq(Values)) /\ Len(grid) = R
      /\ \A r \in 1..R : /\ grid[r] \in Seq(Values) /\ Len(grid[r]) = W /\ rows[r] \in ShownRows(b)
                         /\ \A c \in 1..W : grid[r][c] = TextOf(<<rows[r], columns[c]>>, data)
      /\ \A c \in 1..W : columns[c] \in ShownColumns(b)
      /\ R = Cardinality(ShownRows(b)) /\ R \in Nat /\ W = Cardinality(ShownColumns(b)) /\ W \in Nat
      /\ IsFiniteSet(ShownRows(b)) /\ IsFiniteSet(ShownColumns(b))
      /\ ShownRows(b) \subseteq Rows /\ ShownColumns(b) \subseteq Columns
  BY <1>1, RegionIs DEF grid
<1>3. ShownRows(b) = b.top..b.bottom /\ R = b.bottom - b.top + 1 /\ R >= 1 /\ W >= 1
  <2>1. b.top \in Nat /\ b.bottom \in Nat /\ b.top <= b.bottom
    BY <1>1, Constants DEF IsBound
  <2>2. ShownRows(b) = b.top..b.bottom
    BY DEF ShownRows
  <2>3. R = b.bottom - b.top + 1
    <3>1. Cardinality(b.top..b.bottom) = b.bottom - b.top + 1
      BY <2>1, FS_Interval
    <3>2. QED
      BY <1>2, <2>2, <3>1
  <2>4. W # 0
    BY <1>2, FS_EmptySet
  <2>5. QED
    BY <1>2, <2>1, <2>2, <2>3, <2>4
<1>4. Parse(Serialize(grid)) = grid
  <2>1. grid \in Seq(Seq(Seq(Characters)) \ {<<>>})
    <3>1. \A r \in 1..R : grid[r] \in Seq(Seq(Characters)) \ {<<>>}
      <4> TAKE r \in 1..R
      <4> DEFINE row == grid[r]
      <4>1. row \in Seq(Values) /\ Len(row) = W
        BY <1>2
      <4> HIDE DEF row
      <4>2. row \in [1..W -> Seq(Characters)] /\ row # <<>>
        <5>1. row \in [1..W -> Values] /\ Values \subseteq Seq(Characters)
          BY <4>1, Constants, LenProperties
        <5>2. row # <<>>
          BY <1>3, <4>1, EmptySeq
        <5>3. QED
          BY <5>1, <5>2
      <4>3. row \in Seq(Seq(Characters))
        <5>1. W \in Nat
          BY <1>2
        <5> HIDE DEF W
        <5>2. QED
          BY <4>2, <5>1
      <4>4. QED
        BY <4>2, <4>3 DEF row
    <3>2. grid \in [1..R -> Seq(Seq(Characters)) \ {<<>>}]
      <4>1. grid = [r \in 1..R |-> grid[r]]
        BY <1>2, LenProperties
      <4> HIDE DEF R
      <4>2. QED
        BY <3>1, <4>1
    <3>3. R \in Nat
      BY <1>2
    <3> HIDE DEF R
    <3>4. QED
      BY <3>2, <3>3
  <2>2. grid # <<>>
    BY <1>2, <1>3, EmptySeq
  <2>3. RoundTrip(grid)
    BY <2>1, <2>2, Constants, ClipboardRoundTrip
  <2>4. QED
    BY <2>3 DEF RoundTrip
<1>5. Len(grid[1]) = W
  BY <1>2, <1>3
<1>6. PasteSize(grid, b.bottom - b.top + 1, Cardinality(ShownColumns(b))) = <<R, W>>
  <2>1. Divides(Len(grid), R) /\ Divides(Len(grid[1]), W)
    BY <1>2, <1>3, <1>5, Remainders DEF Divides
  <2>2. QED
    BY <1>2, <1>3, <2>1 DEF PasteSize
<1>7. FirstN({r \in Rendered : r >= b.top}, R) = ShownRows(b)
  <2> DEFINE S == {r \in Rendered : r >= b.top}
  <2>1. S \subseteq Nat /\ IsFiniteSet(S) /\ b.top \in Nat /\ b.bottom \in Nat
    <3>1. S \subseteq Rows /\ Rows \subseteq Nat /\ IsFiniteSet(Rows)
      BY Constants
    <3>2. QED
      BY <1>1, <3>1, FS_Subset DEF IsBound
  <2>2. UpTo(S, b.bottom) = ShownRows(b)
    <3>1. \A r \in S : r \in Nat
      BY <2>1
    <3>2. \A r : r \in UpTo(S, b.bottom) <=> r \in ShownRows(b)
      BY <2>1, <3>1 DEF UpTo, ShownRows
    <3>3. QED
      BY <3>2
  <2> HIDE DEF S
  <2>3. FirstN(S, Cardinality(UpTo(S, b.bottom))) = UpTo(S, b.bottom)
    BY <2>1, FirstNumbers
  <2>4. QED
    BY <1>2, <2>2, <2>3 DEF S
<1>8. FirstN({c \in Selectable : c >= b.left}, W) = ShownColumns(b)
  <2> DEFINE S == {c \in Selectable : c >= b.left}
  <2>1. S \subseteq Nat /\ IsFiniteSet(S) /\ b.left \in Nat /\ b.right \in Nat
    <3>1. S \subseteq Columns /\ Columns \subseteq Nat /\ IsFiniteSet(Columns)
      BY Constants
    <3>2. QED
      BY <1>1, <3>1, FS_Subset DEF IsBound
  <2>2. UpTo(S, b.right) = ShownColumns(b)
    <3>1. \A c \in S : c \in Nat
      BY <2>1
    <3>2. \A c : c \in UpTo(S, b.right) <=> c \in ShownColumns(b)
      BY <2>1, <3>1 DEF UpTo, ShownColumns
    <3>3. QED
      BY <3>2
  <2> HIDE DEF S
  <2>3. FirstN(S, Cardinality(UpTo(S, b.right))) = UpTo(S, b.right)
    BY <2>1, FirstNumbers
  <2>4. QED
    BY <1>2, <2>2, <2>3 DEF S
<1>9. Tile(grid, R, W) = grid
  <2>1. TileOfItsSize(grid)
    BY <1>2, <1>3, <1>5, TileItself
  <2>2. QED
    BY <1>2, <1>5, <2>1 DEF TileOfItsSize
<1> DEFINE put == PutIn(rows, columns, grid)
           paste == Paste(grid, b)
<1>10. /\ paste.changes = {Changed(p.cell, ParseOf[p.cell[2]][p.raw], data) : p \in Good(put)}
       /\ paste.rejected = {p.cell : p \in put \ Good(put)}
  <2> DEFINE size == SizeOf(grid, b)
  <2>1. size[1] = R /\ size[2] = W
    <3>1. size = <<R, W>>
      BY <1>6 DEF SizeOf, ShownColumns
    <3> HIDE DEF size
    <3>2. QED
      BY <3>1
  <2>2. rows = PasteRows(b, size) /\ columns = PasteColumns(b, size) /\ Tile(grid, size[1], size[2]) = grid
    BY <1>7, <1>8, <1>9, <2>1 DEF PasteRows, PasteColumns
  <2>3. size = SizeOf(grid, b) /\ put = PutIn(rows, columns, Tile(grid, size[1], size[2]))
    BY <2>2
  <2> HIDE DEF rows, columns, size, put
  <2>4. QED
    <3>1. PasteHas(Paste(grid, b), b, rows, columns, put)
      BY <2>2, <2>3, PasteParts
    <3>2. QED
      BY <3>1 DEF PasteHas
<1>11. DOMAIN rows = 1..R /\ DOMAIN columns = 1..W
  <2>1. ShownRows(b) \subseteq Nat /\ ShownColumns(b) \subseteq Nat
    BY <1>2, Constants
  <2>2. QED
    BY <1>2, <2>1, AscendingIs
<1>12. \A p \in put : p.raw = TextOf(p.cell, data) /\ p.cell \in Painted(b)
  <2>1. \A r \in 1..R, c \in 1..W : <<rows[r], columns[c]>> \in Painted(b)
    BY <1>2 DEF Painted, ShownRows, ShownColumns
  <2>2. QED
    BY <1>2, <1>11, <2>1 DEF PutIn
<1>13. \A cell \in Painted(b) : \E p \in put : p.cell = cell
  <2> SUFFICES ASSUME NEW cell \in Painted(b) PROVE \E p \in put : p.cell = cell
    OBVIOUS
  <2>1. cell[1] \in ShownRows(b) /\ cell[2] \in ShownColumns(b) /\ cell = <<cell[1], cell[2]>>
    BY DEF Painted, ShownRows, ShownColumns
  <2>2. ShownRows(b) \subseteq Nat /\ ShownColumns(b) \subseteq Nat
    BY <1>2, Constants
  <2>3. PICK r \in 1..R : rows[r] = cell[1]
    <3>1. \E r \in 1..Cardinality(ShownRows(b)) : Ascending(ShownRows(b))[r] = cell[1]
      BY <1>2, <2>1, <2>2, AscendingIsOnto
    <3>2. QED
      BY <1>2, <3>1
  <2>4. PICK c \in 1..W : columns[c] = cell[2]
    <3>1. \E c \in 1..Cardinality(ShownColumns(b)) : Ascending(ShownColumns(b))[c] = cell[2]
      BY <1>2, <2>1, <2>2, AscendingIsOnto
    <3>2. QED
      BY <1>2, <3>1
  <2> HIDE DEF rows, columns, R, W
  <2>5. [cell |-> <<rows[r], columns[c]>>, raw |-> grid[r][c]] \in put
    BY <1>11 DEF PutIn
  <2>6. QED
    BY <2>1, <2>3, <2>4, <2>5
<1> HIDE DEF put, paste
<1> DEFINE taken == {cell \in Painted(b) : WritableCell(cell) /\ Accepts(cell[2], TextOf(cell, data))}
           Pasted(cell) == Changed(cell, ParseOf[cell[2]][TextOf(cell, data)], data)
<1>14. \A p \in put : p \in Good(put) <=> p.cell \in taken
  BY <1>12 DEF Good
<1>15. paste.changes = {Pasted(cell) : cell \in taken}
  <2>1. \A p \in Good(put) :
          p.cell \in taken /\ Changed(p.cell, ParseOf[p.cell[2]][p.raw], data) = Pasted(p.cell)
    BY <1>12, <1>14 DEF Good
  <2>2. \A cell \in taken : \E p \in Good(put) : p.cell = cell
    BY <1>13, <1>14
  <2> HIDE DEF taken, Pasted
  <2>3. QED
    BY <1>10, <2>1, <2>2
<1>16. paste.rejected = Painted(b) \ taken
  <2> HIDE DEF taken
  <2>1. QED
    BY <1>10, <1>12, <1>13, <1>14
<1>17. QED
  BY <1>4, <1>15, <1>16 DEF paste


------------------------------------------------------------------------------
(* Every step keeps the state typed *)

\* TypeOK is the part of CellsTyped a run can check.
LEMMA TypedImpliesTypeOK == ASSUME CellSelectionAssumption, CellsTyped PROVE TypeOK
<1>1. \A i \in DOMAIN ranges : ranges[i].anchor \in Cells /\ ranges[i].far \in Cells
  <2>1. DOMAIN ranges = 1..Len(ranges) /\ \A i \in 1..Len(ranges) : ranges[i] \in Ends
    BY LenProperties, ElementOfSeq DEF CellsTyped, SelectionTyped
  <2>2. QED
    BY <2>1 DEF Ends
<1>2. drag.on => FillRows(drag) # <<>>
  <2> SUFFICES ASSUME drag.on PROVE FillRows(drag) # <<>>
    OBVIOUS
  <2> DEFINE S == (drag.bound.top..drag.bound.bottom) \intersect drag.rendered
  <2>1. drag \in Sources /\ S # {}
    BY DEF CellsTyped, DragTyped, NoDrag
  <2>2. S \subseteq Rows /\ IsFiniteSet(S) /\ S \subseteq Nat
    <3>1. S \subseteq Rows
      BY <2>1 DEF Sources
    <3>2. QED
      BY <3>1, Constants, FS_Subset
  <2>3. FillRows(drag) = Ascending(S)
    BY DEF FillRows
  <2> HIDE DEF S
  <2>4. Cardinality(S) # 0
    BY <2>1, <2>2, FS_EmptySet
  <2>5. Len(Ascending(S)) # 0
    BY <2>2, <2>4, AscendingIs
  <2>6. QED
    BY <2>3, <2>5, EmptySeq
<1>3. QED
  BY <1>1, <1>2 DEF TypeOK, CellsTyped, SelectionTyped

LEMMA CellsTypedInit == ASSUME CellSelectionAssumption, Init PROVE CellsTyped
<1>1. <<>> \in Seq(Ends) /\ Len(<<>>) = 0
  BY EmptySeq
<1>2. QED
  BY <1>1 DEF Init, CellSelectionAssumption, CellsTyped, SelectionTyped, DragTyped

\* The selection after a call of the feature.
LEMMA Focuses ==
  ASSUME CellSelectionAssumption, CellsTyped, NEW cell \in Cells, SetFocusedCell(cell)
  PROVE  SelectionTyped'
<1>1. [anchor |-> cell, far |-> cell] \in Ends
  BY DEF Ends
<1>2. ranges' = <<[anchor |-> cell, far |-> cell]>> /\ focus' = cell
  BY DEF SetFocusedCell
<1> DEFINE r == [anchor |-> cell, far |-> cell]
<1> HIDE DEF r
<1>3. ranges' = <<r>> /\ r \in Ends
  BY <1>1, <1>2 DEF r
<1>4. ranges' \in Seq(Ends) /\ Len(ranges') = 1 /\ ranges' # <<>>
  BY <1>3
<1>5. focus' # NoCell
  BY <1>2, Constants
<1>6. QED
  BY <1>2, <1>4, <1>5 DEF SelectionTyped

\* A selection of two cells of the grid is a selection.
LEMMA Selects ==
  ASSUME CellSelectionAssumption, CellsTyped, NEW anchor \in Cells, NEW far \in Cells, SelectCellRange(anchor, far)
  PROVE  SelectionTyped'
<1>1. [anchor |-> anchor, far |-> far] \in Ends
  BY DEF Ends
<1>2. ranges' = <<[anchor |-> anchor, far |-> far]>> /\ focus' = anchor
  BY DEF SelectCellRange
<1> DEFINE r == [anchor |-> anchor, far |-> far]
<1> HIDE DEF r
<1>3. ranges' = <<r>> /\ r \in Ends
  BY <1>1, <1>2 DEF r
<1>4. ranges' \in Seq(Ends) /\ Len(ranges') = 1 /\ ranges' # <<>>
  BY <1>3
<1>5. focus' # NoCell
  BY <1>2, Constants
<1>6. QED
  BY <1>2, <1>4, <1>5 DEF SelectionTyped

LEMMA Resets == ASSUME ResetCellSelection PROVE SelectionTyped'
<1>1. <<>> \in Seq(Ends) /\ Len(<<>>) = 0
  BY EmptySeq
<1>2. QED
  BY <1>1 DEF ResetCellSelection, SelectionTyped

\* What changes the selection only keeps the rest.
LEMMA OnlySelection ==
  ASSUME CellsTyped, SelectionTyped', Unchanging
  PROVE  CellsTyped'
  BY DEF CellsTyped, Unchanging, DragTyped

\* Where a step leads.
LEMMA NextIs ==
  ASSUME NEW N \in Nat, NEW S, S \subseteq 1..N, NEW n, NEW forward \in BOOLEAN
  PROVE  NextIn(S, n, forward) \in S \cup {0}
<1> DEFINE beyond == {m \in S : IF forward THEN m > n ELSE m < n}
<1>0. beyond \subseteq S
  OBVIOUS
<1> HIDE DEF beyond
<1>1. beyond \subseteq 0..N /\ beyond \subseteq Nat /\ beyond \subseteq S
  BY <1>0
<1>2. NextIn(S, n, forward) = IF beyond = {} THEN 0 ELSE IF forward THEN Min(beyond) ELSE Max(beyond)
  BY DEF NextIn, beyond
<1>3. beyond # {} => Min(beyond) \in S /\ Max(beyond) \in S
  BY <1>1, MinIs, MaxIs
<1>4. QED
  BY <1>2, <1>3

\* Where the arrow keys go is a cell of the grid, or nowhere.
LEMMA NeighbourIs ==
  ASSUME CellSelectionAssumption, NEW rows, rows \subseteq Rows, NEW cell \in Cells, NEW direction
  PROVE  Neighbour(rows, cell, direction) \in Cells \cup {NoCell}
<1> DEFINE row == NextIn(rows, cell[1], direction = "down")
           column == NextIn(Selectable, cell[2], direction = "right")
<1>1. /\ NumRows \in Nat /\ NumColumns \in Nat /\ rows \subseteq 1..NumRows /\ Selectable \subseteq 1..NumColumns
      /\ cell[1] \in Rows /\ cell[2] \in Columns /\ Selectable \subseteq Columns
  BY DEF CellSelectionAssumption, Rows, Columns, Cells
<1>2. row \in rows \cup {0} /\ column \in Selectable \cup {0}
  BY <1>1, NextIs
<1> HIDE DEF row, column
<1>3. row # 0 => <<row, cell[2]>> \in Cells
  BY <1>1, <1>2 DEF Cells
<1>4. column # 0 => <<cell[1], column>> \in Cells
  BY <1>1, <1>2 DEF Cells
<1>5. Neighbour(rows, cell, direction) =
        IF direction \in {"left", "right"} THEN IF column = 0 THEN NoCell ELSE <<cell[1], column>>
        ELSE IF row = 0 THEN NoCell ELSE <<row, cell[2]>>
  BY DEF Neighbour, row, column
<1>6. QED
  BY <1>3, <1>4, <1>5

LEMMA TargetsAre ==
  ASSUME CellSelectionAssumption, CellsTyped, NEW cell \in Cells, NEW direction
  PROVE  /\ StepTarget(cell, direction) \in Cells \cup {NoCell}
         /\ FeatureStep(cell, direction) \in Cells \cup {NoCell}
<1>1. Rendered \subseteq Rows /\ Pages[page] \subseteq Rows
  BY DEF CellSelectionAssumption, CellsTyped, Rendered
<1>2. QED
  BY <1>1, NeighbourIs DEF StepTarget, FeatureStep

LEMMA OppositeIs ==
  ASSUME NEW b, IsBound(b), NEW cell
  PROVE  Opposite(b, cell) \in Cells
  BY DEF Opposite, IsBound, Cells

LEMMA StepTyped ==
  ASSUME CellSelectionAssumption, CellsTyped, NEW direction, Step(direction)
  PROVE  CellsTyped'
<1>1. PICK target : /\ target \in {StepTarget(focus, direction), FeatureStep(focus, direction)}
                    /\ target # NoCell /\ SetFocusedCell(target)
  BY DEF Step
<1>2. focus \in Cells
  BY DEF Step, CellsTyped, SelectionTyped
<1>3. target \in Cells
  BY <1>1, <1>2, TargetsAre
<1>4. QED
  BY <1>1, <1>3, Focuses, OnlySelection DEF Step

LEMMA ExtendTyped ==
  ASSUME CellSelectionAssumption, CellsTyped, NEW direction, Extend(direction)
  PROVE  CellsTyped'
<1>1. ranges \in Seq(Ends) /\ Len(ranges) = 1 /\ ranges # <<>> /\ focus \in Cells
  <2>1. ranges \in Seq(Ends) /\ Len(ranges) = 1
    BY DEF Extend, CellsTyped, SelectionTyped
  <2>2. ranges # <<>>
    BY <2>1, EmptySeq
  <2>3. QED
    BY <2>1, <2>2 DEF CellsTyped, SelectionTyped
<1> DEFINE newest == ranges[Len(ranges)]
           far == FeatureStep(newest.far, direction)
<1>2. newest \in Ends /\ newest.far \in Cells
  <2>1. ranges[1] \in Ends
    BY <1>1, ElementOfSeq
  <2>2. QED
    BY <1>1, <2>1 DEF Ends
<1>3. far \in Cells \cup {NoCell}
  BY <1>2, TargetsAre
<1>4. CASE Extended(direction) # ranges
  <2>1. ranges' = Extended(direction) /\ UNCHANGED focus /\ Unchanging
    BY <1>4 DEF Extend
  <2>2. far # NoCell /\ ranges' = [ranges EXCEPT ![Len(ranges)].far = far]
    BY <1>4, <2>1 DEF Extended
  <2> DEFINE r == [newest EXCEPT !.far = far]
  <2>3. r \in Ends
    BY <1>2, <1>3, <2>2 DEF Ends
  <2>4. ranges' = [ranges EXCEPT ![Len(ranges)] = r]
    BY <2>2
  <2> HIDE DEF r
  <2>5. ranges' \in Seq(Ends) /\ Len(ranges') = 1
    BY <1>1, <2>3, <2>4, ExceptSeq
  <2>6. ranges' # <<>> /\ focus' \in Cells /\ focus' # NoCell
    BY <1>1, <2>1, <2>5, EmptySeq, Constants
  <2>7. SelectionTyped'
    BY <2>5, <2>6 DEF SelectionTyped
  <2>8. QED
    BY <2>1, <2>7, OnlySelection
<1>5. CASE Extended(direction) = ranges
  <2> DEFINE target == StepTarget(Opposite(ActiveBound, focus), direction)
  <2>1. target # NoCell /\ SelectCellRange(focus, target) /\ Unchanging
    BY <1>5 DEF Extend
  <2>2. Opposite(ActiveBound, focus) \in Cells
    BY <1>1, ActiveBoundTyped, OppositeIs
  <2>3. target \in Cells
    BY <2>1, <2>2, TargetsAre
  <2> HIDE DEF target
  <2>4. QED
    BY <1>1, <2>1, <2>3, Selects, OnlySelection
<1>6. QED
  BY <1>4, <1>5

LEMMA JumpTyped ==
  ASSUME CellSelectionAssumption, CellsTyped, NEW row \in Rows, NEW column \in Columns, NEW extend,
         Jump(row, column, extend)
  PROVE  CellsTyped'
<1>1. focus \in Cells /\ focus[1] \in Rows /\ ranges # <<>>
  BY DEF Jump, CellsTyped, SelectionTyped, Cells
<1>2. Clamped(row) \in Rows
  <2> DEFINE between == IF row >= focus[1] THEN {r \in Rendered : focus[1] < r /\ r <= row}
                        ELSE {r \in Rendered : row <= r /\ r < focus[1]}
  <2>1. between \subseteq Rows /\ between \subseteq 0..NumRows /\ between \subseteq Nat /\ NumRows \in Nat
    BY Constants
  <2>2. Clamped(row) = IF between = {} THEN focus[1] ELSE IF row >= focus[1] THEN Max(between) ELSE Min(between)
    BY DEF Clamped
  <2> HIDE DEF between
  <2>3. between # {} => Max(between) \in Rows /\ Min(between) \in Rows
    BY <2>1, MinIs, MaxIs
  <2>4. QED
    BY <1>1, <2>2, <2>3
<1> DEFINE target == <<Clamped(row), column>>
<1>3. target \in Cells
  BY <1>2 DEF Cells
<1>4. /\ extend => SelectCellRange(Opposite(ActiveBound, focus), target)
      /\ ~extend => SetFocusedCell(target)
      /\ Unchanging
  BY DEF Jump
<1> HIDE DEF target
<1>5. Opposite(ActiveBound, focus) \in Cells
  BY <1>1, ActiveBoundTyped, OppositeIs
<1>6. SelectionTyped'
  BY <1>3, <1>4, <1>5, Selects, Focuses
<1>7. QED
  BY <1>4, <1>6, OnlySelection

LEMMA SelectionStepTyped ==
  ASSUME CellSelectionAssumption, CellsTyped, NEW cell \in Cells, NEW p \in DOMAIN Pages,
         Click(cell) \/ AddRange(cell) \/ SelectAll \/ Escape \/ TurnPage(p)
  PROVE  CellsTyped'
<1>1. CASE Click(cell)
  BY <1>1, Focuses, OnlySelection DEF Click
<1>2. CASE AddRange(cell)
  <2> DEFINE r == [anchor |-> cell, far |-> cell]
  <2>1. r \in Ends
    BY DEF Ends
  <2>2. ranges \in Seq(Ends) /\ Len(ranges) = 1 /\ ranges' = Append(ranges, r) /\ focus' = cell /\ Unchanging
    BY <1>2 DEF AddRange, CellsTyped, SelectionTyped
  <2> HIDE DEF r
  <2>3. ranges' \in Seq(Ends) /\ Len(ranges') = 2
    <3>1. Append(ranges, r) \in Seq(Ends) /\ Len(Append(ranges, r)) = Len(ranges) + 1
      BY <2>1, <2>2, AppendProperties
    <3>2. QED
      BY <2>2, <3>1
  <2>4. ranges' # <<>> /\ focus' \in Cells /\ focus' # NoCell
    BY <2>2, <2>3, EmptySeq, Constants
  <2>5. SelectionTyped'
    BY <2>3, <2>4 DEF SelectionTyped
  <2>6. QED
    BY <2>2, <2>5, OnlySelection
<1>3. CASE SelectAll
  <2>1. Rows # {} /\ Selectable # {} /\ Unchanging
        /\ SelectCellRange(<<1, Min(Selectable)>>, <<NumRows, Max(Selectable)>>)
    BY <1>3 DEF SelectAll
  <2>2. 1 \in Rows /\ NumRows \in Rows
    BY <2>1, Constants DEF Rows
  <2>3. Min(Selectable) \in Columns /\ Max(Selectable) \in Columns
    <3>1. Selectable \subseteq Columns /\ Selectable \subseteq Nat /\ Selectable \subseteq 0..NumColumns /\ NumColumns \in Nat
      BY Constants
    <3>2. QED
      BY <2>1, <3>1, MinIs, MaxIs
  <2>4. <<1, Min(Selectable)>> \in Cells /\ <<NumRows, Max(Selectable)>> \in Cells
    BY <2>2, <2>3 DEF Cells
  <2>5. QED
    BY <2>1, <2>4, Selects, OnlySelection
<1>4. CASE Escape
  BY <1>4, Resets, OnlySelection DEF Escape
<1>5. CASE TurnPage(p)
  BY <1>5, Resets DEF TurnPage, CellsTyped, DragTyped
<1>6. QED
  BY <1>1, <1>2, <1>3, <1>4, <1>5


\* What a batch leaves in the cells.
LEMMA BatchTyped ==
  ASSUME CellsTyped, NEW source, NEW changes, NEW rejected, NEW selected, NEW stale,
         Hand(source, changes, rejected, selected, stale), \A c \in changes : c.value \in Values
  PROVE  data' \in [Cells -> Values]
<1>1. data' = Applied(changes, data) /\ data \in [Cells -> Values]
  BY DEF Hand, CellsTyped
<1>2. ASSUME NEW cell \in Cells
      PROVE  (IF \E c \in changes : c.cell = cell THEN (CHOOSE c \in changes : c.cell = cell).value ELSE data[cell]) \in Values
  <2>1. CASE \E c \in changes : c.cell = cell
    <3> DEFINE d == CHOOSE c \in changes : c.cell = cell
    <3>1. d \in changes
      BY <2>1
    <3>2. d.value \in Values
      BY <3>1
    <3>3. QED
      BY <2>1, <3>2
  <2>2. CASE ~\E c \in changes : c.cell = cell
    BY <1>1, <2>2
  <2>3. QED
    BY <2>1, <2>2
<1>3. QED
  BY <1>1, <1>2 DEF Applied

LEMMA ClearedTyped ==
  ASSUME CellSelectionAssumption, NEW bs
  PROVE  \A c \in Cleared(bs) : c.value \in Values
  BY DEF Cleared, Changed, WritableCell, CellSelectionAssumption

LEMMA CutTyped ==
  ASSUME CellSelectionAssumption, CellsTyped, CutCells
  PROVE  data' \in [Cells -> Values]
<1>1. CASE data' = data
  BY <1>1 DEF CellsTyped
<1>2. CASE Hand("cut", Cleared({ActiveBound}), {}, Painted(ActiveBound), FALSE)
  BY <1>2, ClearedTyped, BatchTyped
<1>3. QED
  BY <1>1, <1>2 DEF CutCells

\* What a selected region is on the clipboard.
LEMMA CopiedTyped ==
  ASSUME CellSelectionAssumption, CellsTyped, ranges # <<>>
  PROVE  Serialize(RegionGrid(ActiveBound)) \in Seq(Characters)
<1> DEFINE grid == RegionGrid(ActiveBound)
<1>1. grid \in Seq(Seq(Values))
  BY ActiveBoundTyped, RegionIs
<1> HIDE DEF grid
<1>2. Seq(Values) \subseteq Seq(Seq(Characters))
  <2> SUFFICES ASSUME NEW row \in Seq(Values) PROVE row \in Seq(Seq(Characters))
    OBVIOUS
  <2> DEFINE N == Len(row)
  <2>1. N \in Nat /\ row \in [1..N -> Seq(Characters)]
    <3>1. N \in Nat /\ row \in [1..N -> Values]
      BY LenProperties
    <3>2. QED
      BY <3>1, Constants
  <2> HIDE DEF N
  <2>2. QED
    BY <2>1
<1> DEFINE N == Len(grid)
<1>3. N \in Nat /\ grid \in [1..N -> Seq(Seq(Characters))]
  <2>1. N \in Nat /\ grid \in [1..N -> Seq(Values)]
    BY <1>1, LenProperties
  <2>2. QED
    BY <1>2, <2>1
<1> HIDE DEF N
<1>4. grid \in Seq(Seq(Seq(Characters)))
  BY <1>3
<1>5. Serialize(grid) \in Seq(Characters)
  BY <1>4, GridTexts, Constants
<1>6. QED
  BY <1>5 DEF grid

\* Batches write values: what a column is cleared to the grid has,
LEMMA BatchStepTyped ==
  ASSUME CellSelectionAssumption, CellsTyped,
         Delete \/ Copy \/ Cut \/ CutByKey \/ CutWritten \/ CutDenied
  PROVE  CellsTyped'
<1>1. CASE Delete
  <2>1. data' \in [Cells -> Values]
    BY <1>1, ClearedTyped, BatchTyped DEF Delete
  <2>2. QED
    BY <1>1, <2>1 DEF Delete, CellsTyped, SelectionTyped, DragTyped, selection
<1>2. CASE Copy
  <2>1. clip' \in Seq(Characters)
    BY <1>2, CopiedTyped DEF Copy, Copied
  <2>2. QED
    BY <1>2, <2>1 DEF Copy, CellsTyped, SelectionTyped, DragTyped, selection, bounded
<1>3. CASE Cut
  <2>1. clip' \in Seq(Characters) /\ data' \in [Cells -> Values]
    BY <1>3, CopiedTyped, CutTyped DEF Cut, Copied
  <2>2. QED
    BY <1>3, <2>1 DEF Cut, CellsTyped, SelectionTyped, DragTyped, selection
<1>4. CASE CutByKey
  <2>1. cutting' \in Seq(Characters)
    BY <1>4, CopiedTyped DEF CutByKey, Copied
  <2>2. QED
    BY <1>4, <2>1 DEF CutByKey, CellsTyped, SelectionTyped, DragTyped, selection, bounded
<1>5. CASE CutWritten
  <2>1. data' \in [Cells -> Values]
    BY <1>5, CutTyped DEF CutWritten, CellsTyped
  <2>2. QED
    BY <1>5, <2>1 DEF CutWritten, CellsTyped, SelectionTyped, DragTyped, selection
<1>6. CASE CutDenied
  BY <1>6 DEF CutDenied, CellsTyped, SelectionTyped, DragTyped, selection, bounded
<1>7. QED
  BY <1>1, <1>2, <1>3, <1>4, <1>5, <1>6

\* A paste writes what the columns make of what they accept, and selects cells of the grid.
LEMMA PasteTyped ==
  ASSUME CellSelectionAssumption, CellsTyped, NEW b, IsBound(b), ShownColumns(b) # {},
         NEW block, block \in Seq(Block(Characters)), Len(block) >= 1
  PROVE  LET paste == Paste(block, b)
         IN /\ \A c \in paste.changes : c.value \in Values
            /\ paste.first \in Cells /\ paste.corner \in Cells
<1> DEFINE size == SizeOf(block, b)
           rows == PasteRows(b, size)
           columns == PasteColumns(b, size)
           put == PutIn(rows, columns, Tile(block, size[1], size[2]))
           paste == Paste(block, b)
<1>1. PasteHas(paste, b, rows, columns, put)
  BY PasteParts
<1>2. Len(block[1]) \in Nat /\ Len(block[1]) >= 1
  <2>1. block[1] \in Block(Characters)
    BY ElementOfSeq
  <2>2. block[1] \in Seq(Seq(Characters)) /\ block[1] # <<>>
    BY <2>1 DEF Block
  <2>3. Len(block[1]) # 0
    BY <2>2, EmptySeq
  <2>4. QED
    BY <2>2, <2>3, LenProperties
<1>3. ShownColumns(b) \subseteq Nat /\ IsFiniteSet(ShownColumns(b))
  BY RegionIs, Constants
<1>4. size[2] \in Nat /\ size[2] >= 1
  <2> DEFINE W == Cardinality(ShownColumns(b))
             R == b.bottom - b.top + 1
  <2>1. W \in Nat /\ W # 0
    BY <1>3, FS_CardinalityType, FS_EmptySet
  <2>2. size = <<R, W>> \/ size = <<Len(block), Len(block[1])>>
    BY DEF SizeOf, PasteSize, ShownColumns
  <2> HIDE DEF size, R, W
  <2>3. QED
    BY <1>2, <2>1, <2>2
<1> HIDE DEF size
<1> DEFINE S == {r \in Rendered : r >= b.top}
           C == {c \in Selectable : c >= b.left}
           FS == FirstN(S, size[1])
           FC == FirstN(C, size[2])
<1>5. FS \subseteq Rows /\ FS \subseteq Nat /\ IsFiniteSet(FS)
  <2>1. FS \subseteq Rows
    BY Constants DEF FirstN
  <2>2. QED
    BY <2>1, Constants, FS_Subset
<1>6. FC \subseteq Columns /\ FC \subseteq Nat /\ IsFiniteSet(FC)
  <2>1. FC \subseteq Columns
    BY Constants DEF FirstN
  <2>2. QED
    BY <2>1, Constants, FS_Subset
<1>7. FC # {}
  <2>1. C \subseteq Nat /\ IsFiniteSet(C) /\ C # {}
    <3>1. C \subseteq Columns
      BY Constants
    <3>2. PICK c \in ShownColumns(b) : TRUE
      OBVIOUS
    <3>3. c \in C
      BY <1>3, <3>2, Constants DEF ShownColumns, IsBound
    <3>4. QED
      BY <3>1, <3>3, Constants, FS_Subset
  <2> HIDE DEF C
  <2>2. PICK c \in C : \A d \in C : c <= d
    BY <2>1, LeastNumber
  <2>3. UpTo(C, c) = {c}
    <3>1. c \in Nat /\ c <= c /\ \A d \in C : d \in Nat /\ c <= d
      BY <2>1, <2>2
    <3>2. \A d \in C : d <= c => d = c
      BY <3>1
    <3>3. QED
      BY <3>1, <3>2 DEF UpTo
  <2>4. Cardinality(UpTo(C, c)) <= size[2]
    BY <1>4, <2>3, FS_Singleton
  <2>5. c \in FC
    BY <2>4 DEF FirstN
  <2>6. QED
    BY <2>5
<1>8. rows = Ascending(FS) /\ columns = Ascending(FC)
  BY DEF PasteRows, PasteColumns
<1> HIDE DEF rows, columns, FS, FC, S, C
<1>9. /\ Len(rows) \in Nat /\ DOMAIN rows = 1..Len(rows) /\ \A i \in 1..Len(rows) : rows[i] \in Rows
  BY <1>5, <1>8, AscendingIs
<1>10. /\ Len(columns) \in Nat /\ Len(columns) >= 1 /\ DOMAIN columns = 1..Len(columns)
       /\ \A i \in 1..Len(columns) : columns[i] \in Columns
  <2>1. Cardinality(FC) # 0 /\ Cardinality(FC) \in Nat
    BY <1>6, <1>7, FS_EmptySet, FS_CardinalityType
  <2>2. Len(columns) = Cardinality(FC) /\ DOMAIN columns = 1..Cardinality(FC)
    BY <1>6, <1>8, AscendingIs
  <2>3. \A i \in 1..Cardinality(FC) : columns[i] \in FC
    BY <1>6, <1>8, AscendingIs
  <2> DEFINE n == Cardinality(FC)
  <2> HIDE DEF n
  <2>4. Len(columns) = n /\ n \in Nat /\ n >= 1 /\ DOMAIN columns = 1..n
    BY <2>1, <2>2 DEF n
  <2>5. \A i \in 1..n : columns[i] \in Columns
    BY <1>6, <2>3 DEF n
  <2>6. QED
    BY <2>4, <2>5
<1>11. b.top \in Rows
  BY DEF IsBound
<1>12. paste.first \in Cells /\ paste.corner \in Cells
  <2>1. paste.first = <<b.top, columns[1]>>
    BY <1>1 DEF PasteHas
  <2>2. paste.corner = IF Len(rows) = 0 THEN <<b.top, columns[Len(columns)]>>
                       ELSE <<rows[Len(rows)], columns[Len(columns)]>>
    BY <1>1 DEF PasteHas
  <2> HIDE DEF paste
  <2>3. columns[1] \in Columns /\ columns[Len(columns)] \in Columns /\ (Len(rows) # 0 => rows[Len(rows)] \in Rows)
    BY <1>9, <1>10
  <2>4. QED
    BY <1>11, <2>1, <2>2, <2>3 DEF Cells
<1>13. \A c \in paste.changes : c.value \in Values
  <2>1. paste.changes = {Changed(p.cell, ParseOf[p.cell[2]][p.raw], data) : p \in Good(put)}
    BY <1>1 DEF PasteHas
  <2> HIDE DEF paste
  <2>2. \A p \in Good(put) : ParseOf[p.cell[2]][p.raw] \in Values
    BY Constants DEF Good, WritableCell, Accepts
  <2>3. QED
    BY <2>1, <2>2 DEF Changed
<1>14. QED
  BY <1>12, <1>13

\* what is pasted the column has accepted,
LEMMA PasteStepTyped ==
  ASSUME CellSelectionAssumption, CellsTyped, PasteClip
  PROVE  CellsTyped'
<1> DEFINE paste == Paste(Parse(clip), ActiveBound)
<1>1. clip \in Seq(Characters) /\ ranges # <<>> /\ ShownColumns(ActiveBound) # {}
  BY DEF PasteClip, PasteText, CellsTyped, ShownColumns
<1>2. /\ Hand("paste", paste.changes, paste.rejected, Painted(ActiveBound), FALSE)
      /\ SelectCellRange(paste.first, paste.corner)
      /\ UNCHANGED <<page, clip, cutting, drag, updates>>
  BY DEF PasteClip, PasteText
<1>3. Parse(clip) \in Seq(Block(Characters)) /\ Len(Parse(clip)) >= 1
  BY <1>1, ParseTyped
<1>4. /\ \A c \in paste.changes : c.value \in Values
      /\ paste.first \in Cells /\ paste.corner \in Cells
  BY <1>1, <1>3, ActiveBoundTyped, PasteTyped
<1> HIDE DEF paste
<1>5. data' \in [Cells -> Values] /\ SelectionTyped'
  BY <1>2, <1>4, BatchTyped, Selects
<1>6. QED
  BY <1>2, <1>5 DEF CellsTyped, DragTyped


\* The rows a fill repeats, and the rows and columns it writes.
LEMMA SourceIs ==
  ASSUME CellSelectionAssumption, CellsTyped, NEW d, d \in Sources, IsBound(d.bound),
         (d.bound.top..d.bound.bottom) \intersect d.rendered # {}
  PROVE  /\ FillTargetRows(d) \subseteq Rows /\ FillTargetColumns(d) \subseteq Selectable
         /\ d.axis # "row" => FillTargetColumns(d) \subseteq (d.bound.right + 1)..(d.bound.right + d.count)
         /\ Len(FillRows(d)) \in Nat /\ Len(FillRows(d)) >= 1
         /\ \A i \in 1..Len(FillRows(d)) : FillRows(d)[i] \in Rows
<1> DEFINE S == (d.bound.top..d.bound.bottom) \intersect d.rendered
<1>1. d.rendered \subseteq Rows
  BY DEF Sources
<1>2. FillTargetRows(d) \subseteq Rows /\ FillTargetColumns(d) \subseteq Selectable
  BY <1>1 DEF FillTargetRows, FillTargetColumns, FirstN
<1>3. d.axis # "row" => FillTargetColumns(d) \subseteq (d.bound.right + 1)..(d.bound.right + d.count)
  BY DEF FillTargetColumns
<1>4. S \subseteq Rows /\ S \subseteq Nat /\ IsFiniteSet(S) /\ S # {}
  <2>1. S \subseteq Rows
    BY <1>1
  <2>2. QED
    BY <2>1, Constants, FS_Subset
<1>5. FillRows(d) = Ascending(S)
  BY DEF FillRows
<1> HIDE DEF S
<1>6. Cardinality(S) \in Nat /\ Cardinality(S) # 0
  BY <1>4, FS_CardinalityType, FS_EmptySet
<1>7. Len(FillRows(d)) = Cardinality(S) /\ \A i \in 1..Cardinality(S) : FillRows(d)[i] \in S
  BY <1>4, <1>5, AscendingIs
<1> DEFINE n == Cardinality(S)
<1> HIDE DEF n
<1>8. Len(FillRows(d)) = n /\ n \in Nat /\ n >= 1
  BY <1>6, <1>7 DEF n
<1>9. \A i \in 1..n : FillRows(d)[i] \in Rows
  BY <1>4, <1>7 DEF n
<1>10. QED
  BY <1>2, <1>3, <1>8, <1>9

LEMMA Remains ==
  ASSUME NEW k \in Int, NEW n \in Nat, n > 0
  PROVE  k % n \in 0..(n - 1)
  OBVIOUS

\* and what a drag fills in it has taken from cells of its start.
LEMMA FillTyped ==
  ASSUME CellSelectionAssumption, CellsTyped, NEW d, d \in Sources, IsBound(d.bound),
         (d.bound.top..d.bound.bottom) \intersect d.rendered # {}
  PROVE  \A c \in FillChanges(d) : c.value \in Values
<1>1. ASSUME NEW cell \in FillTargetRows(d) \X FillTargetColumns(d) PROVE FillSource(d, cell) \in Cells
  <2>1. cell[1] \in Rows /\ cell[2] \in Columns /\ cell[2] \in FillTargetColumns(d)
    BY SourceIs, Constants
  <2>2. CASE d.axis = "row"
    <3> DEFINE before == {r \in FillTargetRows(d) : r < cell[1]}
               L == Len(FillRows(d))
               k == Cardinality(before)
    <3>1. before \subseteq Rows /\ k \in Int
      <4>1. before \subseteq Rows
        BY SourceIs
      <4>2. IsFiniteSet(before)
        BY <4>1, Constants, FS_Subset
      <4>3. QED
        BY <4>1, <4>2, FS_CardinalityType
    <3>2. L \in Nat /\ L > 0
      BY SourceIs
    <3>3. FillSource(d, cell) = <<FillRows(d)[1 + (k % L)], cell[2]>>
      BY <2>2 DEF FillSource
    <3> HIDE DEF k, before
    <3>4. k % L \in 0..(L - 1)
      <4> HIDE DEF L
      <4>1. QED
        BY <3>1, <3>2, Remains
    <3>5. 1 + (k % L) \in 1..L
      BY <3>2, <3>4
    <3>6. FillRows(d)[1 + (k % L)] \in Rows
      BY <3>5, SourceIs
    <3>7. QED
      BY <2>1, <3>3, <3>6 DEF Cells
  <2>3. CASE d.axis # "row"
    <3> DEFINE left == d.bound.left
               right == d.bound.right
               k == cell[2] - (right + 1)
               w == right - left + 1
    <3>1. left \in Columns /\ right \in Columns /\ left <= right
      BY DEF IsBound
    <3>2. FillSource(d, cell) = <<cell[1], left + (k % w)>>
      BY <2>3 DEF FillSource
    <3> HIDE DEF left, right
    <3>3. k \in Int /\ w \in Nat /\ w > 0
      BY <2>1, <3>1, Constants
    <3> HIDE DEF k
    <3>4. k % w \in 0..(w - 1)
      <4> HIDE DEF w
      <4>1. QED
        BY <3>3, Remains
    <3>5. left + (k % w) \in Columns
      <4> DEFINE m == k % w
      <4> HIDE DEF m
      <4>1. m \in 0..(right - left)
        BY <3>1, <3>4, Constants DEF m
      <4>2. left + m \in Columns
        BY <3>1, <4>1, Constants DEF Columns
      <4>3. QED
        BY <4>2 DEF m
    <3>6. QED
      BY <2>1, <3>2, <3>5 DEF Cells
  <2>4. QED
    BY <2>2, <2>3
<1>2. d.data \in [Cells -> Values]
  BY DEF Sources
<1>3. \A cell \in Preview(d) : cell \in FillTargetRows(d) \X FillTargetColumns(d)
  BY DEF Preview
<1>4. ASSUME NEW cell \in Preview(d), FillTaken(d, cell) PROVE FillValue(d, cell) \in Values
  <2>1. FillSource(d, cell) \in Cells
    BY <1>1, <1>3
  <2>2. CASE Crosses(d, cell)
    <3>1. cell[2] \in Writable /\ FillText(d, cell) \in DOMAIN ParseOf[cell[2]]
      BY <1>4, <2>2 DEF Preview, WritableCell, FillTaken, Accepts
    <3>2. QED
      BY <2>2, <3>1, Constants DEF FillValue
  <2>3. CASE ~Crosses(d, cell)
    BY <1>2, <2>1, <2>3 DEF FillValue
  <2>4. QED
    BY <2>2, <2>3
<1>5. QED
  BY <1>4 DEF FillChanges, Changed

LEMMA DragStepTyped ==
  ASSUME CellSelectionAssumption, CellsTyped, NEW cell \in Cells,
         StartFill \/ DragOver(cell) \/ CancelFill
  PROVE  CellsTyped'
<1>1. CASE StartFill
  <2> DEFINE b == ActiveBound
  <2>1. ranges # <<>>
    <3>1. ranges \in Seq(Ends) /\ Len(ranges) = 1
      BY <1>1 DEF StartFill, CellsTyped, SelectionTyped
    <3>2. QED
      BY <3>1, EmptySeq
  <2>2. IsBound(b) /\ b \in RegionBounds /\ Rendered \subseteq Rows /\ data \in [Cells -> Values]
    BY <2>1, ActiveBoundTyped, Constants DEF CellsTyped
  <2>3. /\ drag' = [on |-> TRUE, bound |-> b, rendered |-> Rendered, axis |-> "none", count |-> 0, data |-> data]
        /\ (b.top..b.bottom) \intersect Rendered # {}
        /\ UNCHANGED <<data, page, selection, clip, cutting>>
    BY <1>1 DEF StartFill
  <2> HIDE DEF b
  <2>4. drag' \in Sources
    BY <2>2, <2>3 DEF Sources
  <2>5. drag'.bound = b /\ drag'.rendered = Rendered /\ drag'.axis = "none"
    BY <2>3
  <2>6. DragTyped'
    BY <2>2, <2>3, <2>4, <2>5 DEF DragTyped, IsBound
  <2>7. QED
    BY <2>3, <2>6 DEF CellsTyped, SelectionTyped, selection
<1>2. CASE DragOver(cell)
  <2>1. /\ drag \in Sources /\ IsBound(drag.bound)
        /\ (drag.bound.top..drag.bound.bottom) \intersect drag.rendered # {}
        /\ drag.rendered \subseteq Rows /\ cell[2] \in Columns
    <3>1. drag # NoDrag /\ DragTyped /\ cell[2] \in Columns
      BY <1>2 DEF DragOver, CellsTyped, NoDrag, Cells
    <3>2. drag \in Sources => drag.rendered \subseteq Rows
      BY DEF Sources
    <3>3. QED
      BY <3>1, <3>2 DEF DragTyped
  <2> DEFINE S == {r \in drag.rendered : FillEnd(drag) < r /\ r <= cell[1]}
             down == Cardinality(S)
             right == Greater(0, cell[2] - drag.bound.right)
             axis == IF down = 0 /\ right = 0 THEN "none" ELSE IF down >= right THEN "row" ELSE "column"
             count0 == IF axis = "column" THEN right ELSE down
  <2>2. drag' = [drag EXCEPT !.axis = axis, !.count = count0] /\ UNCHANGED <<data, page, selection, clip, cutting>>
    BY <1>2 DEF DragOver
  <2>3. down \in Nat
    <3>1. S \subseteq Rows
      BY <2>1
    <3>2. IsFiniteSet(S)
      BY <3>1, Constants, FS_Subset
    <3>3. QED
      BY <3>2, FS_CardinalityType
  <2>4. drag.bound.right \in Columns /\ drag.bound.right \in Nat /\ cell[2] \in Nat
    BY <2>1, Constants DEF IsBound
  <2>5. right \in Nat /\ (right # 0 => drag.bound.right + right = cell[2])
    BY <2>4 DEF Greater
  <2> HIDE DEF S, down, right
  <2>6. /\ axis \in {"none", "row", "column"} /\ count0 \in Nat
        /\ axis = "column" => drag.bound.right + count0 \in Columns
    BY <2>1, <2>3, <2>5
  <2> HIDE DEF axis, count0
  <2>7. /\ drag' \in Sources /\ drag'.bound = drag.bound /\ drag'.rendered = drag.rendered
        /\ drag'.axis = axis /\ drag'.count = count0
    BY <2>1, <2>2, <2>6 DEF Sources
  <2>8. DragTyped'
    BY <2>1, <2>6, <2>7 DEF DragTyped, IsBound
  <2>9. QED
    BY <2>2, <2>8 DEF CellsTyped, SelectionTyped, selection
<1>3. CASE CancelFill
  BY <1>3 DEF CancelFill, CellsTyped, SelectionTyped, DragTyped, selection
<1>4. QED
  BY <1>1, <1>2, <1>3

LEMMA ReleaseTyped ==
  ASSUME CellSelectionAssumption, CellsTyped, ReleaseFill
  PROVE  CellsTyped'
<1>1. /\ drag \in Sources /\ IsBound(drag.bound)
      /\ (drag.bound.top..drag.bound.bottom) \intersect drag.rendered # {}
      /\ drag.axis = "column" => drag.bound.right + drag.count \in Columns
  BY DEF ReleaseFill, CellsTyped, DragTyped, NoDrag
<1>2. drag' = NoDrag /\ UNCHANGED <<page, clip, cutting>>
  BY DEF ReleaseFill
<1>3. CASE drag.axis = "none" \/ FillTargetRows(drag) = {}
  BY <1>2, <1>3 DEF ReleaseFill, CellsTyped, SelectionTyped, DragTyped, selection
<1>4. CASE ~(drag.axis = "none" \/ FillTargetRows(drag) = {})
  <2> DEFINE anchor == <<drag.bound.top, drag.bound.left>>
             row == IF drag.axis = "row" THEN Max(FillTargetRows(drag)) ELSE drag.bound.bottom
             column == drag.bound.right + (IF drag.axis = "column" THEN drag.count ELSE 0)
             far == <<row, column>>
  <2>1. SelectCellRange(anchor, far)
    BY <1>4 DEF ReleaseFill
  <2>2. /\ drag.bound.top \in Rows /\ drag.bound.bottom \in Rows
        /\ drag.bound.left \in Columns /\ drag.bound.right \in Columns
    BY <1>1 DEF IsBound
  <2>3. row \in Rows
    <3> DEFINE targets == FillTargetRows(drag)
    <3>1. targets \subseteq Rows /\ targets \subseteq 0..NumRows /\ NumRows \in Nat /\ targets # {}
      BY <1>1, <1>4, SourceIs, Constants
    <3> HIDE DEF targets
    <3>2. Max(targets) \in Rows
      BY <3>1, MaxIs
    <3>3. QED
      BY <2>2, <3>2 DEF targets
  <2>4. column \in Columns
    BY <1>1, <2>2, Constants
  <2>5. anchor \in Cells /\ far \in Cells
    <3> HIDE DEF row, column
    <3>1. QED
      BY <2>2, <2>3, <2>4 DEF Cells
  <2> HIDE DEF anchor, far
  <2>6. SelectionTyped'
    BY <2>1, <2>5, Selects
  <2>7. data' \in [Cells -> Values]
    <3>1. CASE data' = data
      BY <3>1 DEF CellsTyped
    <3>2. CASE Hand("fill", FillChanges(drag), {c \in Preview(drag) : ~FillTaken(drag, c)},
                    Preview(drag), drag.data # data)
      <4>1. \A c \in FillChanges(drag) : c.value \in Values
        BY <1>1, FillTyped
      <4>2. QED
        BY <3>2, <4>1, BatchTyped
    <3>3. QED
      BY <1>4, <3>1, <3>2 DEF ReleaseFill
  <2>8. QED
    BY <1>2, <2>6, <2>7 DEF CellsTyped, DragTyped
<1>5. QED
  BY <1>3, <1>4

\* Every step keeps the state typed.
LEMMA CellsTypedStep == ASSUME CellSelectionAssumption, CellsTyped, [Next]_vars PROVE CellsTyped'
<1>1. CASE UNCHANGED vars
  BY <1>1 DEF vars, CellsTyped, SelectionTyped, DragTyped
<1>2. CASE \E cell \in Cells : Click(cell) \/ AddRange(cell) \/ DragOver(cell)
  <2>1. page \in DOMAIN Pages
    BY DEF CellsTyped
  <2>2. QED
    BY <1>2, <2>1, SelectionStepTyped, DragStepTyped
<1>3. CASE \E direction \in Directions : Step(direction) \/ Extend(direction)
  BY <1>3, StepTyped, ExtendTyped
<1>4. CASE \E row \in Rows, column \in Columns, extend \in BOOLEAN : Jump(row, column, extend)
  BY <1>4, JumpTyped
<1>5. CASE (\E p \in DOMAIN Pages : TurnPage(p)) \/ Escape
  <2>1. CASE Escape
    BY <2>1, Resets, OnlySelection DEF Escape
  <2>2. CASE \E p \in DOMAIN Pages : TurnPage(p)
    BY <2>2, Resets DEF TurnPage, CellsTyped, DragTyped
  <2>3. QED
    BY <1>5, <2>1, <2>2
<1>6. CASE SelectAll
  <2>1. Rows # {} /\ Selectable # {} /\ page \in DOMAIN Pages
    BY <1>6 DEF SelectAll, CellsTyped
  <2>2. PICK r \in Rows, c \in Columns : TRUE
    BY <2>1, Constants
  <2>3. <<r, c>> \in Cells
    BY DEF Cells
  <2>4. QED
    BY <1>6, <2>1, <2>3, SelectionStepTyped
<1>7. CASE Delete \/ Copy \/ Cut \/ CutByKey \/ CutWritten \/ CutDenied
  BY <1>7, BatchStepTyped
<1>8. CASE PasteClip
  BY <1>8, PasteStepTyped
<1>9. CASE StartFill \/ CancelFill
  <2>2. CASE CancelFill
    BY <2>2 DEF CancelFill, CellsTyped, SelectionTyped, DragTyped, selection
  <2>3. CASE StartFill
    <3>1. ranges # <<>>
      <4>1. ranges \in Seq(Ends) /\ Len(ranges) = 1
        BY <2>3 DEF StartFill, CellsTyped, SelectionTyped
      <4>2. QED
        BY <4>1, EmptySeq
    <3>2. focus \in Cells
      BY <3>1 DEF CellsTyped, SelectionTyped
    <3>3. QED
      BY <2>3, <3>2, DragStepTyped
  <2>4. QED
    BY <1>9, <2>2, <2>3
<1>10. CASE ReleaseFill
  BY <1>10, ReleaseTyped
<1>11. CASE \E cell \in Updated, value \in Values : LiveUpdate(cell, value)
  <2>1. data' \in [Cells -> Values]
    BY <1>11 DEF LiveUpdate, CellsTyped
  <2>2. QED
    BY <1>11, <2>1 DEF LiveUpdate, CellsTyped, SelectionTyped, DragTyped, selection
<1>12. QED
  BY <1>1, <1>2, <1>3, <1>4, <1>5, <1>6, <1>7, <1>8, <1>9, <1>10, <1>11 DEF Next
==============================================================================
