---------------------------- MODULE ConsoleProofs ----------------------------
(***************************************************************************)
(* The invariants of Console, proved for every size of the screen and of   *)
(* the line buffer, every table of keys, and every banner and prompt.      *)
(* Screen and paper are compared row by row: each of the three things that *)
(* printing a character may do to the rows gets a lemma.                   *)
(***************************************************************************)
EXTENDS Console, Induction, SequenceTheorems

Rows      == [ColIds -> Cells]
Screens   == [cell : [RowIds -> Rows], row : RowIds, col : ColIds]
Papers    == {p \in [rows : Seq(Rows), col : ColIds] : Len(p.rows) > 0}
Printable == Cells \cup {NewLine, BackSpace}

\* The cells show the last rows, the last of them in the given one.  It is the one below
\* the screen only when nothing has been printed on it.
ShowsRows(cell, row, rows) ==
    LET first == Len(rows) - row
    IN  /\ first >= 1
        /\ first = 1 \/ row >= VGA_ROWS - 1
        /\ \A r \in RowIds : cell[r] = IF r <= row THEN rows[first + r] ELSE BlankRow
        /\ row = VGA_ROWS => rows[Len(rows)] = BlankRow

Shows(v, p) == v.col = p.col /\ ShowsRows(v.cell, v.row, p.rows)

\* The cells of a row before column n from the prompt on are the line l, and the others
\* are blank or as the prompt found them.
LineIn(row, n, l) ==
    \A q \in ColIds :
        /\ home.col <= q /\ q < n => row[q] = l[q - home.col + 1]
        /\ q >= n => row[q] \in {Blank, home.under[q]}

\* What has been printed since the prompt is the line, if it is all in one row.
LineShown ==
    /\ home.row <= Len(paper.rows)
    /\ Len(paper.rows) = home.row =>
        /\ paper.col = home.col + Len(line)
        /\ LineIn(paper.rows[Len(paper.rows)], paper.col, line)

\* A key waits whose character the shell has not got yet.
Waiting == obf # Empty /\ CharOf(obf) # NoChar

Received == IF Waiting THEN Front(typed) ELSE typed

KeysInv ==
    /\ phase = "off" => typed = <<>>
    /\ phase # "off" /\ Waiting => typed # <<>> /\ Last(typed) = CharOf(obf)
    /\ phase = "busy" => Received = <<>>
    /\ phase = "editing" => line = Edited(Received)

Homes == [row : Nat, col : ColIds, under : Rows]

TypeInv ==
    /\ vga \in Screens
    /\ paper \in Papers
    /\ obf \in Codes \cup {Empty}
    /\ phase \in {"off", "busy", "editing"}
    /\ line \in Seq(Glyphs) /\ Len(line) <= LineMax
    /\ home \in Homes
    /\ typed \in Seq(Chars)

IInv ==
    /\ TypeInv
    /\ phase = "off" => paper = [rows |-> <<BlankRow>>, col |-> 0]
    /\ phase # "off" => Shows(vga, paper)
    /\ phase = "editing" => LineShown
    /\ KeysInv

-----------------------------------------------------------------------------
(* Rows                                                                    *)

\* The sizes are numbers, a blank row is a row, and characters are what they are.
LEMMA Facts ==
    /\ VGA_COLS \in Nat /\ VGA_COLS > 0 /\ VGA_ROWS \in Nat /\ VGA_ROWS > 0
    /\ BlankRow \in Rows /\ Blank \in Glyphs /\ Blank \in Cells /\ Glyphs \subseteq Cells
    /\ NewLine \notin Cells /\ BackSpace \notin Cells /\ NewLine # BackSpace
    /\ NewLine \notin Glyphs /\ BackSpace \notin Glyphs
    /\ Return \notin Glyphs /\ NoChar \notin Glyphs
  BY ConsoleAssumption DEF BlankRow, Rows, ColIds, NewLine, BackSpace, Return, NoChar

\* The last of some rows.
LEMMA LastRow ==
    ASSUME NEW rows \in Seq(Rows), Len(rows) > 0
    PROVE  /\ Len(rows) \in Nat /\ Len(rows) \in 1 .. Len(rows)
           /\ \A j \in 1 .. Len(rows) : rows[j] \in Rows
  BY LenProperties, ElementOfSeq

\* A character is put into the current row of both.
LEMMA RowChanged ==
    ASSUME NEW cell \in [RowIds -> Rows], NEW row \in RowIds, NEW rows \in Seq(Rows),
           Len(rows) > 0, ShowsRows(cell, row, rows), NEW new \in Rows
    PROVE  /\ [rows EXCEPT ![Len(rows)] = new] \in Seq(Rows)
           /\ Len([rows EXCEPT ![Len(rows)] = new]) = Len(rows)
           /\ [rows EXCEPT ![Len(rows)] = new][Len(rows)] = new
           /\ ShowsRows([cell EXCEPT ![row] = new], row, [rows EXCEPT ![Len(rows)] = new])
<1> DEFINE n == Len(rows)
           m == [rows EXCEPT ![n] = new]
           d == [cell EXCEPT ![row] = new]
<1>1. n \in Nat /\ n \in 1 .. n /\ row \in Nat /\ row < VGA_ROWS
  BY LastRow, Facts DEF RowIds
<1>2. /\ m \in Seq(Rows) /\ Len(m) = n
      /\ \A j \in 1 .. n : m[j] = IF j = n THEN new ELSE rows[j]
  BY <1>1, ExceptSeq
<1>3. \A r \in RowIds : d[r] = IF r = row THEN new ELSE cell[r]
  OBVIOUS
<1> HIDE DEF m, d
<1>4. ASSUME NEW r \in RowIds PROVE d[r] = IF r <= row THEN m[n - row + r] ELSE BlankRow
  <2>1. r \in Nat /\ cell[r] = IF r <= row THEN rows[n - row + r] ELSE BlankRow
    BY Facts DEF ShowsRows, RowIds
  <2>2. CASE r <= row
    <3>1. n - row + r \in 1 .. n /\ (n - row + r = n <=> r = row)
      BY <1>1, <2>1, <2>2 DEF ShowsRows
    <3> QED  BY <1>2, <1>3, <2>1, <2>2, <3>1
  <2>3. CASE ~ (r <= row)
    BY <1>1, <1>3, <2>1, <2>3
  <2> QED  BY <2>2, <2>3
<1>5. ShowsRows(d, row, m)
  BY <1>1, <1>2, <1>4 DEF ShowsRows
<1> QED  BY <1>1, <1>2, <1>5 DEF m, d

\* Both go on to a new row.
LEMMA RowAdded ==
    ASSUME NEW cell \in [RowIds -> Rows], NEW row \in RowIds, NEW rows \in Seq(Rows),
           Len(rows) > 0, ShowsRows(cell, row, rows)
    PROVE  /\ Append(rows, BlankRow) \in Seq(Rows) /\ Len(Append(rows, BlankRow)) = Len(rows) + 1
           /\ Append(rows, BlankRow)[Len(rows) + 1] = BlankRow
           /\ ShowsRows(cell, row + 1, Append(rows, BlankRow))
<1> DEFINE n == Len(rows)
           m == Append(rows, BlankRow)
<1>1. n \in Nat /\ row \in Nat /\ row < VGA_ROWS
  BY LastRow, Facts DEF RowIds
<1>2. /\ m \in Seq(Rows) /\ Len(m) = n + 1
      /\ m[n + 1] = BlankRow /\ \A j \in 1 .. n : m[j] = rows[j]
  BY Facts, AppendProperties
<1> HIDE DEF m
<1>3. ASSUME NEW r \in RowIds
      PROVE  cell[r] = IF r <= row + 1 THEN m[(n + 1) - (row + 1) + r] ELSE BlankRow
  <2>1. r \in Nat /\ cell[r] = IF r <= row THEN rows[n - row + r] ELSE BlankRow
    BY Facts DEF ShowsRows, RowIds
  <2>2. CASE r <= row
    <3>1. n - row + r \in 1 .. n /\ (n + 1) - (row + 1) + r = n - row + r
      BY <1>1, <2>1, <2>2 DEF ShowsRows
    <3> QED  BY <1>1, <1>2, <2>1, <2>2, <3>1
  <2>3. CASE r = row + 1
    <3>1. (n + 1) - (row + 1) + r = n + 1
      BY <1>1, <2>3
    <3> QED  BY <1>1, <1>2, <2>1, <2>3, <3>1
  <2>4. CASE r > row + 1
    BY <1>1, <2>1, <2>4
  <2> QED  BY <1>1, <2>1, <2>2, <2>3, <2>4
<1>4. ShowsRows(cell, row + 1, m)
  <2>1. n - row >= 1 /\ (n - row = 1 \/ row >= VGA_ROWS - 1)
    BY DEF ShowsRows
  <2>2. /\ Len(m) - (row + 1) >= 1
        /\ Len(m) - (row + 1) = 1 \/ row + 1 >= VGA_ROWS - 1
        /\ m[Len(m)] = BlankRow
    BY <1>1, <1>2, <2>1, Facts
  <2>3. \A r \in RowIds : cell[r] = IF r <= row + 1 THEN m[Len(m) - (row + 1) + r] ELSE BlankRow
    BY <1>2, <1>3
  <2> QED  BY <2>2, <2>3 DEF ShowsRows
<1> QED  BY <1>2, <1>4 DEF m

\* The screen follows when the current row is below it.
LEMMA RowsScrolled ==
    ASSUME NEW cell \in [RowIds -> Rows], NEW rows \in Seq(Rows), Len(rows) > 0,
           ShowsRows(cell, VGA_ROWS, rows)
    PROVE  /\ VGA_ROWS - 1 \in RowIds
           /\ [r \in RowIds |-> IF r + 1 \in RowIds THEN cell[r + 1] ELSE BlankRow]
                \in [RowIds -> Rows]
           /\ ShowsRows([r \in RowIds |-> IF r + 1 \in RowIds THEN cell[r + 1] ELSE BlankRow],
                        VGA_ROWS - 1, rows)
<1> DEFINE d == [r \in RowIds |-> IF r + 1 \in RowIds THEN cell[r + 1] ELSE BlankRow]
           n == Len(rows)
<1>1. n \in Nat /\ VGA_ROWS \in Nat /\ VGA_ROWS > 0
  BY LastRow, Facts
<1>2. d \in [RowIds -> Rows] /\ VGA_ROWS - 1 \in RowIds
  BY Facts DEF RowIds
<1>3. ASSUME NEW r \in RowIds PROVE d[r] = rows[n - (VGA_ROWS - 1) + r] /\ r <= VGA_ROWS - 1
  <2>1. r \in Nat /\ r <= VGA_ROWS - 1
    BY <1>1 DEF RowIds
  <2>2. CASE r + 1 \in RowIds
    <3>1. cell[r + 1] = rows[n - VGA_ROWS + (r + 1)]
      BY <1>1, <2>1, <2>2 DEF ShowsRows, RowIds
    <3>2. n - VGA_ROWS + (r + 1) = n - (VGA_ROWS - 1) + r
      BY <1>1, <2>1
    <3> QED  BY <2>1, <2>2, <3>1, <3>2
  <2>3. CASE r + 1 \notin RowIds
    <3>1. n - (VGA_ROWS - 1) + r = n
      BY <1>1, <2>1, <2>3 DEF RowIds
    <3>2. rows[n] = BlankRow
      BY DEF ShowsRows
    <3> QED  BY <2>1, <2>3, <3>1, <3>2
  <2> QED  BY <2>2, <2>3
<1> HIDE DEF d
<1>4. n - (VGA_ROWS - 1) >= 1 /\ VGA_ROWS - 1 # VGA_ROWS
  BY <1>1 DEF ShowsRows
<1>5. ShowsRows(d, VGA_ROWS - 1, rows)
  BY <1>1, <1>3, <1>4 DEF ShowsRows
<1> QED  BY <1>2, <1>5 DEF d

-----------------------------------------------------------------------------
(* Printing a character                                                    *)

\* What a character in a cell does before the cursor is wrapped.
LEMMA PlacedAt ==
    ASSUME NEW v \in Screens, NEW c \in Cells
    PROVE  LET w == [v EXCEPT !.cell[v.row][v.col] = c, !.col = @ + 1]
               new == [v.cell[v.row] EXCEPT ![v.col] = c]
           IN  /\ w.row = v.row /\ w.col = v.col + 1
               /\ new \in Rows
               /\ w.cell = [v.cell EXCEPT ![v.row] = new] /\ w.cell \in [RowIds -> Rows]
               /\ w \in [cell : [RowIds -> Rows], row : Nat, col : Nat]
               /\ \A q \in ColIds : new[q] = IF q = v.col THEN c ELSE v.cell[v.row][q]
<1> DEFINE w == [v EXCEPT !.cell[v.row][v.col] = c, !.col = @ + 1]
           new == [v.cell[v.row] EXCEPT ![v.col] = c]
<1>1. /\ w.row = v.row /\ w.col = v.col + 1
      /\ new \in Rows
      /\ w.cell = [v.cell EXCEPT ![v.row] = new] /\ w.cell \in [RowIds -> Rows]
      /\ \A q \in ColIds : new[q] = IF q = v.col THEN c ELSE v.cell[v.row][q]
  BY DEF Screens, Rows
<1>2. w = [v EXCEPT !.cell = w.cell, !.col = v.col + 1]
  BY <1>1 DEF Screens
<1>3. v.row \in Nat /\ v.col + 1 \in Nat
  BY Facts DEF Screens, RowIds, ColIds
<1> HIDE DEF w, new
<1>4. w \in [cell : [RowIds -> Rows], row : Nat, col : Nat]
  BY <1>1, <1>2, <1>3 DEF Screens
<1> QED  BY <1>1, <1>4 DEF w, new

\* A screen has cells and a cursor inside them.
LEMMA ScreenParts ==
    ASSUME NEW v \in Screens
    PROVE  /\ v.cell \in [RowIds -> Rows] /\ v.row \in RowIds /\ v.col \in ColIds
           /\ v.row \in Nat /\ v.row < VGA_ROWS /\ v.col \in Nat /\ v.col < VGA_COLS
  BY Facts DEF Screens, RowIds, ColIds

\* The paper has a last row, and a column in it.
LEMMA PaperParts ==
    ASSUME NEW p \in Papers
    PROVE  /\ p.rows \in Seq(Rows) /\ Len(p.rows) > 0 /\ Len(p.rows) \in Nat
           /\ Len(p.rows) \in 1 .. Len(p.rows) /\ p.rows[Len(p.rows)] \in Rows
           /\ p.col \in ColIds /\ p.col \in Nat /\ p.col < VGA_COLS
<1>1. p.rows \in Seq(Rows) /\ Len(p.rows) > 0 /\ p.col \in ColIds
  BY DEF Papers
<1> QED  BY <1>1, LastRow, Facts DEF ColIds

\* What printing a character makes of the paper, whose cursor stands in the last row.
LEMMA PaperPrinted ==
    ASSUME NEW p \in Papers, NEW c \in Printable
    PROVE  LET new == [p.rows[Len(p.rows)] EXCEPT ![p.col] = c]
               done == [p.rows EXCEPT ![Len(p.rows)] = new]
               z == PrintChar(p, c)
           IN  /\ z \in Papers
               /\ c = NewLine => z.rows = Append(p.rows, BlankRow) /\ z.col = 0
               /\ c = BackSpace => /\ z.rows = p.rows
                                   /\ z.col = IF p.col = 0 THEN 0 ELSE p.col - 1
               /\ c \in Cells =>
                    /\ new \in Rows /\ done \in Seq(Rows) /\ Len(done) = Len(p.rows)
                    /\ IF p.col = VGA_COLS - 1
                       THEN z.rows = Append(done, BlankRow) /\ z.col = 0
                       ELSE z.rows = done /\ z.col = p.col + 1
<1> DEFINE n == Len(p.rows)
           new == [p.rows[n] EXCEPT ![p.col] = c]
           done == [p.rows EXCEPT ![n] = new]
           z == PrintChar(p, c)
<1>1. /\ p.rows \in Seq(Rows) /\ n > 0 /\ n \in Nat
      /\ n \in 1 .. n /\ p.rows[n] \in Rows
      /\ p.col \in ColIds /\ p.col \in Nat /\ p.col < VGA_COLS
  BY PaperParts
<1>2. ASSUME NEW s \in Seq(Rows)
      PROVE  Append(s, BlankRow) \in Seq(Rows) /\ Len(Append(s, BlankRow)) > 0
  <2>1. Len(s) \in Nat
    BY LenProperties
  <2> QED  BY <2>1, Facts, AppendProperties
<1>3. 0 \in ColIds
  BY Facts DEF ColIds
<1>4. CASE c = NewLine
  <2>1. z = [rows |-> Append(p.rows, BlankRow), col |-> 0]
    BY <1>4, Facts DEF PrintChar
  <2>2. z.rows = Append(p.rows, BlankRow) /\ z.col = 0 /\ z \in Papers
    BY <1>1, <1>2, <1>3, <2>1 DEF Papers
  <2> QED  BY <1>4, <2>2, Facts
<1>5. CASE c = BackSpace
  <2>1. z = [p EXCEPT !.col = IF @ = 0 THEN 0 ELSE @ - 1]
    BY <1>5, Facts DEF PrintChar
  <2> HIDE DEF z
  <2>2. z.rows = p.rows /\ z.col = IF p.col = 0 THEN 0 ELSE p.col - 1
    BY <2>1 DEF Papers
  <2>3. z \in [rows : Seq(Rows), col : ColIds]
    <3>1. (IF p.col = 0 THEN 0 ELSE p.col - 1) \in ColIds
      BY <1>1, <1>3, Facts DEF ColIds
    <3> QED  BY <2>1, <3>1 DEF Papers
  <2>4. z \in Papers
    BY <1>1, <2>2, <2>3 DEF Papers
  <2> QED  BY <1>5, <2>2, <2>4, Facts DEF z
<1>6. CASE c \in Cells
  <2>1. new \in Rows
    BY <1>1, <1>6 DEF Rows
  <2>2. done \in Seq(Rows) /\ Len(done) = n
    <3> HIDE DEF new
    <3> QED  BY <1>1, <2>1, ExceptSeq
  <2>3. z = IF p.col = VGA_COLS - 1 THEN [rows |-> Append(done, BlankRow), col |-> 0]
            ELSE [rows |-> done, col |-> p.col + 1]
    BY <1>6, Facts DEF PrintChar
  <2> HIDE DEF done, z, n
  <2>4. CASE p.col = VGA_COLS - 1
    <3>1. z.rows = Append(done, BlankRow) /\ z.col = 0 /\ z \in Papers
      BY <1>2, <1>3, <2>2, <2>3, <2>4 DEF Papers
    <3> QED  BY <1>6, <2>1, <2>2, <2>4, <3>1, Facts DEF done, z, n
  <2>5. CASE p.col # VGA_COLS - 1
    <3>1. p.col + 1 \in ColIds
      BY <1>1, <2>5, Facts DEF ColIds
    <3>2. z.rows = done /\ z.col = p.col + 1 /\ z \in Papers
      BY <1>1, <2>2, <2>3, <2>5, <3>1 DEF Papers
    <3> QED  BY <1>6, <2>1, <2>2, <2>5, <3>2, Facts DEF done, z, n
  <2> QED  BY <2>4, <2>5
<1> QED  BY <1>4, <1>5, <1>6 DEF Printable


\* vga_putc up to its last test follows what the paper does.
LEMMA MovedShows ==
    ASSUME NEW v \in Screens, NEW p \in Papers, Shows(v, p), NEW c \in Printable
    PROVE  LET w == Moved(v, c) IN
           /\ w.cell \in [RowIds -> Rows] /\ w.row \in 0 .. VGA_ROWS /\ w.col \in ColIds
           /\ w \in [cell : [RowIds -> Rows], row : Nat, col : ColIds]
           /\ Shows(w, PrintChar(p, c))
<1> DEFINE w == Moved(v, c)
           z == PrintChar(p, c)
           n == Len(p.rows)
           Goal == /\ w.cell \in [RowIds -> Rows] /\ w.row \in 0 .. VGA_ROWS
                   /\ w.col \in ColIds
                   /\ w \in [cell : [RowIds -> Rows], row : Nat, col : ColIds]
                   /\ Shows(w, z)
<1>1. /\ v.cell \in [RowIds -> Rows] /\ v.row \in RowIds /\ v.col \in ColIds
      /\ v.row \in Nat /\ v.row < VGA_ROWS /\ v.col \in Nat /\ v.col < VGA_COLS
  BY ScreenParts
<1>2. p.rows \in Seq(Rows) /\ Len(p.rows) > 0 /\ p.col \in ColIds
  BY PaperParts
<1>3. v.col = p.col /\ ShowsRows(v.cell, v.row, p.rows)
  BY DEF Shows
<1>4. SUFFICES Goal
  OBVIOUS
<1> HIDE DEF w, z
<1>5. CASE c = NewLine
  <2>1. w = [v EXCEPT !.col = 0, !.row = @ + 1]
    BY <1>5, Facts DEF Moved, w
  <2>2. z.rows = Append(p.rows, BlankRow) /\ z.col = 0
    BY <1>5, PaperPrinted DEF z
  <2>3. ShowsRows(v.cell, v.row + 1, z.rows)
    BY <1>1, <1>2, <1>3, <2>2, RowAdded
  <2>4. w.cell = v.cell /\ w.row = v.row + 1 /\ w.col = 0
    BY <2>1 DEF Screens
  <2>5. v.row + 1 \in 0 .. VGA_ROWS /\ v.row + 1 \in Nat /\ 0 \in ColIds
    BY <1>1, Facts DEF ColIds
  <2>6. w \in [cell : [RowIds -> Rows], row : Nat, col : ColIds]
    BY <1>1, <2>1, <2>5 DEF Screens
  <2> QED  BY <1>1, <2>2, <2>3, <2>4, <2>5, <2>6 DEF Shows
<1>6. CASE c = BackSpace
  <2>1. w = [v EXCEPT !.col = IF @ > 0 THEN @ - 1 ELSE @]
    BY <1>6, Facts DEF Moved, w
  <2>2. z.rows = p.rows /\ z.col = IF p.col = 0 THEN 0 ELSE p.col - 1
    BY <1>6, PaperPrinted DEF z
  <2>3. w.cell = v.cell /\ w.row = v.row /\ w.col = IF v.col > 0 THEN v.col - 1 ELSE v.col
    BY <2>1 DEF Screens
  <2>4. w.col = z.col /\ w.col \in ColIds /\ v.row \in 0 .. VGA_ROWS
    BY <1>1, <1>3, <2>2, <2>3, Facts DEF ColIds
  <2>5. w \in [cell : [RowIds -> Rows], row : Nat, col : ColIds]
    BY <1>1, <2>1, <2>3, <2>4 DEF Screens
  <2> QED  BY <1>1, <1>3, <2>2, <2>3, <2>4, <2>5 DEF Shows
<1>7. CASE c \in Cells
  <2> DEFINE a == [v EXCEPT !.cell[v.row][v.col] = c, !.col = @ + 1]
             new == [p.rows[n] EXCEPT ![p.col] = c]
             done == [p.rows EXCEPT ![n] = new]
             over == [v.cell[v.row] EXCEPT ![v.col] = c]
  <2>1. w = Wrapped(a)
    BY <1>7, Facts DEF Moved, Placed, w
  <2>2. /\ a.row = v.row /\ a.col = v.col + 1 /\ over \in Rows
        /\ a.cell = [v.cell EXCEPT ![v.row] = over] /\ a.cell \in [RowIds -> Rows]
        /\ a \in [cell : [RowIds -> Rows], row : Nat, col : Nat]
    BY <1>7, PlacedAt
  <2>4. new = over
    <3>1. v.cell[v.row] = p.rows[n]
      <4>1. n \in Nat /\ n - v.row + v.row = n
        BY <1>1, PaperParts
      <4> QED  BY <1>1, <1>3, <4>1 DEF ShowsRows
    <3> QED  BY <1>3, <3>1
  <2>5. /\ new \in Rows /\ done \in Seq(Rows) /\ Len(done) = n
        /\ IF p.col = VGA_COLS - 1 THEN z.rows = Append(done, BlankRow) /\ z.col = 0
                                   ELSE z.rows = done /\ z.col = p.col + 1
    BY <1>7, PaperPrinted DEF z
  <2> HIDE DEF a, new, over
  <2>6. ShowsRows(a.cell, v.row, done)
    <3> HIDE DEF done
    <3>1. done = [p.rows EXCEPT ![Len(p.rows)] = over]
      BY <2>4 DEF done
    <3>2. ShowsRows([v.cell EXCEPT ![v.row] = over], v.row, [p.rows EXCEPT ![Len(p.rows)] = over])
      BY <1>1, <1>2, <1>3, <2>2, RowChanged
    <3> QED  BY <2>2, <3>1, <3>2
  <2>7. CASE p.col = VGA_COLS - 1
    <3>1. w = [a EXCEPT !.col = 0, !.row = @ + 1]
      BY <1>1, <1>3, <2>1, <2>2, <2>7, Facts DEF Wrapped
    <3>2. w.cell = a.cell /\ w.row = v.row + 1 /\ w.col = 0
      BY <2>2, <3>1
    <3>3. ShowsRows(a.cell, v.row + 1, z.rows)
      <4>1. Len(done) > 0
        BY <1>2, <2>5
      <4> HIDE DEF done, n
      <4>2. ShowsRows(a.cell, v.row + 1, Append(done, BlankRow))
        BY <1>1, <2>2, <2>5, <2>6, <4>1, RowAdded
      <4> QED  BY <2>5, <2>7, <4>2
    <3>4. v.row + 1 \in 0 .. VGA_ROWS /\ v.row + 1 \in Nat /\ 0 \in ColIds
      BY <1>1, Facts DEF ColIds
    <3>5. w \in [cell : [RowIds -> Rows], row : Nat, col : ColIds]
      BY <2>2, <3>1, <3>4
    <3> QED  BY <2>2, <2>5, <2>7, <3>2, <3>3, <3>4, <3>5 DEF Shows
  <2>8. CASE p.col # VGA_COLS - 1
    <3>1. w = a
      BY <1>1, <1>3, <2>1, <2>2, <2>8, Facts DEF Wrapped
    <3>2. v.col + 1 \in ColIds /\ v.row \in 0 .. VGA_ROWS
      BY <1>1, <1>3, <2>8, Facts DEF ColIds
    <3>3. w \in [cell : [RowIds -> Rows], row : Nat, col : ColIds]
      BY <2>2, <3>1, <3>2
    <3>4. z.rows = done /\ z.col = v.col + 1
      BY <1>3, <2>5, <2>8
    <3>5. ShowsRows(w.cell, w.row, z.rows)
      <4> HIDE DEF done
      <4> QED  BY <2>2, <2>6, <3>1, <3>4
    <3> QED  BY <2>2, <3>1, <3>2, <3>3, <3>4, <3>5 DEF Shows
  <2> QED  BY <2>7, <2>8
<1> QED  BY <1>5, <1>6, <1>7 DEF Printable, Goal

\* vga_putc keeps the screen the end of what is printed.
LEMMA PutcShows ==
    ASSUME NEW v \in Screens, NEW p \in Papers, Shows(v, p), NEW c \in Printable
    PROVE  vga_putc(v, c) \in Screens /\ Shows(vga_putc(v, c), PrintChar(p, c))
<1> DEFINE w == Moved(v, c)
           z == PrintChar(p, c)
<1>1. /\ w.cell \in [RowIds -> Rows] /\ w.row \in 0 .. VGA_ROWS /\ w.col \in ColIds
      /\ w \in [cell : [RowIds -> Rows], row : Nat, col : ColIds]
      /\ Shows(w, z)
  BY MovedShows
<1>2. z \in Papers
  BY PaperPrinted
<1>3. vga_putc(v, c) = IF w.row >= VGA_ROWS THEN vga_scroll(w) ELSE w
  BY DEF vga_putc
<1> HIDE DEF w, z
<1>4. CASE w.row >= VGA_ROWS
  <2> DEFINE d == [r \in RowIds |-> IF r + 1 \in RowIds THEN w.cell[r + 1] ELSE BlankRow]
             s == vga_scroll(w)
  <2>1. w.row = VGA_ROWS
    BY <1>1, <1>4, Facts
  <2>2. ShowsRows(w.cell, VGA_ROWS, z.rows) /\ w.col = z.col
    BY <1>1, <2>1 DEF Shows
  <2>3. VGA_ROWS - 1 \in RowIds /\ d \in [RowIds -> Rows] /\ ShowsRows(d, VGA_ROWS - 1, z.rows)
    BY <1>1, <1>2, <2>2, PaperParts, RowsScrolled
  <2>4. s = [w EXCEPT !.cell = d, !.row = VGA_ROWS - 1]
    BY DEF vga_scroll
  <2> HIDE DEF d, s
  <2>5. s.cell = d /\ s.row = VGA_ROWS - 1 /\ s.col = w.col /\ s \in Screens
    BY <1>1, <2>3, <2>4 DEF Screens
  <2>6. Shows(s, z)
    BY <2>2, <2>3, <2>5 DEF Shows
  <2> QED  BY <1>3, <1>4, <2>5, <2>6 DEF s, z
<1>5. CASE ~ (w.row >= VGA_ROWS)
  <2>1. w.row \in RowIds
    BY <1>1, <1>5, Facts DEF RowIds
  <2>2. w \in Screens
    BY <1>1, <2>1 DEF Screens
  <2> QED  BY <1>1, <1>3, <1>5, <2>2 DEF z
<1> QED  BY <1>4, <1>5
-----------------------------------------------------------------------------
(* The loops: a printed string, and an edited line, character by character. *)

\* A screen that shows some paper.
Showing == {v \in Screens : \E p \in Papers : Shows(v, p)}

\* What vga_puts has made of the screen after each character.
LEMMA PutsRuns ==
    ASSUME vga \in Screens, paper \in Papers, Shows(vga, paper), NEW s \in Seq(Printable)
    PROVE  \E run : /\ run[0] = vga /\ vga_puts(vga, s) = run[Len(s)]
                    /\ \A k \in 1 .. Len(s) : run[k] = vga_putc(run[k - 1], s[k])
<1> DEFINE n == Len(s)
           Set == Showing
           body == [x \in (1 .. n) \X Set |-> vga_putc(x[2], s[x[1]])]
<1>1. n \in Nat /\ DOMAIN s = 1 .. n /\ \A i \in 1 .. n : s[i] \in Printable
  BY LenProperties, ElementOfSeq
<1>2. ASSUME NEW x \in Set, NEW c \in Printable PROVE vga_putc(x, c) \in Set
  <2>1. PICK p \in Papers : Shows(x, p)
    BY DEF Showing
  <2>2. x \in Screens
    BY DEF Showing
  <2>3. vga_putc(x, c) \in Screens /\ Shows(vga_putc(x, c), PrintChar(p, c))
    BY <2>1, <2>2, PutcShows
  <2>4. PrintChar(p, c) \in Papers
    BY PaperPrinted
  <2> QED  BY <2>3, <2>4 DEF Showing
<1>3. vga \in Set
  BY DEF Showing
<1>4. body \in [(1 .. n) \X Set -> Set]
  <2> HIDE DEF Set
  <2> QED  BY <1>1, <1>2
<1> DEFINE Eq(i) == i = [t \in SUBSET DOMAIN s |->
                           IF t = {} THEN vga ELSE vga_putc(i[t \ {Max(t)}], s[Max(t)])]
           it == CHOOSE i : Eq(i)
<1>5. vga_puts(vga, s) = it[DOMAIN s]
  BY DEF vga_puts, FoldLeft, MapThenFoldSet
<1>6. \E i : Eq(i)
  <2>1. PICK i \in [SUBSET (1 .. n) -> Set] : Iterates(i, n, vga, body)
    <3> HIDE DEF n, Set, body
    <3> QED  BY <1>1, <1>3, <1>4, LoopExists
  <2>2. ASSUME NEW t \in SUBSET (1 .. n), t # {}
        PROVE  body[<<Max(t), i[t \ {Max(t)}]>>] = vga_putc(i[t \ {Max(t)}], s[Max(t)])
    <3>1. Max(t) \in 1 .. n /\ t \ {Max(t)} \in SUBSET (1 .. n)
      <4> HIDE DEF n
      <4> QED  BY <1>1, <2>2, LastTurn
    <3> HIDE DEF Set
    <3>2. i[t \ {Max(t)}] \in Set
      BY <3>1
    <3> QED  BY <3>1, <3>2
  <2>3. Eq(i)
    <3> HIDE DEF n, Set, body
    <3> QED  BY <1>1, <2>1, <2>2 DEF Iterates
  <2> HIDE DEF Eq
  <2> QED  BY <2>3
<1>7. Eq(it)
  <2> HIDE DEF Eq
  <2> QED  BY <1>6
<1> DEFINE run == [k \in 0 .. n |-> it[1 .. k]]
<1>8. run[0] = vga
  <2>1. 1 .. 0 = {} /\ {} \in SUBSET DOMAIN s /\ 0 \in 0 .. n
    BY <1>1
  <2> HIDE DEF it
  <2> QED  BY <1>7, <2>1
<1>9. ASSUME NEW k \in 1 .. n PROVE run[k] = vga_putc(run[k - 1], s[k])
  <2>1. /\ Max(1 .. k) = k /\ (1 .. k) \ {k} = 1 .. k - 1
        /\ 1 .. k \in SUBSET DOMAIN s /\ 1 .. k # {}
    <3> HIDE DEF n
    <3>1. k \in Nat /\ k > 0
      BY <1>1
    <3>2. Max(1 .. k) = k /\ (1 .. k) \ {k} = 1 .. k - 1
      BY <3>1, MaxOfBeginning
    <3>3. k \in 1 .. k /\ 1 .. k \in SUBSET (1 .. n)
      BY <1>1, <3>1
    <3> QED  BY <1>1, <3>2, <3>3
  <2>2. k \in 0 .. n /\ k - 1 \in 0 .. n
    BY <1>1
  <2> HIDE DEF it
  <2> QED  BY <1>7, <2>1, <2>2
<1>10. vga_puts(vga, s) = run[n]
  BY <1>1, <1>5
<1> HIDE DEF run
<1> QED  BY <1>8, <1>9, <1>10

\* The same on the paper.
LEMMA PrintRuns ==
    ASSUME paper \in Papers, NEW s \in Seq(Printable)
    PROVE  \E run : /\ run[0] = paper /\ Printed(s) = run[Len(s)]
                    /\ \A k \in 1 .. Len(s) : run[k] = PrintChar(run[k - 1], s[k])
<1> DEFINE n == Len(s)
           Set == Papers
           body == [x \in (1 .. n) \X Set |-> PrintChar(x[2], s[x[1]])]
<1>1. n \in Nat /\ DOMAIN s = 1 .. n /\ \A i \in 1 .. n : s[i] \in Printable
  BY LenProperties, ElementOfSeq
<1>2. ASSUME NEW x \in Set, NEW c \in Printable PROVE PrintChar(x, c) \in Set
  BY PaperPrinted
<1>3. paper \in Set
  OBVIOUS
<1>4. body \in [(1 .. n) \X Set -> Set]
  <2> HIDE DEF Set
  <2> QED  BY <1>1, <1>2
<1> DEFINE Eq(i) == i = [t \in SUBSET DOMAIN s |->
                           IF t = {} THEN paper ELSE PrintChar(i[t \ {Max(t)}], s[Max(t)])]
           it == CHOOSE i : Eq(i)
<1>5. Printed(s) = it[DOMAIN s]
  BY DEF Printed, FoldLeft, MapThenFoldSet
<1>6. \E i : Eq(i)
  <2>1. PICK i \in [SUBSET (1 .. n) -> Set] : Iterates(i, n, paper, body)
    <3> HIDE DEF n, Set, body
    <3> QED  BY <1>1, <1>3, <1>4, LoopExists
  <2>2. ASSUME NEW t \in SUBSET (1 .. n), t # {}
        PROVE  body[<<Max(t), i[t \ {Max(t)}]>>] = PrintChar(i[t \ {Max(t)}], s[Max(t)])
    <3>1. Max(t) \in 1 .. n /\ t \ {Max(t)} \in SUBSET (1 .. n)
      <4> HIDE DEF n
      <4> QED  BY <1>1, <2>2, LastTurn
    <3> HIDE DEF Set
    <3>2. i[t \ {Max(t)}] \in Set
      BY <3>1
    <3> QED  BY <3>1, <3>2
  <2>3. Eq(i)
    <3> HIDE DEF n, Set, body
    <3> QED  BY <1>1, <2>1, <2>2 DEF Iterates
  <2> HIDE DEF Eq
  <2> QED  BY <2>3
<1>7. Eq(it)
  <2> HIDE DEF Eq
  <2> QED  BY <1>6
<1> DEFINE run == [k \in 0 .. n |-> it[1 .. k]]
<1>8. run[0] = paper
  <2>1. 1 .. 0 = {} /\ {} \in SUBSET DOMAIN s /\ 0 \in 0 .. n
    BY <1>1
  <2> HIDE DEF it
  <2> QED  BY <1>7, <2>1
<1>9. ASSUME NEW k \in 1 .. n PROVE run[k] = PrintChar(run[k - 1], s[k])
  <2>1. /\ Max(1 .. k) = k /\ (1 .. k) \ {k} = 1 .. k - 1
        /\ 1 .. k \in SUBSET DOMAIN s /\ 1 .. k # {}
    <3> HIDE DEF n
    <3>1. k \in Nat /\ k > 0
      BY <1>1
    <3>2. Max(1 .. k) = k /\ (1 .. k) \ {k} = 1 .. k - 1
      BY <3>1, MaxOfBeginning
    <3>3. k \in 1 .. k /\ 1 .. k \in SUBSET (1 .. n)
      BY <1>1, <3>1
    <3> QED  BY <1>1, <3>2, <3>3
  <2>2. k \in 0 .. n /\ k - 1 \in 0 .. n
    BY <1>1
  <2> HIDE DEF it
  <2> QED  BY <1>7, <2>1, <2>2
<1>10. Printed(s) = run[n]
  BY <1>1, <1>5
<1> HIDE DEF run
<1> QED  BY <1>8, <1>9, <1>10

\* What a key makes of the line.
Step(l, c) ==
    CASE c = BackSpace                     -> SubSeq(l, 1, Len(l) - 1)
      [] c # BackSpace /\ Len(l) < LineMax -> Append(l, c)
      [] OTHER                             -> l

\* The line after each key.
LEMMA EditRuns ==
    ASSUME NEW keys \in Seq(Chars)
    PROVE  \E run : /\ run[0] = <<>> /\ Edited(keys) = run[Len(keys)]
                    /\ \A k \in 1 .. Len(keys) : run[k] = Step(run[k - 1], keys[k])
<1> DEFINE n == Len(keys)
           Set == Seq(Chars)
           body == [x \in (1 .. n) \X Set |-> Step(x[2], keys[x[1]])]
<1>1. n \in Nat /\ DOMAIN keys = 1 .. n /\ \A i \in 1 .. n : keys[i] \in Chars
  BY LenProperties, ElementOfSeq
<1>2. ASSUME NEW x \in Set, NEW c \in Chars PROVE Step(x, c) \in Set
  <2>1. Len(x) \in Nat
    BY LenProperties
  <2>2. SubSeq(x, 1, Len(x) - 1) \in Seq(Chars)
    BY <2>1, SubSeqProperties, ElementOfSeq
  <2> QED  BY <2>2, AppendProperties DEF Step
<1>3. <<>> \in Set
  BY EmptySeq
<1>4. body \in [(1 .. n) \X Set -> Set]
  <2> HIDE DEF Set
  <2> QED  BY <1>1, <1>2
<1> DEFINE Eq(i) == i = [t \in SUBSET DOMAIN keys |->
                           IF t = {} THEN <<>> ELSE Step(i[t \ {Max(t)}], keys[Max(t)])]
           it == CHOOSE i : Eq(i)
<1>5. Edited(keys) = it[DOMAIN keys]
  BY DEF Edited, Step, FoldLeft, MapThenFoldSet
<1>6. \E i : Eq(i)
  <2>1. PICK i \in [SUBSET (1 .. n) -> Set] : Iterates(i, n, <<>>, body)
    <3> HIDE DEF n, Set, body
    <3> QED  BY <1>1, <1>3, <1>4, LoopExists
  <2>2. ASSUME NEW t \in SUBSET (1 .. n), t # {}
        PROVE  body[<<Max(t), i[t \ {Max(t)}]>>] = Step(i[t \ {Max(t)}], keys[Max(t)])
    <3>1. Max(t) \in 1 .. n /\ t \ {Max(t)} \in SUBSET (1 .. n)
      <4> HIDE DEF n
      <4> QED  BY <1>1, <2>2, LastTurn
    <3> HIDE DEF Set
    <3>2. i[t \ {Max(t)}] \in Set
      BY <3>1
    <3> QED  BY <3>1, <3>2
  <2>3. Eq(i)
    <3> HIDE DEF n, Set, body
    <3> QED  BY <1>1, <2>1, <2>2 DEF Iterates
  <2> HIDE DEF Eq
  <2> QED  BY <2>3
<1>7. Eq(it)
  <2> HIDE DEF Eq
  <2> QED  BY <1>6
<1> DEFINE run == [k \in 0 .. n |-> it[1 .. k]]
<1>8. run[0] = <<>>
  <2>1. 1 .. 0 = {} /\ {} \in SUBSET DOMAIN keys /\ 0 \in 0 .. n
    BY <1>1
  <2> HIDE DEF it
  <2> QED  BY <1>7, <2>1
<1>9. ASSUME NEW k \in 1 .. n PROVE run[k] = Step(run[k - 1], keys[k])
  <2>1. /\ Max(1 .. k) = k /\ (1 .. k) \ {k} = 1 .. k - 1
        /\ 1 .. k \in SUBSET DOMAIN keys /\ 1 .. k # {}
    <3> HIDE DEF n
    <3>1. k \in Nat /\ k > 0
      BY <1>1
    <3>2. Max(1 .. k) = k /\ (1 .. k) \ {k} = 1 .. k - 1
      BY <3>1, MaxOfBeginning
    <3>3. k \in 1 .. k /\ 1 .. k \in SUBSET (1 .. n)
      BY <1>1, <3>1
    <3> QED  BY <1>1, <3>2, <3>3
  <2>2. k \in 0 .. n /\ k - 1 \in 0 .. n
    BY <1>1
  <2> HIDE DEF it
  <2> QED  BY <1>7, <2>1, <2>2
<1>10. Edited(keys) = run[n]
  BY <1>1, <1>5
<1> HIDE DEF run
<1> QED  BY <1>8, <1>9, <1>10

-----------------------------------------------------------------------------
(* What is printed                                                         *)

\* A character on the paper, when it does not fill the row.
LEMMA CellPrinted ==
    ASSUME NEW p \in Papers, NEW c \in Cells, p.col # VGA_COLS - 1
    PROVE  LET z == PrintChar(p, c) IN
           /\ z \in Papers /\ Len(z.rows) = Len(p.rows) /\ z.col = p.col + 1
           /\ \A q \in ColIds : z.rows[Len(z.rows)][q] =
                                   IF q = p.col THEN c ELSE p.rows[Len(p.rows)][q]
<1> DEFINE n == Len(p.rows)
           new == [p.rows[n] EXCEPT ![p.col] = c]
           done == [p.rows EXCEPT ![n] = new]
           z == PrintChar(p, c)
<1>1. /\ p.rows \in Seq(Rows) /\ n \in Nat /\ n \in 1 .. n /\ p.rows[n] \in Rows
  BY PaperParts
<1>2. /\ z \in Papers /\ new \in Rows /\ Len(done) = n
      /\ z.rows = done /\ z.col = p.col + 1
  BY PaperPrinted DEF Printable
<1>3. done[n] = new
  <2> HIDE DEF new
  <2> QED  BY <1>1, <1>2, ExceptSeq
<1>4. \A q \in ColIds : new[q] = IF q = p.col THEN c ELSE p.rows[n][q]
  BY <1>1 DEF Rows
<1> HIDE DEF z, new, done
<1> QED  BY <1>2, <1>3, <1>4 DEF z

\* A character leaves rows that end as they did, or makes one more, which is blank.
LEMMA RowsKept ==
    ASSUME NEW p \in Papers, NEW c \in Printable
    PROVE  LET z == PrintChar(p, c) IN
           /\ z \in Papers
           /\ \/ /\ Len(z.rows) = Len(p.rows) + 1 /\ z.col = 0
                 /\ z.rows[Len(z.rows)] = BlankRow
                 /\ c = NewLine \/ (c \in Cells /\ p.col = VGA_COLS - 1)
              \/ /\ Len(z.rows) = Len(p.rows)
                 /\ c = BackSpace \/ (c \in Cells /\ p.col # VGA_COLS - 1)
<1> DEFINE n == Len(p.rows)
           new == [p.rows[n] EXCEPT ![p.col] = c]
           done == [p.rows EXCEPT ![n] = new]
           z == PrintChar(p, c)
<1>1. z \in Papers /\ p.rows \in Seq(Rows) /\ n \in Nat
  BY PaperPrinted, PaperParts
<1>2. ASSUME NEW m \in Seq(Rows), Len(m) = n, z.rows = Append(m, BlankRow)
      PROVE  Len(z.rows) = n + 1 /\ z.rows[Len(z.rows)] = BlankRow
  <2> HIDE DEF z
  <2>1. Len(Append(m, BlankRow)) = n + 1 /\ Append(m, BlankRow)[n + 1] = BlankRow
    BY <1>2, Facts, AppendProperties
  <2> QED  BY <1>2, <2>1
<1>3. CASE c = NewLine
  <2>1. z.rows = Append(p.rows, BlankRow) /\ z.col = 0
    BY <1>3, PaperPrinted
  <2>2. Len(z.rows) = n + 1 /\ z.rows[Len(z.rows)] = BlankRow
    <3> HIDE DEF z
    <3> QED  BY <1>1, <1>2, <2>1
  <2> HIDE DEF z
  <2> QED  BY <1>1, <1>3, <2>1, <2>2 DEF z
<1>4. CASE c = BackSpace
  BY <1>1, <1>4, PaperPrinted
<1>5. CASE c \in Cells /\ p.col = VGA_COLS - 1
  <2>1. z.rows = Append(done, BlankRow) /\ z.col = 0 /\ done \in Seq(Rows) /\ Len(done) = n
    BY <1>5, PaperPrinted
  <2>2. Len(z.rows) = n + 1 /\ z.rows[Len(z.rows)] = BlankRow
    <3> HIDE DEF z, done
    <3> QED  BY <1>1, <1>2, <2>1
  <2> HIDE DEF z
  <2> QED  BY <1>1, <1>5, <2>1, <2>2 DEF z
<1>6. CASE c \in Cells /\ p.col # VGA_COLS - 1
  BY <1>1, <1>6, CellPrinted
<1> QED  BY <1>3, <1>4, <1>5, <1>6 DEF Printable

\* vga_puts shows what is printed.
LEMMA PutsShows ==
    ASSUME vga \in Screens, paper \in Papers, Shows(vga, paper), NEW s \in Seq(Printable)
    PROVE  /\ vga_puts(vga, s) \in Screens /\ Printed(s) \in Papers
           /\ Shows(vga_puts(vga, s), Printed(s))
           /\ Len(paper.rows) <= Len(Printed(s).rows)
<1> DEFINE n == Len(s)
<1>1. n \in Nat /\ \A k \in 1 .. n : s[k] \in Printable
  BY LenProperties, ElementOfSeq
<1>2. PICK a : a[0] = vga /\ vga_puts(vga, s) = a[n]
               /\ \A k \in 1 .. n : a[k] = vga_putc(a[k - 1], s[k])
  BY PutsRuns
<1>3. PICK b : b[0] = paper /\ Printed(s) = b[n]
               /\ \A k \in 1 .. n : b[k] = PrintChar(b[k - 1], s[k])
  BY PrintRuns
<1> DEFINE Good(k) == /\ a[k] \in Screens /\ b[k] \in Papers /\ Shows(a[k], b[k])
                      /\ Len(paper.rows) <= Len(b[k].rows)
           T == {k \in 0 .. n : Good(k)}
<1>4. 0 \in T
  <2>1. Len(paper.rows) \in Nat
    BY PaperParts
  <2>2. Good(0)
    BY <1>2, <1>3, <2>1
  <2> HIDE DEF Good
  <2> QED  BY <1>1, <2>2
<1>5. ASSUME NEW k \in 1 .. n, k - 1 \in T PROVE k \in T
  <2>1. PICK v \in Screens : v = a[k - 1]
    BY <1>5
  <2>2. PICK p \in Papers : p = b[k - 1]
    BY <1>5
  <2>3. PICK c \in Printable : c = s[k]
    BY <1>1
  <2>4. Shows(v, p) /\ Len(paper.rows) <= Len(p.rows)
    BY <1>5, <2>1, <2>2
  <2>5. a[k] = vga_putc(v, c) /\ b[k] = PrintChar(p, c)
    BY <1>2, <1>3, <2>1, <2>2, <2>3
  <2>6. a[k] \in Screens /\ Shows(a[k], b[k])
    BY <2>4, <2>5, PutcShows
  <2>7. b[k] \in Papers /\ Len(paper.rows) <= Len(b[k].rows)
    <3>1. Len(p.rows) \in Nat /\ Len(paper.rows) \in Nat
      BY PaperParts
    <3>2. b[k] \in Papers /\ (Len(b[k].rows) = Len(p.rows) + 1 \/ Len(b[k].rows) = Len(p.rows))
      BY <2>5, RowsKept
    <3> QED  BY <2>4, <3>1, <3>2
  <2>8. Good(k)
    BY <2>6, <2>7
  <2> HIDE DEF Good
  <2> QED  BY <1>1, <2>8
<1>6. Good(n)
  <2>1. n \in T
    <3> HIDE DEF T
    <3>1. \A k \in 0 .. n : k \in T
      BY <1>1, <1>4, <1>5, UpTo
    <3> QED  BY <1>1, <3>1
  <2> HIDE DEF Good
  <2> QED  BY <2>1
<1> HIDE DEF n
<1> QED  BY <1>2, <1>3, <1>6 DEF n

\* One character on the paper.
LEMMA PrintedOne ==
    ASSUME paper \in Papers, NEW c \in Printable
    PROVE  <<c>> \in Seq(Printable) /\ Len(<<c>>) = 1 /\ <<c>>[1] = c
           /\ Printed(<<c>>) = PrintChar(paper, c)
<1>1. <<c>> \in Seq(Printable) /\ Len(<<c>>) = 1 /\ <<c>>[1] = c
  OBVIOUS
<1>2. PICK b : b[0] = paper /\ Printed(<<c>>) = b[Len(<<c>>)]
               /\ \A k \in 1 .. Len(<<c>>) : b[k] = PrintChar(b[k - 1], <<c>>[k])
  BY <1>1, PrintRuns
<1>3. b[1] = PrintChar(b[1 - 1], <<c>>[1])
  BY <1>1, <1>2
<1> QED  BY <1>1, <1>2, <1>3

\* Rubbing out takes back the last character of the row, and leaves a blank there.
LEMMA RubbedOut ==
    ASSUME paper \in Papers
    PROVE  LET z == Printed(RubOut) IN
           /\ RubOut \in Seq(Printable)
           /\ paper.col > 0 =>
                /\ Len(z.rows) = Len(paper.rows) /\ z.col = paper.col - 1
                /\ \A q \in ColIds : z.rows[Len(z.rows)][q] =
                      IF q = z.col THEN Blank ELSE paper.rows[Len(paper.rows)][q]
<1>1. /\ RubOut \in Seq(Printable) /\ Len(RubOut) = 3
      /\ RubOut[1] = BackSpace /\ RubOut[2] = Blank /\ RubOut[3] = BackSpace
  BY Facts DEF RubOut, Printable
<1>2. PICK b : b[0] = paper /\ Printed(RubOut) = b[Len(RubOut)]
               /\ \A k \in 1 .. Len(RubOut) : b[k] = PrintChar(b[k - 1], RubOut[k])
  BY <1>1, PrintRuns
<1>3. /\ b[1] = PrintChar(paper, BackSpace) /\ b[2] = PrintChar(b[1], Blank)
      /\ b[3] = PrintChar(b[2], BackSpace) /\ Printed(RubOut) = b[3]
  <2>1. b[1] = PrintChar(b[0], BackSpace) /\ b[2] = PrintChar(b[1], Blank)
        /\ b[3] = PrintChar(b[2], BackSpace)
    <3>1. 1 - 1 = 0 /\ 2 - 1 = 1 /\ 3 - 1 = 2 /\ 1 \in 1 .. 3 /\ 2 \in 1 .. 3 /\ 3 \in 1 .. 3
      OBVIOUS
    <3> QED  BY <1>1, <1>2, <3>1
  <2> QED  BY <1>1, <1>2, <2>1
<1>4. BackSpace \in Printable /\ Blank \in Printable
  BY Facts DEF Printable
<1>5. PICK p \in Papers : /\ p = b[1] /\ p.rows = paper.rows
                          /\ p.col = IF paper.col = 0 THEN 0 ELSE paper.col - 1
  <2>1. /\ PrintChar(paper, BackSpace).rows = paper.rows
        /\ PrintChar(paper, BackSpace).col = IF paper.col = 0 THEN 0 ELSE paper.col - 1
        /\ PrintChar(paper, BackSpace) \in Papers
    BY <1>4, PaperPrinted
  <2> QED  BY <1>3, <2>1
<1>6. PICK r \in Papers : r = PrintChar(p, Blank) /\ r = b[2]
  <2>1. PrintChar(p, Blank) \in Papers
    BY <1>4, RowsKept
  <2> QED  BY <1>3, <1>5, <2>1
<1>7. PICK z \in Papers : /\ z = b[3] /\ z.rows = r.rows
                          /\ z.col = IF r.col = 0 THEN 0 ELSE r.col - 1
  <2>1. /\ PrintChar(r, BackSpace).rows = r.rows
        /\ PrintChar(r, BackSpace).col = IF r.col = 0 THEN 0 ELSE r.col - 1
        /\ PrintChar(r, BackSpace) \in Papers
    BY <1>4, PaperPrinted
  <2> QED  BY <1>3, <1>6, <2>1
<1>8. /\ paper.col \in Nat /\ paper.col < VGA_COLS /\ VGA_COLS \in Nat /\ VGA_COLS > 0
  BY PaperParts, Facts
<1>9. ASSUME paper.col > 0
      PROVE  /\ Len(z.rows) = Len(paper.rows) /\ z.col = paper.col - 1
             /\ \A q \in ColIds : z.rows[Len(z.rows)][q] =
                   IF q = z.col THEN Blank ELSE paper.rows[Len(paper.rows)][q]
  <2>1. p.col # VGA_COLS - 1 /\ p.col \in Nat /\ p.col = paper.col - 1
    BY <1>5, <1>8, <1>9
  <2>2. /\ Len(r.rows) = Len(p.rows) /\ r.col = p.col + 1
        /\ \A q \in ColIds : r.rows[Len(r.rows)][q] =
                                IF q = p.col THEN Blank ELSE p.rows[Len(p.rows)][q]
    <3> DEFINE e == PrintChar(p, Blank)
    <3>1. /\ Len(e.rows) = Len(p.rows) /\ e.col = p.col + 1
          /\ \A q \in ColIds : e.rows[Len(e.rows)][q] =
                                  IF q = p.col THEN Blank ELSE p.rows[Len(p.rows)][q]
      BY <2>1, CellPrinted, Facts
    <3> HIDE DEF e
    <3> QED  BY <1>6, <3>1 DEF e
  <2>3. z.col = p.col
    BY <1>7, <2>1, <2>2
  <2> QED  BY <1>5, <1>7, <2>1, <2>2, <2>3
<1> QED  BY <1>1, <1>3, <1>7, <1>9

-----------------------------------------------------------------------------
(* The keys                                                                *)

\* A line nobody has typed on is empty, and the last key changes what the others made.
LEMMA EditedStep ==
    /\ Edited(<<>>) = <<>>
    /\ \A keys \in Seq(Chars) :
         keys # <<>> => Edited(keys) = Step(Edited(Front(keys)), Last(keys))
<1>1. Edited(<<>>) = <<>>
  <2>1. <<>> \in Seq(Chars) /\ Len(<<>>) = 0
    BY EmptySeq
  <2> QED  BY <2>1, EditRuns
<1>2. ASSUME NEW keys \in Seq(Chars), keys # <<>>
      PROVE  Edited(keys) = Step(Edited(Front(keys)), Last(keys))
  <2> DEFINE n == Len(keys)
             front == Front(keys)
  <2>1. n \in Nat /\ n > 0
    BY <1>2, LenProperties, EmptySeq
  <2>2. front \in Seq(Chars) /\ Len(front) = n - 1 /\ \A i \in 1 .. n - 1 : front[i] = keys[i]
    <3>1. \A i \in 1 .. n - 1 : keys[i] \in Chars
      BY <2>1, ElementOfSeq
    <3>2. /\ front \in Seq(Chars) /\ Len(front) = IF 1 <= n - 1 THEN (n - 1) - 1 + 1 ELSE 0
          /\ \A i \in 1 .. (n - 1) - 1 + 1 : front[i] = keys[1 + i - 1]
      <4> HIDE DEF n
      <4>1. n - 1 \in Int /\ 1 \in Int
        BY <2>1
      <4> QED  BY <3>1, <4>1, SubSeqProperties DEF Front, n
    <3> HIDE DEF front, n
    <3>3. (n - 1) - 1 + 1 = n - 1 /\ \A i \in 1 .. n - 1 : 1 + i - 1 = i
      BY <2>1
    <3> QED  BY <2>1, <3>2, <3>3
  <2>3. PICK a : a[0] = <<>> /\ Edited(keys) = a[n]
                 /\ \A k \in 1 .. n : a[k] = Step(a[k - 1], keys[k])
    BY EditRuns
  <2>4. PICK b : b[0] = <<>> /\ Edited(front) = b[n - 1]
                 /\ \A k \in 1 .. n - 1 : b[k] = Step(b[k - 1], front[k])
    <3> HIDE DEF front, n
    <3> QED  BY <2>2, EditRuns
  <2> HIDE DEF front, n
  <2> DEFINE T == {k \in 0 .. n - 1 : a[k] = b[k]}
  <2>5. 0 \in T
    BY <2>1, <2>3, <2>4
  <2>6. ASSUME NEW k \in 1 .. n - 1, k - 1 \in T PROVE k \in T
    <3>1. k \in 1 .. n /\ k \in 0 .. n - 1 /\ a[k - 1] = b[k - 1] /\ keys[k] = front[k]
      BY <2>1, <2>2, <2>6
    <3> QED  BY <2>3, <2>4, <3>1
  <2>7. a[n - 1] = b[n - 1]
    <3>1. n - 1 \in Nat /\ n - 1 \in 0 .. n - 1
      BY <2>1
    <3>2. n - 1 \in T
      <4> HIDE DEF T
      <4>1. \A k \in 0 .. n - 1 : k \in T
        BY <2>5, <2>6, <3>1, UpTo
      <4> QED  BY <3>1, <4>1
    <3> QED  BY <3>2
  <2>8. a[n] = Step(a[n - 1], keys[n])
    BY <2>1, <2>3
  <2> QED  BY <2>3, <2>4, <2>7, <2>8 DEF front, n, Last
<1> QED  BY <1>1, <1>2

\* What was appended last is at the end.
LEMMA Appended ==
    ASSUME NEW S, NEW s \in Seq(S), NEW c \in S
    PROVE  /\ Append(s, c) \in Seq(S) /\ Append(s, c) # <<>>
           /\ Front(Append(s, c)) = s /\ Last(Append(s, c)) = c
<1> DEFINE n == Len(s)
           t == Append(s, c)
<1>1. /\ n \in Nat /\ t \in Seq(S) /\ t # <<>> /\ Len(t) = n + 1
      /\ \A i \in 1 .. n : t[i] = s[i]
  BY LenProperties, AppendProperties
<1>2. t[n + 1] = c
  BY AppendProperties
<1> HIDE DEF t, n
<1>3. SubSeq(t, 1, n) \in Seq(S) /\ Len(SubSeq(t, 1, n)) = n
      /\ \A i \in 1 .. n : SubSeq(t, 1, n)[i] = s[i]
  <2>1. \A i \in 1 .. n : t[i] \in S
    BY <1>1, ElementOfSeq
  <2>2. /\ SubSeq(t, 1, n) \in Seq(S) /\ Len(SubSeq(t, 1, n)) = IF 1 <= n THEN n - 1 + 1 ELSE 0
        /\ \A i \in 1 .. n - 1 + 1 : SubSeq(t, 1, n)[i] = t[1 + i - 1]
    <3>1. n \in Int /\ 1 \in Int
      BY <1>1
    <3> QED  BY <2>1, <3>1, SubSeqProperties
  <2>3. n - 1 + 1 = n /\ \A i \in 1 .. n : 1 + i - 1 = i
    BY <1>1
  <2> QED  BY <1>1, <2>2, <2>3
<1>4. SubSeq(t, 1, n) = s
  BY <1>3, SeqEqual DEF n
<1>5. Front(t) = SubSeq(t, 1, n)
  <2>1. Len(t) - 1 = n
    BY <1>1
  <2> QED  BY <2>1 DEF Front
<1> QED  BY <1>1, <1>2, <1>4, <1>5 DEF t, Last

-----------------------------------------------------------------------------
(* The steps                                                               *)

\* The screen and the paper start blank.
LEMMA InitInv == Init => IInv
<1> SUFFICES ASSUME Init PROVE IInv
  OBVIOUS
<1>1. 0 \in RowIds /\ 0 \in ColIds /\ 0 \in Nat
  BY Facts DEF RowIds, ColIds
<1>2. <<BlankRow>> \in Seq(Rows) /\ Len(<<BlankRow>>) = 1 /\ <<BlankRow>>[1] = BlankRow
  BY Facts
<1>3. vga \in Screens
  <2>1. PICK g \in Cells :
           vga = [Cleared EXCEPT !.cell = [r \in RowIds |-> [c \in ColIds |-> g]]]
    BY DEF Init
  <2>2. vga = [cell |-> [r \in RowIds |-> [c \in ColIds |-> g]], row |-> 0, col |-> 0]
    BY <2>1 DEF Cleared
  <2> QED  BY <1>1, <2>2 DEF Screens, Rows
<1>4. paper = [rows |-> <<BlankRow>>, col |-> 0]
  BY DEF Init
<1>5. paper \in Papers
  BY <1>1, <1>2, <1>4 DEF Papers
<1>6. NoHome \in Homes
  BY <1>1, Facts DEF NoHome, Homes
<1>7. TypeInv
  <2>1. <<>> \in Seq(Glyphs) /\ Len(<<>>) = 0 /\ <<>> \in Seq(Chars) /\ 0 <= LineMax
    BY EmptySeq, ConsoleAssumption
  <2> QED  BY <1>3, <1>5, <1>6, <2>1 DEF TypeInv, Init
<1>8. KeysInv
  BY DEF KeysInv, Init
<1>9. phase = "off"
  BY DEF Init
<1> QED  BY <1>4, <1>7, <1>8, <1>9 DEF IInv

\* The character of a scan code is one of the keyboard's, and Empty is not a scan code.
LEMMA CodesAre ==
    /\ \A sc \in Codes : CharOf(sc) \in Chars \cup {NoChar} /\ sc # Empty
    /\ NoChar \notin Chars
<1>1. ASSUME NEW sc \in Codes PROVE CharOf(sc) \in Chars \cup {NoChar} /\ sc # Empty
  <2>1. sc \in Nat
    BY ConsoleAssumption DEF Codes
  <2>2. sc # Empty
    BY <2>1 DEF Empty
  <2>3. CASE sc < KBD_BREAK_BIT
    <3>1. sc \in 0 .. KBD_BREAK_BIT - 1
      BY <2>1, <2>3, ConsoleAssumption
    <3> QED  BY <2>2, <2>3, <3>1, ConsoleAssumption DEF CharOf
  <2>4. CASE ~ (sc < KBD_BREAK_BIT)
    BY <2>2, <2>4 DEF CharOf
  <2> QED  BY <2>3, <2>4
<1>2. NoChar \notin Chars
  BY Facts DEF Chars, NoChar, NewLine, Return, BackSpace
<1> QED  BY <1>1, <1>2

\* After hal_init a blank screen shows a blank paper, and no key waits.
LEMMA HalInitKeeps == IInv /\ HalInit => IInv'
<1> SUFFICES ASSUME IInv, HalInit PROVE IInv'
  OBVIOUS
<1>1. 0 \in RowIds /\ 0 \in ColIds /\ 0 \in Nat
  BY Facts DEF RowIds, ColIds
<1>2. vga' = [cell |-> [r \in RowIds |-> BlankRow], row |-> 0, col |-> 0]
  BY DEF HalInit, Cleared
<1>3. vga' \in Screens
  BY <1>1, <1>2, Facts DEF Screens
<1>4. paper = [rows |-> <<BlankRow>>, col |-> 0] /\ typed = <<>>
  BY DEF IInv, KeysInv, HalInit
<1>5. PICK m \in [rows : Seq(Rows), col : ColIds] : m = paper'
  BY DEF IInv, TypeInv, Papers, HalInit
<1>6. Len(m.rows) = 1 /\ m.rows[1] = BlankRow /\ m.col = 0
  BY <1>4, <1>5 DEF HalInit
<1>7. ShowsRows([r \in RowIds |-> BlankRow], 0, m.rows)
  <2>1. \A r \in RowIds : r \in Nat
    BY Facts DEF RowIds
  <2>2. ASSUME NEW r \in RowIds, r <= 0 PROVE m.rows[Len(m.rows) - 0 + r] = BlankRow
    <3>1. r = 0
      BY <2>1, <2>2
    <3> QED  BY <1>6, <3>1
  <2> QED  BY <1>6, <2>2, Facts DEF ShowsRows
<1>8. Shows(vga', paper')
  BY <1>2, <1>5, <1>6, <1>7 DEF Shows
<1>9. TypeInv'
  BY <1>3 DEF IInv, TypeInv, HalInit
<1>10. KeysInv'
  <2>1. ~ Waiting' /\ phase' = "busy" /\ typed' = <<>>
    BY <1>4 DEF HalInit, Waiting
  <2> QED  BY <2>1 DEF KeysInv, Received
<1>11. phase' = "busy"
  BY DEF HalInit
<1> QED  BY <1>8, <1>9, <1>10, <1>11 DEF IInv

\* What is printed is shown.
LEMMA PutsKeeps ==
    ASSUME IInv, phase # "off", NEW s \in Seq(Printable), Puts(s)
    PROVE  /\ vga' \in Screens /\ paper' \in Papers /\ Shows(vga', paper')
           /\ Len(paper.rows) <= Len(paper'.rows)
<1>1. vga \in Screens /\ paper \in Papers /\ Shows(vga, paper)
  BY DEF IInv, TypeInv
<1>2. vga' = vga_puts(vga, s) /\ paper' = Printed(s)
  BY DEF Puts
<1>3. /\ vga_puts(vga, s) \in Screens /\ Printed(s) \in Papers
      /\ Shows(vga_puts(vga, s), Printed(s))
      /\ Len(paper.rows) <= Len(Printed(s).rows)
  BY <1>1, PutsShows
<1> QED  BY <1>1, <1>2, <1>3

\* A prompt begins a line: the keys pressed since the last one are still to come.
LEMMA ReadLineKeeps ==
    ASSUME IInv, NEW s \in Seq(Cells \cup {NewLine}), ReadLine(s)
    PROVE  IInv'
<1>1. s \in Seq(Printable)
  <2>1. Cells \cup {NewLine} \subseteq Printable
    BY DEF Printable
  <2> QED  BY <2>1, SeqMonotonic
<1>2. /\ phase = "busy" /\ Puts(s) /\ phase' = "editing" /\ line' = <<>>
      /\ home' = [row |-> Len(paper'.rows), col |-> paper'.col, under |-> Last(paper'.rows)]
      /\ obf' = obf /\ typed' = typed
  BY DEF ReadLine
<1>3. vga' \in Screens /\ paper' \in Papers /\ Shows(vga', paper')
  BY <1>1, <1>2, PutsKeeps
<1>4. PICK m \in Papers : m = paper'
  BY <1>3
<1>5. /\ Len(m.rows) \in Nat /\ m.col \in ColIds /\ m.col \in Nat
      /\ Last(m.rows) = m.rows[Len(m.rows)] /\ Last(m.rows) \in Rows
  BY PaperParts DEF Last
<1>6. Len(<<>>) = 0 /\ <<>> \in Seq(Glyphs) /\ 0 <= LineMax
  BY EmptySeq, ConsoleAssumption
<1>7. TypeInv'
  <2>1. home' \in Homes
    BY <1>2, <1>4, <1>5 DEF Homes
  <2> QED  BY <1>2, <1>3, <1>6, <2>1 DEF IInv, TypeInv
<1>8. LineShown'
  <2>1. /\ home'.row = Len(paper'.rows) /\ home'.col = m.col /\ paper'.col = m.col
        /\ Len(line') = 0 /\ home'.under = paper'.rows[Len(paper'.rows)]
    BY <1>2, <1>4, <1>5, <1>6
  <2>2. Len(paper'.rows) \in Nat /\ \A q \in ColIds : q \in Nat
    BY <1>4, <1>5, Facts DEF ColIds
  <2> QED  BY <1>5, <2>1, <2>2 DEF LineShown, LineIn
<1>9. KeysInv'
  <2>1. Received' = Received /\ Waiting' = Waiting
    BY <1>2 DEF Received, Waiting
  <2>2. Received = <<>> /\ (Waiting => typed # <<>> /\ Last(typed) = CharOf(obf))
    BY <1>2 DEF IInv, KeysInv
  <2> QED  BY <1>2, <2>1, <2>2, EditedStep DEF KeysInv
<1> QED  BY <1>2, <1>3, <1>7, <1>8, <1>9 DEF IInv

\* kbd_getc takes a key: the character that waited is the last one the shell has got.
LEMMA KeyTaken ==
    ASSUME IInv, NEW chars, GetC(chars), typed' = typed
    PROVE  /\ phase = "editing" /\ obf \in Codes /\ obf' = Empty
           /\ CharOf(obf) \in chars
           /\ ~ Waiting' /\ Received' = typed
           /\ CharOf(obf) = NoChar => Received = typed
           /\ CharOf(obf) # NoChar =>
                CharOf(obf) \in Chars /\ Edited(typed) = Step(line, CharOf(obf))
<1>1. phase = "editing" /\ obf # Empty /\ obf' = Empty /\ CharOf(obf) \in chars
  BY DEF GetC
<1>2. obf \in Codes
  BY <1>1 DEF IInv, TypeInv
<1>3. ~ Waiting' /\ Received' = typed
  BY <1>1 DEF Waiting, Received
<1>4. CharOf(obf) = NoChar => Received = typed
  BY DEF Waiting, Received
<1>5. ASSUME CharOf(obf) # NoChar
      PROVE  CharOf(obf) \in Chars /\ Edited(typed) = Step(line, CharOf(obf))
  <2>1. typed \in Seq(Chars) /\ typed # <<>> /\ Last(typed) = CharOf(obf)
        /\ line = Edited(Front(typed))
    BY <1>1, <1>5 DEF IInv, TypeInv, KeysInv, Waiting, Received
  <2>2. CharOf(obf) \in Chars
    BY <1>2, <1>5, CodesAre
  <2> QED  BY <2>1, <2>2, EditedStep
<1> QED  BY <1>1, <1>2, <1>3, <1>4, <1>5

\* A scan code without a character takes the key and leaves the line.
LEMMA IgnoredKeeps == IInv /\ Ignored => IInv'
<1> SUFFICES ASSUME IInv, Ignored PROVE IInv'
  OBVIOUS
<1>1. GetC({NoChar}) /\ UNCHANGED <<vga, phase, line, paper, home, typed>>
  BY DEF Ignored
<1>2. /\ phase = "editing" /\ obf \in Codes /\ obf' = Empty
      /\ CharOf(obf) = NoChar /\ ~ Waiting' /\ Received' = typed
      /\ Received = typed
  BY <1>1, KeyTaken
<1>3. TypeInv'
  BY <1>1, <1>2 DEF IInv, TypeInv
<1>4. KeysInv'
  BY <1>1, <1>2 DEF IInv, KeysInv
<1>5. Shows(vga, paper) /\ LineShown
  BY <1>2 DEF IInv
<1>6. Shows(vga', paper') /\ LineShown'
  BY <1>1, <1>2, <1>5 DEF LineShown, LineIn
<1> QED  BY <1>1, <1>2, <1>3, <1>4, <1>6 DEF IInv

\* Enter ends the line, and the screen goes on with a new row.
LEMMA EnterKeeps == IInv /\ Enter => IInv'
<1> SUFFICES ASSUME IInv, Enter PROVE IInv'
  OBVIOUS
<1>1. /\ phase = "editing" /\ obf' = Empty /\ home' = NoHome /\ Puts(<<NewLine>>)
      /\ phase' = "busy" /\ typed' = <<>> /\ line' = line
  BY DEF Enter, GetC
<1>2. <<NewLine>> \in Seq(Printable)
  BY DEF Printable
<1>3. vga' \in Screens /\ paper' \in Papers /\ Shows(vga', paper')
  BY <1>1, <1>2, PutsKeeps
<1>4. NoHome \in Homes
  BY Facts DEF NoHome, Homes, ColIds
<1>5. TypeInv'
  BY <1>1, <1>3, <1>4, EmptySeq DEF IInv, TypeInv
<1>6. ~ Waiting' /\ Received' = <<>>
  BY <1>1 DEF Waiting, Received
<1>7. KeysInv'
  BY <1>1, <1>6 DEF KeysInv
<1> QED  BY <1>1, <1>3, <1>5, <1>7 DEF IInv

\* Output between the lines goes to the screen and to the paper.
LEMMA OutputKeeps ==
    ASSUME IInv, NEW c \in Cells \cup {NewLine, BackSpace}, Output(c)
    PROVE  IInv'
<1>1. /\ phase = "busy" /\ Puts(<<c>>)
      /\ UNCHANGED <<obf, phase, line, home, typed>>
  BY DEF Output
<1>2. <<c>> \in Seq(Printable)
  BY DEF Printable
<1>4. vga' \in Screens /\ paper' \in Papers /\ Shows(vga', paper')
  BY <1>1, <1>2, PutsKeeps
<1>5. TypeInv'
  BY <1>1, <1>4 DEF IInv, TypeInv
<1>6. Waiting' = Waiting /\ Received' = Received
  BY <1>1 DEF Waiting, Received
<1>7. KeysInv'
  BY <1>1, <1>6 DEF IInv, KeysInv
<1> QED  BY <1>1, <1>4, <1>5, <1>7 DEF IInv

\* A key is pressed: the shell gets its character later.
LEMMA KeyEventKeeps ==
    ASSUME IInv, NEW sc \in Codes, KeyEvent(sc)
    PROVE  IInv'
<1>1. /\ obf = Empty /\ obf' = sc /\ UNCHANGED <<vga, phase, line, paper, home>>
      /\ typed' = IF phase = "off" \/ CharOf(sc) = NoChar THEN typed
                  ELSE Append(typed, CharOf(sc))
  BY DEF KeyEvent
<1>2. sc # Empty /\ CharOf(sc) \in Chars \cup {NoChar}
  BY CodesAre
<1>3. typed \in Seq(Chars) /\ Received = typed
  BY <1>1 DEF IInv, TypeInv, Received, Waiting
<1>4. Shows(vga, paper)' = Shows(vga, paper)
      /\ LineShown' = LineShown
  BY <1>1 DEF LineShown, LineIn
<1>5. CASE phase = "off" \/ CharOf(sc) = NoChar
  <2>1. typed' = typed /\ (phase # "off" => ~ Waiting' /\ Received' = typed)
    BY <1>1, <1>5 DEF Waiting, Received
  <2>2. TypeInv'
    BY <1>1, <2>1 DEF IInv, TypeInv
  <2>3. KeysInv'
    BY <1>1, <1>3, <2>1 DEF IInv, KeysInv
  <2> QED  BY <1>1, <1>4, <2>2, <2>3 DEF IInv
<1>6. CASE ~ (phase = "off" \/ CharOf(sc) = NoChar)
  <2>1. typed' = Append(typed, CharOf(sc)) /\ CharOf(sc) \in Chars
    BY <1>1, <1>2, <1>6
  <2>2. typed' \in Seq(Chars) /\ typed' # <<>> /\ Front(typed') = typed /\ Last(typed') = CharOf(sc)
    BY <1>3, <2>1, Appended
  <2>3. Received' = typed
    BY <1>1, <1>2, <1>6, <2>2 DEF Received, Waiting
  <2>4. TypeInv'
    BY <1>1, <2>2 DEF IInv, TypeInv
  <2>5. KeysInv'
    BY <1>1, <1>3, <1>6, <2>2, <2>3 DEF IInv, KeysInv
  <2> QED  BY <1>1, <1>4, <2>4, <2>5 DEF IInv
<1> QED  BY <1>5, <1>6

\* A letter is shown and kept, or neither.
LEMMA EchoKeeps ==
    ASSUME IInv, NEW c \in Glyphs, Echo(c)
    PROVE  IInv'
<1>1. GetC({c}) /\ typed' = typed /\ phase' = phase /\ home' = home
  BY DEF Echo
<1>2. c # NoChar /\ c # BackSpace /\ c # NewLine /\ c \in Cells /\ c \in Printable
  BY Facts DEF Printable
<1>3. /\ phase = "editing" /\ obf' = Empty
      /\ ~ Waiting' /\ Received' = typed /\ Edited(typed) = Step(line, c)
  BY <1>1, <1>2, KeyTaken
<1>4. /\ line \in Seq(Glyphs) /\ Len(line) <= LineMax /\ Len(line) \in Nat /\ LineMax \in Nat
      /\ paper \in Papers /\ LineShown /\ home \in Homes
      /\ home.row \in Nat /\ home.col \in Nat
  BY <1>3, LenProperties, ConsoleAssumption, Facts DEF IInv, TypeInv, Homes, ColIds
<1>5. CASE ~ (Len(line) < LineMax)
  <2>1. UNCHANGED <<vga, paper, line>> /\ Step(line, c) = line
    <3>1. Len(line) = LineMax
      BY <1>4, <1>5
    <3> QED  BY <1>2, <1>5, <3>1 DEF Echo, Step
  <2>2. TypeInv'
    BY <1>1, <1>3, <2>1 DEF IInv, TypeInv
  <2>3. KeysInv'
    BY <1>1, <1>3, <2>1 DEF KeysInv
  <2>4. Shows(vga, paper)' = Shows(vga, paper)
        /\ LineShown' = LineShown
    BY <1>1, <2>1 DEF LineShown, LineIn
  <2> QED  BY <1>1, <1>3, <2>2, <2>3, <2>4 DEF IInv
<1>6. CASE Len(line) < LineMax
  <2>1. Puts(<<c>>) /\ line' = Append(line, c) /\ Step(line, c) = Append(line, c)
    <3>1. Len(line) # LineMax
      BY <1>4, <1>6
    <3> QED  BY <1>2, <1>6, <3>1 DEF Echo, Step
  <2>2. <<c>> \in Seq(Printable)
    BY <1>2
  <2>3. /\ vga' \in Screens /\ paper' \in Papers /\ Shows(vga', paper')
        /\ Len(paper.rows) <= Len(paper'.rows)
    BY <1>3, <2>1, <2>2, PutsKeeps
  <2>4. /\ line' \in Seq(Glyphs) /\ Len(line') = Len(line) + 1
        /\ \A i \in 1 .. Len(line) : line'[i] = line[i]
    BY <1>4, <2>1, AppendProperties
  <2>5. line'[Len(line) + 1] = c
    BY <1>4, <2>1, AppendProperties
  <2>6. TypeInv'
    BY <1>1, <1>3, <1>4, <1>6, <2>3, <2>4 DEF IInv, TypeInv
  <2>7. KeysInv'
    BY <1>1, <1>3, <2>1 DEF KeysInv
  <2>8. paper' = PrintChar(paper, c)
    BY <1>2, <1>4, <2>1, PrintedOne DEF Puts
  <2>9. PICK z \in Papers : z = paper'
    BY <2>3
  <2>10. Len(z.rows) \in Nat /\ Len(paper.rows) \in Nat /\ paper.col \in Nat
    BY <1>4, PaperParts
  <2>11. LineShown'
    <3>1. CASE paper.col = VGA_COLS - 1
      <4>1. \/ Len(PrintChar(paper, c).rows) = Len(paper.rows) + 1
            \/ c = BackSpace \/ paper.col # VGA_COLS - 1
        BY <1>2, <1>4, RowsKept
      <4>2. Len(paper'.rows) = Len(paper.rows) + 1
        BY <1>2, <2>8, <3>1, <4>1
      <4>3. home.row <= Len(paper.rows) /\ home.row \in Nat
        BY <1>4 DEF LineShown
      <4>4. home'.row <= Len(paper'.rows) /\ Len(paper'.rows) # home'.row
        BY <1>1, <2>10, <4>2, <4>3
      <4> QED  BY <4>4 DEF LineShown
    <3>2. CASE paper.col # VGA_COLS - 1
      <4> DEFINE e == PrintChar(paper, c)
      <4>1. /\ Len(e.rows) = Len(paper.rows) /\ e.col = paper.col + 1
            /\ \A q \in ColIds : e.rows[Len(e.rows)][q] =
                                    IF q = paper.col THEN c ELSE paper.rows[Len(paper.rows)][q]
        BY <1>2, <1>4, <3>2, CellPrinted
      <4>2. e = z /\ paper' = z
        BY <2>8, <2>9
      <4> HIDE DEF e
      <4>3. home.row <= Len(paper.rows) /\ home'.row <= Len(z.rows)
        BY <1>1, <1>4, <4>1, <4>2 DEF LineShown
      <4>4. ASSUME Len(z.rows) = home.row
            PROVE  /\ z.col = home.col + Len(line')
                   /\ \A q \in ColIds :
                        /\ home.col <= q /\ q < z.col =>
                             z.rows[Len(z.rows)][q] = line'[q - home.col + 1]
                        /\ q >= z.col => z.rows[Len(z.rows)][q] \in {Blank, home.under[q]}
        <5>1. Len(paper.rows) = home.row
          BY <4>1, <4>2, <4>4
        <5>2. LineIn(paper.rows[Len(paper.rows)], paper.col, line)
          BY <1>4, <5>1 DEF LineShown
        <5>3. paper.col = home.col + Len(line) /\ home.col \in Nat /\ Len(line) \in Nat
          BY <1>4, <5>1 DEF LineShown
        <5>4. z.col = paper.col + 1 /\ Len(line') = Len(line) + 1
          BY <2>4, <4>1, <4>2
        <5>5. z.col = home.col + Len(line')
          BY <5>3, <5>4
        <5>6. ASSUME NEW q \in ColIds, home.col <= q, q < z.col
              PROVE  z.rows[Len(z.rows)][q] = line'[q - home.col + 1]
          <6>1. q \in Nat /\ z.col = paper.col + 1
            BY <4>1, <4>2, Facts DEF ColIds
          <6>2. CASE q = paper.col
            <7>1. q - home.col + 1 = Len(line) + 1
              BY <5>3, <6>1, <6>2
            <7> QED  BY <2>5, <4>1, <4>2, <6>2, <7>1
          <6>3. CASE q # paper.col
            <7>1. q < paper.col /\ q - home.col + 1 \in 1 .. Len(line)
              BY <5>3, <5>6, <6>1, <6>3
            <7>2. line'[q - home.col + 1] = line[q - home.col + 1]
              BY <2>4, <7>1
            <7>3. z.rows[Len(z.rows)][q] = paper.rows[Len(paper.rows)][q]
              BY <4>1, <4>2, <6>3
            <7> QED  BY <5>2, <5>6, <7>1, <7>2, <7>3 DEF LineIn
          <6> QED  BY <6>2, <6>3
        <5>7. ASSUME NEW q \in ColIds, q >= z.col
              PROVE  z.rows[Len(z.rows)][q] \in {Blank, home.under[q]}
          <6>1. q \in Nat /\ q >= paper.col /\ q # paper.col
            BY <2>10, <4>1, <4>2, <5>7, Facts DEF ColIds
          <6>2. z.rows[Len(z.rows)][q] = paper.rows[Len(paper.rows)][q]
            BY <4>1, <4>2, <6>1
          <6> QED  BY <5>2, <6>1, <6>2 DEF LineIn
        <5> QED  BY <5>5, <5>6, <5>7
      <4> QED  BY <1>1, <4>2, <4>3, <4>4 DEF LineShown, LineIn
    <3> QED  BY <3>1, <3>2
  <2> QED  BY <1>1, <1>3, <2>3, <2>6, <2>7, <2>11 DEF IInv
<1> QED  BY <1>5, <1>6

\* A letter is taken off the screen and the line, or there is none.
LEMMA EraseKeeps == IInv /\ Erase => IInv'
<1> SUFFICES ASSUME IInv, Erase PROVE IInv'
  OBVIOUS
<1>1. GetC({BackSpace}) /\ typed' = typed /\ phase' = phase /\ home' = home
  BY DEF Erase
<1>2. BackSpace # NoChar
  BY DEF BackSpace, NoChar
<1>3. /\ phase = "editing" /\ obf' = Empty
      /\ ~ Waiting' /\ Received' = typed /\ Edited(typed) = Step(line, BackSpace)
  BY <1>1, <1>2, KeyTaken
<1>4. /\ line \in Seq(Glyphs) /\ Len(line) <= LineMax /\ Len(line) \in Nat /\ LineMax \in Nat
      /\ paper \in Papers /\ LineShown /\ home \in Homes
      /\ home.row \in Nat /\ home.col \in Nat
  BY <1>3, LenProperties, ConsoleAssumption, Facts DEF IInv, TypeInv, Homes, ColIds
<1>5. Step(line, BackSpace) = SubSeq(line, 1, Len(line) - 1)
  BY DEF Step
<1>6. CASE line = <<>>
  <2>1. UNCHANGED <<vga, paper, line>>
    BY <1>6 DEF Erase
  <2>2. SubSeq(line, 1, Len(line) - 1) = line
    <3>1. Len(line) - 1 \in Int /\ Len(line) - 1 < 1 /\ 1 \in Int
      BY <1>6, EmptySeq
    <3> HIDE <1>6
    <3>2. SubSeq(line, 1, Len(line) - 1) = <<>>
      BY <3>1, SubSeqEmpty
    <3> QED  BY <1>6, <3>2
  <2>3. TypeInv'
    BY <1>1, <1>3, <2>1 DEF IInv, TypeInv
  <2>4. KeysInv'
    BY <1>1, <1>3, <1>5, <2>1, <2>2 DEF KeysInv
  <2>5. Shows(vga, paper)' = Shows(vga, paper)
        /\ LineShown' = LineShown
    BY <1>1, <2>1 DEF LineShown, LineIn
  <2> QED  BY <1>1, <1>3, <2>3, <2>4, <2>5 DEF IInv
<1>7. CASE line # <<>>
  <2>1. Puts(RubOut) /\ line' = SubSeq(line, 1, Len(line) - 1)
    BY <1>7 DEF Erase, Front
  <2>2. Len(line) > 0
    BY <1>4, <1>7, EmptySeq
  <2>3. /\ line' \in Seq(Glyphs) /\ Len(line') = Len(line) - 1
        /\ \A i \in 1 .. Len(line) - 1 : line'[i] = line[i]
    <3> DEFINE n == Len(line) - 1
    <3>1. n \in Int /\ 1 \in Int /\ \A i \in 1 .. n : line[i] \in Glyphs
      BY <1>4, ElementOfSeq
    <3> HIDE DEF n
    <3>2. /\ SubSeq(line, 1, n) \in Seq(Glyphs)
          /\ Len(SubSeq(line, 1, n)) = IF 1 <= n THEN n - 1 + 1 ELSE 0
          /\ \A i \in 1 .. n - 1 + 1 : SubSeq(line, 1, n)[i] = line[1 + i - 1]
      BY <3>1, SubSeqProperties
    <3>3. n \in Nat /\ n - 1 + 1 = n /\ \A i \in 1 .. n : 1 + i - 1 = i
      BY <1>4, <2>2 DEF n
    <3>4. line' = SubSeq(line, 1, n)
      BY <2>1 DEF n
    <3>5. line' \in Seq(Glyphs) /\ Len(line') = n /\ \A i \in 1 .. n : line'[i] = line[i]
      BY <3>2, <3>3, <3>4
    <3> QED  BY <3>5 DEF n
  <2>4. /\ RubOut \in Seq(Printable)
        /\ paper.col > 0 =>
             /\ Len(Printed(RubOut).rows) = Len(paper.rows)
             /\ Printed(RubOut).col = paper.col - 1
             /\ \A q \in ColIds :
                  Printed(RubOut).rows[Len(Printed(RubOut).rows)][q] =
                    IF q = Printed(RubOut).col THEN Blank ELSE paper.rows[Len(paper.rows)][q]
    BY <1>4, RubbedOut
  <2>5. paper' = Printed(RubOut)
    BY <2>1 DEF Puts
  <2>6. /\ vga' \in Screens /\ paper' \in Papers /\ Shows(vga', paper')
        /\ Len(paper.rows) <= Len(paper'.rows)
    BY <1>3, <2>1, <2>4, <2>5, PutsKeeps
  <2>7. TypeInv'
    BY <1>1, <1>3, <1>4, <2>3, <2>6 DEF IInv, TypeInv
  <2>8. KeysInv'
    BY <1>1, <1>3, <1>5, <2>1 DEF KeysInv
  <2>9. PICK z \in Papers : z = paper' /\ z = Printed(RubOut)
    BY <2>5, <2>6
  <2>10. Len(z.rows) \in Nat /\ Len(paper.rows) \in Nat /\ paper.col \in Nat
    BY <1>4, PaperParts
  <2>11. LineShown'
    <3>1. home.row <= Len(paper.rows) /\ home.row \in Nat /\ home.row <= Len(z.rows)
      BY <1>4, <2>6, <2>9, <2>10 DEF LineShown
    <3>2. ASSUME Len(z.rows) = home.row
          PROVE  /\ z.col = home.col + Len(line')
                 /\ \A q \in ColIds :
                      /\ home.col <= q /\ q < z.col =>
                           z.rows[Len(z.rows)][q] = line'[q - home.col + 1]
                      /\ q >= z.col => z.rows[Len(z.rows)][q] \in {Blank, home.under[q]}
      <4>1. Len(paper.rows) = home.row
        BY <2>6, <2>9, <2>10, <3>1, <3>2
      <4>2. LineIn(paper.rows[Len(paper.rows)], paper.col, line)
        BY <1>4, <4>1 DEF LineShown
      <4>3. paper.col = home.col + Len(line) /\ home.col \in Nat /\ Len(line) \in Nat
        BY <1>4, <4>1 DEF LineShown
      <4>4. /\ z.col = paper.col - 1
            /\ \A q \in ColIds :
                 z.rows[Len(z.rows)][q] =
                   IF q = z.col THEN Blank ELSE paper.rows[Len(paper.rows)][q]
        BY <2>2, <2>4, <2>9, <4>3
      <4>5. z.col = home.col + Len(line')
        BY <2>3, <4>3, <4>4
      <4>6. ASSUME NEW q \in ColIds, home.col <= q, q < z.col
            PROVE  z.rows[Len(z.rows)][q] = line'[q - home.col + 1]
        <5>1. q \in Nat
          BY Facts DEF ColIds
        <5>2. q < paper.col /\ q # z.col /\ q - home.col + 1 \in 1 .. Len(line) - 1
          BY <4>3, <4>4, <4>6, <5>1
        <5>3. line'[q - home.col + 1] = line[q - home.col + 1]
          BY <2>3, <5>2
        <5> QED  BY <4>2, <4>4, <4>6, <5>2, <5>3 DEF LineIn
      <4>7. ASSUME NEW q \in ColIds, q >= z.col
            PROVE  z.rows[Len(z.rows)][q] \in {Blank, home.under[q]}
        <5>1. CASE q = z.col
          BY <4>4, <5>1
        <5>2. CASE q # z.col
          <6>1. q \in Nat /\ q >= paper.col
            BY <2>10, <4>4, <4>7, <5>2, Facts DEF ColIds
          <6> QED  BY <4>2, <4>4, <5>2, <6>1 DEF LineIn
        <5> QED  BY <5>1, <5>2
      <4> QED  BY <4>5, <4>6, <4>7
    <3> QED  BY <1>1, <2>9, <3>1, <3>2 DEF LineShown, LineIn
  <2> QED  BY <1>1, <1>3, <2>6, <2>7, <2>8, <2>11 DEF IInv
<1> QED  BY <1>6, <1>7

-----------------------------------------------------------------------------
(* The theorems                                                            *)

\* Every step keeps the invariant.
LEMMA Step_Keeps == IInv /\ [Next]_vars => IInv'
<1> SUFFICES ASSUME IInv, [Next]_vars PROVE IInv'
  OBVIOUS
<1>1. Prompt \in Seq(Cells \cup {NewLine}) /\ Banner \o Prompt \in Seq(Cells \cup {NewLine})
  <2>1. Prompt \in Seq(Cells \cup {NewLine}) /\ Banner \in Seq(Cells \cup {NewLine})
    BY ConsoleAssumption, SeqMonotonic
  <2> QED  BY <2>1, ConcatProperties
<1>2. CASE HalInit
  BY <1>2, HalInitKeeps
<1>3. CASE ShellMain
  BY <1>1, <1>3, ReadLineKeeps DEF ShellMain
<1>4. CASE NextPrompt
  BY <1>1, <1>4, ReadLineKeeps DEF NextPrompt
<1>5. CASE Ignored
  BY <1>5, IgnoredKeeps
<1>6. CASE Enter
  BY <1>6, EnterKeeps
<1>7. CASE Erase
  BY <1>7, EraseKeeps
<1>8. ASSUME NEW c \in Glyphs, Echo(c) PROVE IInv'
  BY <1>8, EchoKeeps
<1>9. ASSUME NEW c \in Cells \cup {NewLine, BackSpace}, Output(c) PROVE IInv'
  BY <1>9, OutputKeeps
<1>10. ASSUME NEW sc \in Codes, KeyEvent(sc) PROVE IInv'
  BY <1>10, KeyEventKeeps
<1>11. CASE UNCHANGED vars
  <2>1. TypeInv' /\ KeysInv'
    BY <1>11 DEF IInv, TypeInv, KeysInv, Received, Waiting, vars
  <2>2. Shows(vga, paper)' = Shows(vga, paper)
        /\ LineShown' = LineShown
    BY <1>11 DEF LineShown, LineIn, vars
  <2> QED  BY <1>11, <2>1, <2>2 DEF IInv, vars
<1> QED  BY <1>2, <1>3, <1>4, <1>5, <1>6, <1>7, <1>8, <1>9, <1>10, <1>11 DEF Next

\* The screen is the end of the paper, what stands behind the prompt is the line, and the
\* line is what the keys that came through have made of it.
THEOREM Invariant == Spec => []IInv
  BY InitInv, Step_Keeps, PTL DEF Spec

\* The rows that vga.cpp scrolls, clears and writes always show the end of what has been
\* printed, whatever the size of the screen and whatever is printed.
THEOREM Window == Spec => []ScreenIsWindow
<1>1. IInv => ScreenIsWindow
  <2> SUFFICES ASSUME IInv PROVE ScreenIsWindow
    OBVIOUS
  <2>1. vga \in Screens /\ paper \in Papers
    BY DEF IInv, TypeInv
  <2>2. vga.row \in RowIds /\ vga.row \in Nat /\ vga.row < VGA_ROWS /\ VGA_ROWS \in Nat
    BY <2>1, ScreenParts, Facts
  <2>3. phase # "off" =>
          /\ vga.col = paper.col
          /\ Len(paper.rows) - vga.row = 1 \/ vga.row >= VGA_ROWS - 1
          /\ \A r \in RowIds : vga.cell[r] = IF r <= vga.row
                                             THEN paper.rows[Len(paper.rows) - vga.row + r]
                                             ELSE BlankRow
    BY DEF IInv, Shows, ShowsRows
  <2>4. vga.row >= VGA_ROWS - 1 => vga.row = VGA_ROWS - 1
    BY <2>2
  <2> QED  BY <2>1, <2>3, <2>4 DEF ScreenIsWindow, Screens, Rows
<1> QED  BY <1>1, Invariant, PTL

\* As long as the line has not wrapped, the editor of shell_main and the screen agree on it.
THEOREM LineOnScreen == Spec => []ScreenShowsLine
<1>1. IInv => ScreenShowsLine
  <2> SUFFICES ASSUME IInv, phase = "editing", Len(paper.rows) = home.row
               PROVE  /\ vga.col = home.col + Len(line)
                      /\ \A c \in home.col .. VGA_COLS - 1 :
                           IF c < vga.col
                           THEN vga.cell[vga.row][c] = line[c - home.col + 1]
                           ELSE vga.cell[vga.row][c] \in {Blank, home.under[c]}
    BY DEF ScreenShowsLine
  <2>1. vga \in Screens /\ paper \in Papers /\ home \in Homes
    BY DEF IInv, TypeInv
  <2>2. vga.row \in RowIds /\ vga.row \in Nat /\ Len(paper.rows) \in Nat /\ home.col \in Nat
        /\ paper.col \in Nat
    BY <2>1, ScreenParts, PaperParts, Facts DEF ColIds, Homes
  <2>3. vga.col = paper.col /\ vga.cell[vga.row] = paper.rows[Len(paper.rows)]
    <3>1. /\ vga.col = paper.col
          /\ \A r \in RowIds : vga.cell[r] = IF r <= vga.row
                                             THEN paper.rows[Len(paper.rows) - vga.row + r]
                                             ELSE BlankRow
      BY DEF IInv, Shows, ShowsRows
    <3>2. vga.row <= vga.row /\ Len(paper.rows) - vga.row + vga.row = Len(paper.rows)
      BY <2>2
    <3> QED  BY <2>2, <3>1, <3>2
  <2>4. /\ paper.col = home.col + Len(line)
        /\ LineIn(paper.rows[Len(paper.rows)], paper.col, line)
    BY DEF IInv, LineShown
  <2>5. ASSUME NEW c \in home.col .. VGA_COLS - 1
        PROVE  IF c < vga.col
               THEN vga.cell[vga.row][c] = line[c - home.col + 1]
               ELSE vga.cell[vga.row][c] \in {Blank, home.under[c]}
    <3>1. c \in ColIds /\ c \in Nat /\ home.col <= c
      BY <2>2, Facts DEF ColIds
    <3> QED  BY <2>2, <2>3, <2>4, <3>1 DEF LineIn
  <2> QED  BY <2>3, <2>4, <2>5
<1> QED  BY <1>1, Invariant, PTL

\* No key is lost, doubled or out of order between the keyboard controller, kbd_getc and
\* the line: the line is what the keys pressed since the last one make.
THEOREM KeysArrive == Spec => []LineIsTyped
<1>1. IInv => LineIsTyped
  BY DEF IInv, KeysInv, LineIsTyped, Received, Waiting
<1> QED  BY <1>1, Invariant, PTL

=============================================================================
