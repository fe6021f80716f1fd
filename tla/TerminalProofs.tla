---------------------------- MODULE TerminalProofs ----------------------------
(***************************************************************************)
(* The screen of Terminal stays exact, its scrollback is what scrolled off *)
(* and a resize keeps the text around the cursor, for every size, glyph,   *)
(* parameter and cap of the scrollback.                                    *)
(***************************************************************************)
EXTENDS Terminal, SequenceTheorems, TLAPS

(* A terminal whose screen is exact.                                       *)
Exact(t) ==
  /\ t \in Term
  /\ t.cols > 0 /\ t.height > 0
  /\ Len(t.rows) = t.height
  /\ t.cur_row < t.height
  /\ Len(t.scrollback) <= MaxRows

Line == Seq(Glyphs \cup {Blank})

(* The inductive invariant: TypeOK alone does not say that a row is where  *)
(* the cursor is, ScreenIsExact alone not what the rows are.               *)
TermInv == Exact(term) /\ TypeOK

-----------------------------------------------------------------------------
(* Lines and rows.                                                         *)

LEMMA BlanksType == ASSUME NEW n \in Int PROVE Blanks(n) \in Line
  <1>1. CASE n < 0
    BY <1>1 DEF Blanks, Line
  <1>2. CASE n >= 0
    BY <1>2 DEF Blanks, Line
  <1> QED BY <1>1, <1>2

LEMMA EmptyRowsType ==
  ASSUME NEW n \in Nat
  PROVE  EmptyRows(n) \in Rows /\ Len(EmptyRows(n)) = n
  BY DEF EmptyRows, Rows

(* Filling cells of a line gives a line.                                   *)
LEMMA FillType ==
  ASSUME NEW row \in Line, NEW a \in Int, NEW b \in Int,
         NEW c \in Glyphs \cup {Blank}
  PROVE  Fill(row, a, b, c) \in Line
  BY DEF Fill, Line, AtLeast

LEMMA SubLine ==
  ASSUME NEW row \in Line, NEW a \in Nat \ {0}, NEW b \in Int, b <= Len(row)
  PROVE  SubSeq(row, a, b) \in Line
  BY DEF Line

(* The cap keeps a part of the rows, at most MaxRows of them.              *)
LEMMA CapType ==
  ASSUME NEW s \in Rows
  PROVE  cap_total(s) \in Rows /\ Len(cap_total(s)) <= MaxRows
  BY SizesAssumption DEF cap_total, Rows, AtLeast

(* Replacing the cursor's row by a line.                                   *)
LEMMA SetRowExact ==
  ASSUME NEW t, Exact(t), NEW row \in Line
  PROVE  Exact(SetRow(t, row)) /\ SetRow(t, row).cur_row = t.cur_row
         /\ SetRow(t, row).cur_col = t.cur_col
  <1> DEFINE rows == [t.rows EXCEPT ![t.cur_row + 1] = row]
  <1>1. t.rows \in Seq(Line) /\ t.cur_row + 1 \in 1..Len(t.rows)
    BY DEF Exact, Term, Rows, Line
  <1>2. rows \in Seq(Line) /\ Len(rows) = Len(t.rows)
    BY <1>1
  <1>3. SetRow(t, row) = [t EXCEPT !.rows = rows]
    BY DEF SetRow
  <1> HIDE DEF rows
  <1> QED BY <1>2, <1>3 DEF Exact, Term, Rows, Line

LEMMA RowLine == ASSUME NEW t, Exact(t) PROVE Row(t) \in Line
  BY DEF Exact, Row, Term, Rows, Line

(* Moving the cursor.                                                      *)
LEMMA CursorExact ==
  ASSUME NEW t, Exact(t), NEW r \in Nat, r < t.height, NEW c \in Nat
  PROVE  /\ Exact([t EXCEPT !.cur_col = c])
         /\ Exact([t EXCEPT !.cur_row = r])
         /\ Exact([t EXCEPT !.cur_col = c, !.cur_row = r])
  BY DEF Exact, Term

-----------------------------------------------------------------------------
(* The operations of ground and esc.                                       *)

LEMMA LineFeedExact ==
  ASSUME NEW t, Exact(t)
  PROVE  Exact(line_feed(t)) /\ line_feed(t).cur_col = t.cur_col
  <1> USE DEF Exact, Term
  <1>1. CASE t.cur_row + 1 >= t.height
    <2>1. Head(t.rows) \in Line /\ Append(Tail(t.rows), <<>>) \in Rows
          /\ Len(Append(Tail(t.rows), <<>>)) = t.height
      BY DEF Rows, Line
    <2>2. Append(t.scrollback, Head(t.rows)) \in Rows
      BY <2>1 DEF Rows, Line
    <2>3. PICK s : /\ s = cap_total(Append(t.scrollback, Head(t.rows)))
                   /\ s \in Rows /\ Len(s) <= MaxRows
      BY <2>2, CapType
    <2>4. PICK rows : /\ rows = Append(Tail(t.rows), <<>>)
                      /\ rows \in Rows /\ Len(rows) = t.height
      BY <2>1
    <2>5. line_feed(t) = [t EXCEPT !.scrollback = s, !.rows = rows,
                                   !.cur_row = t.height - 1]
      BY <1>1, <2>3, <2>4 DEF line_feed
    <2>6. t.height - 1 \in Nat /\ t.height - 1 < t.height
      OBVIOUS
    <2>7. PICK new : new = [t EXCEPT !.scrollback = s, !.rows = rows,
                                     !.cur_row = t.height - 1]
      OBVIOUS
    <2>8. new \in Term
      BY <2>3, <2>4, <2>6, <2>7
    <2>9. /\ new.rows = rows /\ new.scrollback = s /\ new.cols = t.cols
          /\ new.cur_row = t.height - 1 /\ new.height = t.height
          /\ new.cur_col = t.cur_col
      BY <2>7
    <2> QED BY <2>3, <2>4, <2>5, <2>6, <2>7, <2>8, <2>9
  <1>2. CASE ~(t.cur_row + 1 >= t.height)
    BY <1>2 DEF line_feed
  <1> QED BY <1>1, <1>2

LEMMA ReverseIndexExact ==
  ASSUME NEW t, Exact(t)
  PROVE  Exact(reverse_index(t))
  <1> USE DEF Exact, Term
  <1>1. CASE t.cur_row = 0
    <2>1. SubSeq(t.rows, 1, Len(t.rows) - 1) \in Rows
          /\ Len(SubSeq(t.rows, 1, Len(t.rows) - 1)) = t.height - 1
      BY DEF Rows
    <2>2. <<(<<>>)>> \in Rows /\ Len(<<(<<>>)>>) = 1
      BY DEF Rows
    <2>3. <<(<<>>)>> \o SubSeq(t.rows, 1, Len(t.rows) - 1) \in Rows
          /\ Len(<<(<<>>)>> \o SubSeq(t.rows, 1, Len(t.rows) - 1)) = t.height
      BY <2>1, <2>2 DEF Rows
    <2> QED BY <1>1, <2>3 DEF reverse_index
  <1>2. CASE t.cur_row # 0
    BY <1>2 DEF reverse_index
  <1> QED BY <1>1, <1>2

LEMMA PutExact ==
  ASSUME NEW t, Exact(t), NEW c \in Glyphs \cup {Blank}
  PROVE  Exact(put(t, c))
  <1> DEFINE home == [t EXCEPT !.cur_col = 0]
  <1>1. Exact(home)
    BY CursorExact DEF Exact, Term
  <1>2. PICK at : /\ at = IF t.cur_col >= t.cols THEN line_feed(home) ELSE t
                  /\ Exact(at)
    BY <1>1, LineFeedExact
  <1>3. at.cur_col \in Nat
    BY <1>2 DEF Exact, Term
  <1>4. Fill(Row(at), at.cur_col, at.cur_col + 1, c) \in Line
    <2>1. Row(at) \in Line
      BY <1>2, RowLine
    <2> QED BY <1>3, <2>1, FillType
  <1>5. PICK new : /\ new = SetRow(at, Fill(Row(at), at.cur_col,
                                             at.cur_col + 1, c))
                   /\ Exact(new) /\ new.cur_col = at.cur_col
    BY <1>2, <1>4, SetRowExact
  <1>6. put(t, c) = [new EXCEPT !.cur_col = @ + 1]
    BY <1>2, <1>5 DEF put
  <1> QED BY <1>3, <1>5, <1>6 DEF Exact, Term

LEMMA TabExact == ASSUME NEW t, Exact(t) PROVE Exact(tab(t))
  <1>1. NextStop(t) \in Nat
    <2>1. t.cur_col \in Nat /\ TabStop \in Nat \ {0}
      BY SizesAssumption DEF Exact, Term
    <2>2. PICK q \in Nat : q = t.cur_col \div TabStop
      BY <2>1
    <2>3. \A m, n \in Nat : m * n \in Nat
      OBVIOUS
    <2>4. q + 1 \in Nat
      BY <2>2
    <2>5. (q + 1) * TabStop \in Nat
      BY <2>1, <2>3, <2>4
    <2> QED BY <2>2, <2>5 DEF NextStop
  <1>2. t.cur_col \in Nat
    BY DEF Exact, Term
  <1>3. Fill(Row(t), t.cur_col, NextStop(t), Blank) \in Line
    BY <1>1, <1>2, RowLine, FillType
  <1>4. PICK new : /\ new = SetRow(t, Fill(Row(t), t.cur_col, NextStop(t), Blank))
                   /\ Exact(new)
    BY <1>3, SetRowExact
  <1>5. tab(t) = [new EXCEPT !.cur_col = NextStop(t)]
    BY <1>4 DEF tab
  <1> QED BY <1>1, <1>4, <1>5 DEF Exact, Term

LEMMA ResetExact == ASSUME NEW t, Exact(t) PROVE Exact(reset(t))
  <1>1. PICK rows : /\ rows = EmptyRows(t.height) /\ rows \in Rows
                    /\ Len(rows) = t.height
    BY EmptyRowsType DEF Exact, Term
  <1>2. <<>> \in Rows /\ Len(<<>>) = 0 /\ 0 <= MaxRows
    BY SizesAssumption DEF Rows
  <1> QED BY <1>1, <1>2 DEF reset, Exact, Term

-----------------------------------------------------------------------------
(* The control sequences.                                                  *)

(* A parameter that is used is a number.                                   *)
LEMMA FieldsAreNumbers ==
  ASSUME NEW p \in Seq(Numbers \cup {Separator, Question}), NEW d \in Nat
  PROVE  FirstField(p, d) \in Nat /\ SecondField(p, d) \in Nat
  <1>1. ASSUME NEW i \in Fields(p) PROVE p[i] \in Nat
    <2>1. i \in 1..Len(p) /\ p[i] >= 0
      BY SizesAssumption DEF Fields
    <2>2. p[i] \in Numbers \cup {Separator, Question}
      BY <2>1
    <2>3. p[i] \in Numbers
      BY <2>1, <2>2 DEF Separator, Question
    <2> QED BY <2>3, SizesAssumption
  <1>2. FirstField(p, d) \in Nat
    <2> DEFINE first == {i \in Fields(p) : \A j \in Fields(p) : i <= j}
    <2>1. first # {} => (CHOOSE i \in first : TRUE) \in Fields(p)
      OBVIOUS
    <2> QED BY <1>1, <2>1 DEF FirstField
  <1>3. SecondField(p, d) \in Nat
    <2> DEFINE second == {i \in Fields(p) : \E j \in Fields(p) :
                            j < i /\ \A k \in Fields(p) : k < i => k = j}
    <2>1. second # {} => (CHOOSE i \in second : TRUE) \in Fields(p)
      OBVIOUS
    <2> QED BY <1>1, <2>1 DEF SecondField
  <1> QED BY <1>2, <1>3

LEMMA WrapType ==
  ASSUME NEW x \in Int
  PROVE  Wrap(x) \in Int
  <1>1. IntMax \in Int
    BY SizesAssumption
  <1> QED BY <1>1 DEF Wrap

LEMMA MoveCursorExact ==
  ASSUME NEW t, Exact(t), NEW dcol \in Int, NEW drow \in Int
  PROVE  Exact(move_cursor(t, dcol, drow))
  <1> DEFINE col == AtMost(AtLeast(Wrap(t.cur_col + dcol), 0), t.cols - 1)
             row == AtMost(AtLeast(Wrap(t.cur_row + drow), 0), t.height - 1)
  <1>1. col \in Nat /\ row \in Nat /\ row < t.height
    <2>1. t.cur_col + dcol \in Int /\ t.cur_row + drow \in Int
      BY DEF Exact, Term
    <2>2. Wrap(t.cur_col + dcol) \in Int /\ Wrap(t.cur_row + drow) \in Int
      BY <2>1, WrapType
    <2>3. \A x \in Int, n \in Nat \ {0} :
             LET y == AtMost(AtLeast(x, 0), n - 1) IN y \in Nat /\ y < n
      BY DEF AtMost, AtLeast
    <2>4. t.cols \in Nat \ {0} /\ t.height \in Nat \ {0}
      BY DEF Exact, Term
    <2> QED BY <2>2, <2>3, <2>4
  <1>2. move_cursor(t, dcol, drow) = [t EXCEPT !.cur_col = col, !.cur_row = row]
    BY DEF move_cursor
  <1> HIDE DEF col, row
  <1>3. Exact([t EXCEPT !.cur_col = col, !.cur_row = row])
    BY <1>1, CursorExact
  <1> QED BY <1>2, <1>3

LEMMA SetColExact ==
  ASSUME NEW t, Exact(t), NEW n \in Nat
  PROVE  Exact(set_col(t, n))
  <1>1. AtMost(AtLeast(n - 1, 0), t.cols - 1) \in Nat
    BY DEF Exact, Term, AtMost, AtLeast
  <1> QED BY <1>1 DEF set_col, Exact, Term

LEMMA SetRowNumberExact ==
  ASSUME NEW t, Exact(t), NEW n \in Nat
  PROVE  Exact(set_row(t, n))
  <1>1. AtMost(AtLeast(n - 1, 0), t.height - 1) \in Nat
        /\ AtMost(AtLeast(n - 1, 0), t.height - 1) < t.height
    BY DEF Exact, Term, AtMost, AtLeast
  <1> QED BY <1>1 DEF set_row, Exact, Term

LEMMA MoveExact ==
  ASSUME NEW t, Exact(t), NEW c \in Moves,
         NEW p \in Seq(Numbers \cup {Separator, Question})
  PROVE  Exact(Move(t, c, p))
  <1>1. PICK n \in Nat : n = FirstField(p, 1)
    BY FieldsAreNumbers
  <1>2. PICK k \in Nat : k = SecondField(p, 1)
    BY FieldsAreNumbers
  <1>3. PICK home : home = [t EXCEPT !.cur_col = 0] /\ Exact(home)
    <2>1. t.cur_row \in Nat /\ t.cur_row < t.height /\ 0 \in Nat
      BY DEF Exact, Term
    <2> QED BY <2>1, CursorExact
  <1>4. PICK r : r = set_row(t, n) /\ Exact(r)
    BY SetRowNumberExact
  <1>5. /\ Exact(move_cursor(t, 0, -n)) /\ Exact(move_cursor(t, 0, n))
        /\ Exact(move_cursor(t, n, 0)) /\ Exact(move_cursor(t, -n, 0))
        /\ Exact(move_cursor(home, 0, n)) /\ Exact(move_cursor(home, 0, -n))
        /\ Exact(set_col(t, n)) /\ Exact(set_col(r, k))
    <2>1. 0 \in Int /\ n \in Int /\ -n \in Int
      OBVIOUS
    <2>2. Exact(move_cursor(t, 0, -n)) /\ Exact(move_cursor(t, 0, n))
      BY <2>1, MoveCursorExact
    <2>3. Exact(move_cursor(t, n, 0)) /\ Exact(move_cursor(t, -n, 0))
      BY <2>1, MoveCursorExact
    <2>4. Exact(move_cursor(home, 0, n)) /\ Exact(move_cursor(home, 0, -n))
      BY <2>1, <1>3, MoveCursorExact
    <2>5. Exact(set_col(t, n)) /\ Exact(set_col(r, k))
      BY <1>4, SetColExact
    <2> QED BY <2>2, <2>3, <2>4, <2>5
  <1> QED BY <1>1, <1>2, <1>3, <1>4, <1>5 DEF Move, Moves

LEMMA EraseLineExact ==
  ASSUME NEW t, Exact(t), NEW mode \in Nat
  PROVE  Exact(erase_line(t, mode))
  <1>1. Row(t) \in Line /\ Len(Row(t)) \in Nat /\ t.cur_col \in Nat
    BY RowLine DEF Exact, Term, Line
  <1>2. AtMost(t.cur_col + 1, Len(Row(t))) \in Int
    BY <1>1 DEF AtMost
  <1>3. <<>> \in Line
    BY DEF Line
  <1>4. /\ Fill(Row(t), t.cur_col, Len(Row(t)), Blank) \in Line
        /\ Fill(Row(t), 0, AtMost(t.cur_col + 1, Len(Row(t))), Blank) \in Line
    BY <1>1, <1>2, FillType
  <1>5. \A row \in Line : Exact(SetRow(t, row))
    BY SetRowExact
  <1> QED BY <1>3, <1>4, <1>5 DEF erase_line

LEMMA ClearRowsExact ==
  ASSUME NEW t, Exact(t), NEW a \in Int, NEW b \in Int
  PROVE  Exact(ClearRows(t, a, b))
  <1>1. PICK rows : rows = [i \in 1..Len(t.rows) |->
                              IF a < i /\ i <= b THEN <<>> ELSE t.rows[i]]
    OBVIOUS
  <1>2. t.rows \in Seq(Line)
    BY DEF Exact, Term, Rows, Line
  <1>3. rows \in Seq(Line) /\ Len(rows) = Len(t.rows)
    BY <1>1, <1>2 DEF Line
  <1>4. ClearRows(t, a, b) = [t EXCEPT !.rows = rows]
    BY <1>1 DEF ClearRows
  <1> QED BY <1>3, <1>4 DEF Exact, Term, Rows, Line

LEMMA EraseDisplayExact ==
  ASSUME NEW t, Exact(t), NEW mode \in Nat
  PROVE  Exact(erase_display(t, mode))
  <1>1. t.cur_row \in Int /\ t.height \in Int /\ t.cur_row + 1 \in Int
    BY DEF Exact, Term
  <1>2. Exact(ClearRows(erase_line(t, 0), t.cur_row + 1, t.height))
    BY <1>1, EraseLineExact, ClearRowsExact
  <1>3. Exact(erase_line(ClearRows(t, 0, t.cur_row), 1))
    BY <1>1, EraseLineExact, ClearRowsExact
  <1>4. PICK all : all = ClearRows(t, 0, t.height) /\ Exact(all)
    BY <1>1, ClearRowsExact
  <1>5. Exact([all EXCEPT !.cur_row = 0, !.cur_col = 0])
    BY <1>4 DEF Exact, Term
  <1> QED BY <1>2, <1>3, <1>4, <1>5 DEF erase_display

LEMMA DeleteCharsExact ==
  ASSUME NEW t, Exact(t), NEW n \in Nat
  PROVE  Exact(delete_chars(t, n))
  <1>1. Row(t) \in Line /\ Len(Row(t)) \in Nat /\ t.cur_col \in Nat
    BY RowLine DEF Exact, Term, Line
  <1>2. SubSeq(Row(t), 1, AtMost(t.cur_col, Len(Row(t)))) \in Line
    BY <1>1, SubLine DEF AtMost
  <1>3. SubSeq(Row(t), t.cur_col + n + 1, Len(Row(t))) \in Line
    BY <1>1, SubLine
  <1>4. \A a, b \in Line : a \o b \in Line
    BY DEF Line
  <1>5. SubSeq(Row(t), 1, AtMost(t.cur_col, Len(Row(t))))
          \o SubSeq(Row(t), t.cur_col + n + 1, Len(Row(t))) \in Line
    BY <1>2, <1>3, <1>4
  <1> QED BY <1>5, SetRowExact DEF delete_chars

LEMMA InsertCharsExact ==
  ASSUME NEW t, Exact(t), NEW n \in Nat
  PROVE  Exact(insert_chars(t, n))
  <1>1. Row(t) \in Line /\ Len(Row(t)) \in Nat /\ t.cur_col \in Nat
    BY RowLine DEF Exact, Term, Line
  <1>2. SubSeq(Row(t), 1, AtMost(t.cur_col, Len(Row(t)))) \in Line
    BY <1>1, SubLine DEF AtMost
  <1>3. SubSeq(Row(t), t.cur_col + 1, Len(Row(t))) \in Line
    BY <1>1, SubLine
  <1>4. \A a, b \in Line : a \o b \in Line
    BY DEF Line
  <1>5. SubSeq(Row(t), 1, AtMost(t.cur_col, Len(Row(t)))) \o Blanks(n)
          \o SubSeq(Row(t), t.cur_col + 1, Len(Row(t))) \in Line
    BY <1>2, <1>3, <1>4, BlanksType
  <1> QED BY <1>5, SetRowExact DEF insert_chars

(* A part of the rows, and rows put together.                              *)
LEMMA SubRows ==
  ASSUME NEW rows \in Rows, NEW a \in Nat \ {0}, NEW b \in Nat,
         b <= Len(rows), NEW len \in Nat, b + 1 = a + len
  PROVE  SubSeq(rows, a, b) \in Rows /\ Len(SubSeq(rows, a, b)) = len
  BY DEF Rows

LEMMA ConcatRows ==
  ASSUME NEW r \in Rows, NEW s \in Rows, NEW len, Len(r) + Len(s) = len
  PROVE  r \o s \in Rows /\ Len(r \o s) = len
  BY DEF Rows

(* A screen whose rows were replaced by as many others.                    *)
LEMMA NewRowsExact ==
  ASSUME NEW t, Exact(t), NEW rows \in Rows, Len(rows) = t.height
  PROVE  Exact([t EXCEPT !.rows = rows])
  BY DEF Exact, Term

LEMMA InsertLinesExact ==
  ASSUME NEW t, Exact(t), NEW n \in Nat
  PROVE  Exact(insert_lines(t, n))
  <1> DEFINE above == SubSeq(t.rows, 1, t.cur_row)
             below == SubSeq(t.rows, t.cur_row + 1, Len(t.rows))
             all == above \o EmptyRows(n) \o below
  <1>1. /\ t.rows \in Rows /\ Len(t.rows) = t.height /\ t.cur_row \in Nat
        /\ t.cur_row < t.height /\ t.height \in Nat
    BY DEF Exact, Term
  <1>2. above \in Rows /\ Len(above) = t.cur_row
    <2>1. t.cur_row <= Len(t.rows) /\ t.cur_row + 1 = 1 + t.cur_row
      BY <1>1
    <2> QED BY <1>1, <2>1, SubRows
  <1>3. below \in Rows /\ Len(below) = t.height - t.cur_row
    <2>1. /\ t.cur_row + 1 \in Nat \ {0} /\ t.height - t.cur_row \in Nat
          /\ Len(t.rows) + 1 = t.cur_row + 1 + (t.height - t.cur_row)
          /\ Len(t.rows) \in Nat /\ Len(t.rows) <= Len(t.rows)
      BY <1>1
    <2> QED BY <1>1, <2>1, SubRows, SMTT(30)
  <1>4. insert_lines(t, n) = [t EXCEPT !.rows = SubSeq(all, 1, t.height)]
    BY DEF insert_lines
  <1> HIDE DEF above, below
  <1>5. all \in Rows /\ Len(all) = t.height + n
    <2>1. EmptyRows(n) \in Rows /\ Len(EmptyRows(n)) = n
      BY EmptyRowsType
    <2>2. /\ above \o EmptyRows(n) \in Rows
          /\ Len(above \o EmptyRows(n)) = t.cur_row + n
      BY <1>2, <2>1, ConcatRows
    <2>3. Len(above \o EmptyRows(n)) + Len(below) = t.height + n
      BY <1>1, <1>3, <2>2
    <2> QED BY <1>3, <2>2, <2>3, ConcatRows
  <1> HIDE DEF all
  <1>6. SubSeq(all, 1, t.height) \in Rows
        /\ Len(SubSeq(all, 1, t.height)) = t.height
    <2>1. t.height <= Len(all) /\ t.height + 1 = 1 + t.height
      BY <1>1, <1>5
    <2> QED BY <1>1, <1>5, <2>1, SubRows
  <1> QED BY <1>4, <1>6, NewRowsExact

LEMMA DeleteLinesExact ==
  ASSUME NEW t, Exact(t), NEW n \in Nat
  PROVE  Exact(delete_lines(t, n))
  <1>1. /\ t.rows \in Rows /\ Len(t.rows) = t.height /\ t.cur_row \in Nat
        /\ t.cur_row < t.height /\ t.height \in Nat
    BY DEF Exact, Term
  <1>2. PICK k \in Nat : /\ k = AtMost(n, Len(t.rows) - t.cur_row)
                         /\ k <= t.height - t.cur_row
    BY <1>1 DEF AtMost
  <1> DEFINE above == SubSeq(t.rows, 1, t.cur_row)
             below == SubSeq(t.rows, t.cur_row + k + 1, Len(t.rows))
             all == above \o below \o EmptyRows(k)
  <1>3. above \in Rows /\ Len(above) = t.cur_row
    <2>1. t.cur_row <= Len(t.rows) /\ t.cur_row + 1 = 1 + t.cur_row
      BY <1>1
    <2> QED BY <1>1, <2>1, SubRows
  <1>4. below \in Rows /\ Len(below) = t.height - t.cur_row - k
    <2>1. PICK a \in Nat \ {0}, len \in Nat :
            /\ a = t.cur_row + k + 1 /\ len = t.height - t.cur_row - k
            /\ t.height + 1 = a + len
      <3>1. t.cur_row + k + 1 \in Nat \ {0} /\ t.height - t.cur_row - k \in Nat
        BY <1>1, <1>2
      <3>2. t.height + 1 = t.cur_row + k + 1 + (t.height - t.cur_row - k)
        BY <1>1, <1>2
      <3> QED BY <3>1, <3>2, Zenon
    <2>2. SubSeq(t.rows, a, t.height) \in Rows
          /\ Len(SubSeq(t.rows, a, t.height)) = len
      <3>1. t.rows \in Rows /\ t.height \in Nat /\ t.height <= Len(t.rows)
        BY <1>1
      <3> HIDE DEF above, below, all
      <3> QED BY <2>1, <3>1, SubRows
    <2>3. below = SubSeq(t.rows, a, t.height)
      BY <1>1, <2>1, Zenon
    <2> QED BY <2>1, <2>2, <2>3, Zenon
  <1>5. delete_lines(t, n) = [t EXCEPT !.rows = all]
    BY <1>2 DEF delete_lines
  <1> HIDE DEF above, below
  <1>6. all \in Rows /\ Len(all) = t.height
    <2>1. EmptyRows(k) \in Rows /\ Len(EmptyRows(k)) = k
      BY EmptyRowsType
    <2>2. Len(above) + Len(below) = t.height - k
      BY <1>1, <1>2, <1>3, <1>4
    <2>3. above \o below \in Rows /\ Len(above \o below) = t.height - k
      BY <1>3, <1>4, <2>2, ConcatRows
    <2>4. Len(above \o below) + Len(EmptyRows(k)) = t.height
      BY <1>1, <2>1, <2>3
    <2> QED BY <2>1, <2>3, <2>4, ConcatRows
  <1> HIDE DEF all
  <1> QED BY <1>5, <1>6, NewRowsExact

(* A resize of an exact screen.                                            *)
LEMMA ResizedExact ==
  ASSUME NEW t, Exact(t), NEW cols \in Nat \ {0}, NEW height \in Nat \ {0}
  PROVE  Exact(Resized(t, cols, height))
  <1>1. /\ t.rows \in Rows /\ Len(t.rows) = t.height /\ t.cur_row \in Nat
        /\ t.cur_row < t.height /\ t.height \in Nat /\ t.scrollback \in Rows
    BY DEF Exact, Term
  <1>2. PICK cut \in Nat : /\ cut = AtLeast(Len(t.rows) - height, 0)
                           /\ cut <= t.height /\ t.height - cut <= height
    BY <1>1 DEF AtLeast
  <1> DEFINE kept == SubSeq(t.rows, cut + 1, Len(t.rows))
             gone == SubSeq(t.rows, 1, cut)
             rows == kept \o EmptyRows(height - (Len(t.rows) - cut))
             scrollback == cap_total(t.scrollback \o gone)
             cur_row == AtMost(AtLeast(t.cur_row - cut, 0), height - 1)
  <1>3. kept \in Rows /\ Len(kept) = t.height - cut
    <2>1. /\ cut + 1 \in Nat \ {0} /\ t.height - cut \in Nat
          /\ Len(t.rows) + 1 = cut + 1 + (t.height - cut)
          /\ Len(t.rows) \in Nat /\ Len(t.rows) <= Len(t.rows)
      BY <1>1, <1>2
    <2> QED BY <1>1, <2>1, SubRows
  <1>4. gone \in Rows
    <2>1. cut <= Len(t.rows) /\ cut + 1 = 1 + cut
      BY <1>1, <1>2
    <2> QED BY <1>1, <2>1, SubRows
  <1>5. cur_row \in Nat /\ cur_row < height
    BY <1>1, <1>2 DEF AtMost, AtLeast
  <1>6. Resized(t, cols, height) =
          [t EXCEPT !.cols = cols, !.height = height, !.rows = rows,
                    !.scrollback = scrollback, !.cur_row = cur_row]
    BY <1>2 DEF Resized
  <1> HIDE DEF kept, gone, cur_row
  <1>7. rows \in Rows /\ Len(rows) = height
    <2>1. PICK m \in Nat : m = height - (Len(t.rows) - cut)
      BY <1>1, <1>2
    <2>2. EmptyRows(m) \in Rows /\ Len(EmptyRows(m)) = m
      BY EmptyRowsType
    <2>3. Len(kept) + Len(EmptyRows(m)) = height
      BY <1>1, <1>3, <2>1, <2>2
    <2> QED BY <1>3, <2>1, <2>2, <2>3, ConcatRows
  <1>8. scrollback \in Rows /\ Len(scrollback) <= MaxRows
    <2>1. t.scrollback \o gone \in Rows
      BY <1>1, <1>4, ConcatRows
    <2> QED BY <2>1, CapType
  <1> HIDE DEF rows, scrollback
  <1>9. PICK new : new = [t EXCEPT !.cols = cols, !.height = height, !.rows = rows,
                              !.scrollback = scrollback, !.cur_row = cur_row]
    OBVIOUS
  <1>10. /\ new \in Term /\ new.rows = rows /\ new.scrollback = scrollback
         /\ new.cols = cols /\ new.height = height /\ new.cur_row = cur_row
    BY <1>5, <1>7, <1>8, <1>9 DEF Exact, Term
  <1> QED BY <1>5, <1>6, <1>7, <1>8, <1>9, <1>10 DEF Exact

-----------------------------------------------------------------------------
(* The terminal the next step leaves is exact.                             *)

LEMMA NewTermExact ==
  ASSUME NEW cols \in Nat \ {0}, NEW rows \in Nat \ {0}
  PROVE  Exact(NewTerm(cols, rows))
  <1>1. EmptyRows(rows) \in Rows /\ Len(EmptyRows(rows)) = rows
    BY EmptyRowsType
  <1>2. <<>> \in Rows /\ Len(<<>>) = 0 /\ 0 <= MaxRows
    BY SizesAssumption DEF Rows
  <1> QED BY <1>1, <1>2 DEF NewTerm, Exact, Term

LEMMA GroundExact ==
  ASSUME TermInv, Ground
  PROVE  Exact(term')
  <1> USE DEF TermInv, Edit, NoEdit, Fails
  <1>1. CASE UNCHANGED term
    BY <1>1
  <1>2. CASE Edit([term EXCEPT !.cur_col = AtLeast(@ - 1, 0)])
    <2>1. AtLeast(term.cur_col - 1, 0) \in Nat
      BY DEF Exact, Term, AtLeast
    <2> QED BY <1>2, <2>1, CursorExact DEF Exact, Term
  <1>3. CASE Edit([term EXCEPT !.cur_col = 0])
    BY <1>3, CursorExact DEF Exact, Term
  <1>4. CASE Edit(line_feed(term))
    BY <1>4, LineFeedExact
  <1>5. CASE Edit(tab(term))
    BY <1>5, TabExact
  <1>6. CASE \E c \in Glyphs \cup {Blank} : Edit(put(term, c))
    BY <1>6, PutExact
  <1> QED BY <1>1, <1>2, <1>3, <1>4, <1>5, <1>6 DEF Ground

LEMMA EscExact ==
  ASSUME TermInv, Esc
  PROVE  Exact(term')
  <1> USE DEF TermInv, Edit, NoEdit
  <1>1. CASE UNCHANGED term
    BY <1>1
  <1>2. CASE Edit(line_feed(term))
    BY <1>2, LineFeedExact
  <1>3. CASE Edit(line_feed([term EXCEPT !.cur_col = 0]))
    <2>1. Exact([term EXCEPT !.cur_col = 0])
      BY CursorExact DEF Exact, Term
    <2> QED BY <1>3, <2>1, LineFeedExact
  <1>4. CASE Edit(reverse_index(term))
    BY <1>4, ReverseIndexExact
  <1>5. CASE Edit(reset(term))
    BY <1>5, ResetExact
  <1> QED BY <1>1, <1>2, <1>3, <1>4, <1>5 DEF Esc

LEMMA CsiExact ==
  ASSUME TermInv,
         CsiMove \/ CsiErase \/ CsiDelete \/ CsiInsert \/ CsiLines \/ CsiIgnored
  PROVE  Exact(term')
  <1> USE DEF TermInv, Edit, NoEdit, Fails
  <1>1. params \in Seq(Numbers \cup {Separator, Question})
    BY DEF TypeOK
  <1>2. PICK n \in Nat : n = FirstField(params, 1)
    BY <1>1, FieldsAreNumbers
  <1>3. PICK mode \in Nat : mode = EraseMode(params)
    <2>1. PICK m \in Nat : m = FirstField(params, 0)
      BY <1>1, FieldsAreNumbers
    <2>2. m % 256 \in Nat
      OBVIOUS
    <2> QED BY <2>1, <2>2 DEF EraseMode
  <1>4. CASE UNCHANGED term
    BY <1>4
  <1>5. CASE CsiMove
    BY <1>1, <1>4, <1>5, MoveExact DEF CsiMove
  <1>6. CASE CsiErase
    <2>1. Exact(erase_line(term, mode)) /\ Exact(erase_display(term, mode))
      BY EraseLineExact, EraseDisplayExact
    <2> QED BY <1>3, <1>4, <1>6, <2>1 DEF CsiErase
  <1>7. CASE CsiDelete
    BY <1>2, <1>7, DeleteCharsExact DEF CsiDelete
  <1>8. CASE CsiInsert
    <2>1. Exact(insert_chars(term, n))
      BY InsertCharsExact
    <2> QED BY <1>2, <1>4, <1>8, <2>1 DEF CsiInsert
  <1>9. CASE CsiLines
    <2>1. Exact(insert_lines(term, n)) /\ Exact(delete_lines(term, n))
      BY InsertLinesExact, DeleteLinesExact
    <2> QED BY <1>2, <1>9, <2>1 DEF CsiLines
  <1>10. CASE CsiIgnored
    BY <1>4, <1>10 DEF CsiIgnored
  <1> QED BY <1>5, <1>6, <1>7, <1>8, <1>9, <1>10

-----------------------------------------------------------------------------
(* The parser's variables keep their types.                                *)
LEMMA ParserType ==
  ASSUME TypeOK, Next
  PROVE  /\ state' \in {"Ground", "Esc", "Csi", "Osc", "Charset"}
         /\ params' \in Seq(Numbers \cup {Separator, Question})
         /\ outcome' \in {"ok", "panic", "loop"}
  <1> USE DEF TypeOK, To, Edit, NoEdit, Fails
  <1>1. <<>> \in Seq(Numbers \cup {Separator, Question})
    OBVIOUS
  <1>2. CASE Ground
    BY <1>2 DEF Ground
  <1>3. CASE Esc
    BY <1>1, <1>3 DEF Esc
  <1>4. CASE CsiParam
    BY <1>4 DEF CsiParam
  <1>5. CASE CsiMove \/ CsiErase \/ CsiDelete \/ CsiInsert \/ CsiLines \/ CsiIgnored
    <2>1. EndCsi
      BY <1>5 DEF CsiMove, CsiErase, CsiDelete, CsiInsert, CsiLines, CsiIgnored
    <2>2. outcome' \in {"ok", "panic", "loop"}
      BY <1>5 DEF CsiMove, CsiErase, CsiDelete, CsiInsert, CsiLines, CsiIgnored
    <2> QED BY <1>1, <2>1, <2>2 DEF EndCsi
  <1>6. CASE Osc \/ Charset
    BY <1>6 DEF Osc, Charset
  <1>7. CASE resize \/ Clear
    BY <1>7 DEF resize, Clear
  <1> QED BY <1>2, <1>3, <1>4, <1>5, <1>6, <1>7 DEF Next, feed_char

LEMMA TermInvStep ==
  ASSUME TermInv, [Next]_vars
  PROVE  TermInv'
  <1>1. CASE Next
    <2>1. Exact(term')
      <3>1. CASE Ground
        BY <3>1, GroundExact
      <3>2. CASE Esc
        BY <3>2, EscExact
      <3>3. CASE CsiParam \/ Osc \/ Charset
        BY <3>3 DEF CsiParam, Osc, Charset, NoEdit, TermInv
      <3>4. CASE CsiMove \/ CsiErase \/ CsiDelete \/ CsiInsert \/ CsiLines
                 \/ CsiIgnored
        BY <3>4, CsiExact
      <3>5. CASE resize
        BY <3>5, ResizedExact, SizesAssumption DEF resize, Edit, TermInv
      <3>6. CASE Clear
        BY <3>6, ResetExact DEF Clear, Edit, TermInv
      <3> QED BY <1>1, <3>1, <3>2, <3>3, <3>4, <3>5, <3>6 DEF Next, feed_char
    <2>2. term' \in Term
      BY <2>1 DEF Exact
    <2> QED BY <1>1, <2>1, <2>2, ParserType DEF TermInv, TypeOK
  <1>2. CASE UNCHANGED vars
    BY <1>2 DEF vars, TermInv, TypeOK
  <1> QED BY <1>1, <1>2

LEMMA TermInvInit == Init => TermInv
  <1> SUFFICES ASSUME Init PROVE TermInv
    OBVIOUS
  <1>1. Exact(term)
    BY NewTermExact, SizesAssumption DEF Init
  <1>2. <<>> \in Seq(Numbers \cup {Separator, Question})
    OBVIOUS
  <1> QED BY <1>1, <1>2 DEF Init, TermInv, TypeOK, Exact

(* Whatever the remote side sends, the parser's state and the screen keep  *)
(* their types.                                                            *)
THEOREM TerminalType == Spec => []TypeOK
  <1>1. TermInv => TypeOK
    BY DEF TermInv
  <1> QED BY <1>1, TermInvInit, TermInvStep, PTL DEF Spec

(* Whatever the remote side sends, however it is cut, and whenever the     *)
(* window is resized or the screen cleared, the screen has exactly its     *)
(* height, the cursor is on it and the scrollback is capped.               *)
THEOREM ScreenStaysExact == Spec => []ScreenIsExact
  <1>1. TermInv => ScreenIsExact
    BY DEF TermInv, Exact, ScreenIsExact
  <1> QED BY <1>1, TermInvInit, TermInvStep, PTL DEF Spec

-----------------------------------------------------------------------------
(* What scrolls off.  An operation other than a resize leaves the          *)
(* scrollback alone, empties it, or adds the top row.                      *)

Keeps(t, new) == new.height = t.height /\ new.scrollback = t.scrollback

Scrolls(t, new) ==
  /\ new.height = t.height
  /\ new.scrollback \in
       {t.scrollback, <<>>, cap_total(Append(t.scrollback, Head(t.rows)))}

LEMMA SetRowKeeps ==
  ASSUME NEW t \in Term, NEW row
  PROVE  Keeps(t, SetRow(t, row))
  BY DEF SetRow, Keeps, Term

LEMMA LineFeedScrolls ==
  ASSUME NEW t \in Term
  PROVE  Scrolls(t, line_feed(t)) /\ Scrolls(t, line_feed([t EXCEPT !.cur_col = 0]))
  <1>1. ASSUME NEW at \in Term, at.height = t.height, at.rows = t.rows,
               at.scrollback = t.scrollback
        PROVE  Scrolls(t, line_feed(at))
    <2>1. CASE at.cur_row + 1 >= at.height
      <3>1. PICK s, rows, r : line_feed(at) =
              [at EXCEPT !.scrollback = s, !.rows = rows, !.cur_row = r]
              /\ s = cap_total(Append(at.scrollback, Head(at.rows)))
        BY <2>1 DEF line_feed
      <3>2. line_feed(at).scrollback = s /\ line_feed(at).height = at.height
        BY <3>1 DEF Term
      <3> QED BY <1>1, <3>1, <3>2 DEF Scrolls
    <2>2. CASE ~(at.cur_row + 1 >= at.height)
      <3>1. PICK r : line_feed(at) = [at EXCEPT !.cur_row = r]
        BY <2>2 DEF line_feed
      <3>2. line_feed(at).scrollback = at.scrollback /\ line_feed(at).height = at.height
        BY <3>1 DEF Term
      <3> QED BY <1>1, <3>2 DEF Scrolls
    <2> QED BY <2>1, <2>2
  <1>2. PICK home : home = [t EXCEPT !.cur_col = 0]
    OBVIOUS
  <1>3. /\ home \in Term /\ home.height = t.height /\ home.rows = t.rows
        /\ home.scrollback = t.scrollback
    BY <1>2 DEF Term
  <1>4. Scrolls(t, line_feed(home))
    BY <1>1, <1>3
  <1> QED BY <1>1, <1>2, <1>4

LEMMA PutScrolls ==
  ASSUME NEW t \in Term, Exact(t), NEW c \in Glyphs \cup {Blank}
  PROVE  Scrolls(t, put(t, c))
  <1>1. PICK at : at = IF t.cur_col >= t.cols
                       THEN line_feed([t EXCEPT !.cur_col = 0]) ELSE t
    OBVIOUS
  <1>2. Scrolls(t, at)
    BY <1>1, LineFeedScrolls DEF Scrolls
  <1>3. at \in Term
    <2>1. Exact([t EXCEPT !.cur_col = 0])
      BY CursorExact DEF Exact, Term
    <2>2. Exact(line_feed([t EXCEPT !.cur_col = 0]))
      BY <2>1, LineFeedExact
    <2> QED BY <1>1, <2>2 DEF Exact
  <1>4. PICK new : new = SetRow(at, Fill(Row(at), at.cur_col, at.cur_col + 1, c))
    OBVIOUS
  <1>5. Keeps(at, new)
    BY <1>3, <1>4, SetRowKeeps
  <1>6. at.cur_col \in Nat /\ Row(at) = Row(at)
    BY <1>3 DEF Term
  <1>7. new \in [rows: {new.rows}, cur_row: {new.cur_row}, cur_col: {new.cur_col},
                 cols: {new.cols}, height: {new.height}, scrollback: {new.scrollback}]
    BY <1>3, <1>4 DEF SetRow, Term
  <1>8. put(t, c) = [new EXCEPT !.cur_col = @ + 1]
    BY <1>1, <1>4 DEF put
  <1>9. Keeps(new, put(t, c))
    BY <1>7, <1>8 DEF Keeps
  <1> QED BY <1>2, <1>5, <1>9 DEF Keeps, Scrolls

LEMMA TabKeeps ==
  ASSUME NEW t \in Term
  PROVE  Keeps(t, tab(t))
  <1>1. PICK row, n : tab(t) = [SetRow(t, row) EXCEPT !.cur_col = n]
    BY DEF tab
  <1> QED BY <1>1 DEF SetRow, Keeps, Term

LEMMA EraseLineKeeps ==
  ASSUME NEW t \in Term, NEW mode
  PROVE  Keeps(t, erase_line(t, mode))
  <1>1. Keeps(t, t)
    BY DEF Keeps
  <1>2. CASE mode = 0
    BY <1>2, SetRowKeeps DEF erase_line
  <1>3. CASE mode = 1
    BY <1>3, SetRowKeeps DEF erase_line
  <1>4. CASE mode = 2
    BY <1>4, SetRowKeeps DEF erase_line
  <1>5. CASE mode \notin {0, 1, 2}
    BY <1>1, <1>5 DEF erase_line
  <1> QED BY <1>2, <1>3, <1>4, <1>5

LEMMA ClearRowsKeeps ==
  ASSUME NEW t \in Term, NEW first, NEW last
  PROVE  Keeps(t, ClearRows(t, first, last))
  BY DEF ClearRows, Keeps, Term

LEMMA EraseDisplayKeeps ==
  ASSUME NEW t \in Term, Exact(t), NEW mode \in Nat
  PROVE  Keeps(t, erase_display(t, mode))
  <1>1. t.cur_row \in Nat /\ t.height \in Nat /\ Keeps(t, t)
    BY DEF Term, Keeps
  <1>2. CASE mode = 0
    <2>1. PICK e : e = erase_line(t, 0) /\ Exact(e) /\ Keeps(t, e)
      BY EraseLineExact, EraseLineKeeps
    <2>2. Keeps(e, ClearRows(e, t.cur_row + 1, t.height))
      BY <2>1, ClearRowsKeeps DEF Exact
    <2> QED BY <1>2, <2>1, <2>2 DEF erase_display, Keeps
  <1>3. CASE mode = 1
    <2>1. PICK e : e = ClearRows(t, 0, t.cur_row) /\ Exact(e) /\ Keeps(t, e)
      BY <1>1, ClearRowsExact, ClearRowsKeeps
    <2>2. Keeps(e, erase_line(e, 1))
      BY <2>1, EraseLineKeeps DEF Exact
    <2> QED BY <1>3, <2>1, <2>2 DEF erase_display, Keeps
  <1>4. CASE mode \in {2, 3}
    <2>1. PICK e : e = ClearRows(t, 0, t.height) /\ Exact(e) /\ Keeps(t, e)
      BY <1>1, ClearRowsExact, ClearRowsKeeps
    <2>2. Keeps(e, [e EXCEPT !.cur_row = 0, !.cur_col = 0])
      BY <2>1 DEF Keeps, Exact, Term
    <2>3. erase_display(t, mode) = [e EXCEPT !.cur_row = 0, !.cur_col = 0]
      BY <1>4, <2>1 DEF erase_display
    <2> QED BY <2>1, <2>2, <2>3 DEF Keeps
  <1>5. CASE mode \notin {0, 1, 2, 3}
    BY <1>1, <1>5 DEF erase_display
  <1> QED BY <1>2, <1>3, <1>4, <1>5

LEMMA MoveKeeps ==
  ASSUME NEW t \in Term, NEW c \in Moves, NEW p
  PROVE  Keeps(t, Move(t, c, p))
  <1>1. ASSUME NEW at \in Term, Keeps(t, at), NEW x, NEW y
        PROVE  Keeps(t, move_cursor(at, x, y)) /\ Keeps(t, set_col(at, x))
    BY <1>1 DEF Keeps, move_cursor, set_col, Term
  <1>2. ASSUME NEW x, NEW y
        PROVE  Keeps(t, set_row(t, x)) /\ Keeps(t, set_col(set_row(t, x), y))
    BY DEF Keeps, set_row, set_col, Term
  <1>3. Keeps(t, set_row(t, FirstField(p, 1))) /\ Keeps(t, t)
    BY <1>2 DEF Keeps
  <1>4. PICK home : home = [t EXCEPT !.cur_col = 0]
    OBVIOUS
  <1>5. home \in Term /\ Keeps(t, home)
    BY <1>4 DEF Keeps, Term
  <1>6. PICK n : n = FirstField(p, 1)
    OBVIOUS
  <1>7. /\ Keeps(t, move_cursor(t, 0, -n)) /\ Keeps(t, move_cursor(t, 0, n))
        /\ Keeps(t, move_cursor(t, n, 0)) /\ Keeps(t, move_cursor(t, -n, 0))
        /\ Keeps(t, move_cursor(home, 0, n)) /\ Keeps(t, move_cursor(home, 0, -n))
        /\ Keeps(t, set_col(t, n)) /\ Keeps(t, set_row(t, n))
        /\ Keeps(t, set_col(set_row(t, n), SecondField(p, 1)))
    BY <1>1, <1>2, <1>3, <1>5
  <1> QED BY <1>4, <1>6, <1>7 DEF Move, Moves

LEMMA OthersKeep ==
  ASSUME NEW t \in Term, NEW n
  PROVE  /\ Keeps(t, reverse_index(t)) /\ Keeps(t, delete_chars(t, n))
         /\ Keeps(t, insert_chars(t, n)) /\ Keeps(t, insert_lines(t, n))
         /\ Keeps(t, delete_lines(t, n))
  <1>1. Keeps(t, reverse_index(t))
    BY DEF reverse_index, Keeps, Term
  <1>2. Keeps(t, delete_chars(t, n)) /\ Keeps(t, insert_chars(t, n))
    BY SetRowKeeps DEF delete_chars, insert_chars
  <1>3. Keeps(t, insert_lines(t, n)) /\ Keeps(t, delete_lines(t, n))
    BY DEF insert_lines, delete_lines, Keeps, Term
  <1> QED BY <1>1, <1>2, <1>3

LEMMA ResetScrolls ==
  ASSUME NEW t \in Term
  PROVE  Scrolls(t, reset(t))
  BY DEF reset, Scrolls, Term

(* Every step but a resize scrolls off one row at most.                    *)
LEMMA StepScrolls ==
  ASSUME TermInv, feed_char \/ Clear
  PROVE  Scrolls(term, term')
  <1> USE DEF Edit, NoEdit, Fails
  <1>0. term \in Term /\ Exact(term)
    BY DEF TermInv, Exact
  <1>1. \A new : Keeps(term, new) => Scrolls(term, new)
    BY DEF Keeps, Scrolls
  <1>2. Scrolls(term, term)
    BY DEF Scrolls
  <1>3. CASE Ground
    <2>1. Keeps(term, [term EXCEPT !.cur_col = AtLeast(@ - 1, 0)])
      BY <1>0 DEF Keeps, Term
    <2>2. Keeps(term, [term EXCEPT !.cur_col = 0])
      BY <1>0 DEF Keeps, Term
    <2> QED BY <1>0, <1>1, <1>2, <1>3, <2>1, <2>2, LineFeedScrolls, TabKeeps, PutScrolls
            DEF Ground
  <1>4. CASE Esc
    BY <1>0, <1>1, <1>2, <1>4, LineFeedScrolls, OthersKeep, ResetScrolls DEF Esc
  <1>5. CASE CsiParam \/ CsiIgnored \/ Osc \/ Charset
    BY <1>2, <1>5 DEF CsiParam, CsiIgnored, Osc, Charset
  <1>6. CASE CsiMove
    BY <1>0, <1>1, <1>2, <1>6, MoveKeeps DEF CsiMove
  <1>7. CASE CsiErase
    <2>1. PICK mode \in Nat : mode = EraseMode(params)
      <3>1. PICK m \in Nat : m = FirstField(params, 0)
        BY FieldsAreNumbers DEF TermInv, TypeOK
      <3>2. m % 256 \in Nat
        OBVIOUS
      <3> QED BY <3>1, <3>2 DEF EraseMode
    <2>2. Keeps(term, erase_line(term, mode)) /\ Keeps(term, erase_display(term, mode))
      BY <1>0, EraseLineKeeps, EraseDisplayKeeps
    <2> QED BY <1>1, <1>2, <1>7, <2>1, <2>2 DEF CsiErase
  <1>8. CASE CsiDelete \/ CsiInsert \/ CsiLines
    BY <1>0, <1>1, <1>2, <1>8, OthersKeep DEF CsiDelete, CsiInsert, CsiLines
  <1>9. CASE Clear
    BY <1>0, <1>9, ResetScrolls DEF Clear
  <1> QED BY <1>3, <1>4, <1>5, <1>6, <1>7, <1>8, <1>9 DEF feed_char

(* The cap leaves the newest rows.                                         *)
LEMMA CapNewest ==
  ASSUME NEW s \in Rows
  PROVE  IsNewest(cap_total(s), s)
  <1>1. Len(s) \in Nat /\ MaxRows \in Nat
    BY SizesAssumption DEF Rows
  <1>2. CASE Len(s) > MaxRows
    <2>1. /\ AtLeast(Len(s) - MaxRows, 0) = Len(s) - MaxRows
          /\ AtMost(Len(s), MaxRows) = MaxRows
      BY <1>1, <1>2 DEF AtLeast, AtMost
    <2>2. cap_total(s) = SubSeq(s, Len(s) - MaxRows + 1, Len(s))
      BY <2>1 DEF cap_total
    <2>3. Len(cap_total(s)) = MaxRows
      BY <1>1, <1>2, <2>2 DEF Rows
    <2> QED BY <2>1, <2>2, <2>3 DEF IsNewest
  <1>3. CASE Len(s) <= MaxRows
    <2>1. /\ AtLeast(Len(s) - MaxRows, 0) = 0
          /\ AtMost(Len(s), MaxRows) = Len(s)
      BY <1>1, <1>3 DEF AtLeast, AtMost
    <2>2. cap_total(s) = SubSeq(s, 1, Len(s))
      BY <2>1 DEF cap_total
    <2>3. Len(cap_total(s)) = Len(s) /\ Len(s) - Len(s) + 1 = 1
      BY <1>1, <2>2 DEF Rows
    <2> QED BY <2>1, <2>2, <2>3 DEF IsNewest
  <1> QED BY <1>1, <1>2, <1>3

LEMMA WholeIsNewest ==
  ASSUME NEW s \in Rows, Len(s) <= MaxRows
  PROVE  IsNewest(s, s)
  <1>1. Len(s) \in Nat /\ MaxRows \in Nat
    BY SizesAssumption DEF Rows
  <1>2. AtMost(Len(s), MaxRows) = Len(s) /\ Len(s) - Len(s) + 1 = 1
    BY <1>1 DEF AtMost
  <1>3. SubSeq(s, 1, Len(s)) = s
    BY DEF Rows
  <1> QED BY <1>2, <1>3 DEF IsNewest

LEMMA NothingScrolledOff ==
  ASSUME NEW s \in Rows, NEW rows \in Rows
  PROVE  s \o SubSeq(rows, 1, 0) = s
  <1>1. SubSeq(rows, 1, 0) = <<>>
    BY DEF Rows
  <1>2. s \o <<>> = s
    BY DEF Rows
  <1> QED BY <1>1, <1>2

LEMMA OneScrolledOff ==
  ASSUME NEW s \in Rows, NEW rows \in Rows, Len(rows) > 0
  PROVE  Append(s, Head(rows)) = s \o SubSeq(rows, 1, 1)
  <1>1. Head(rows) = rows[1] /\ rows[1] \in Line
    BY DEF Rows, Line
  <1>2. SubSeq(rows, 1, 1) = <<rows[1]>>
    <2>1. rows \in Seq(Line) /\ 1 \in 1..Len(rows) /\ 1 \in 1..Len(rows) + 1
      BY DEF Rows, Line
    <2>2. /\ SubSeq(rows, 1, 1) \in Seq(Line)
          /\ Len(SubSeq(rows, 1, 1)) = 1
          /\ SubSeq(rows, 1, 1)[1] = rows[1]
      BY <2>1
    <2>3. <<rows[1]>> \in Seq(Line) /\ Len(<<rows[1]>>) = 1
      BY <1>1
    <2>4. \A i \in 1..1 : SubSeq(rows, 1, 1)[i] = <<rows[1]>>[i]
      BY <2>2
    <2> QED BY <2>2, <2>3, <2>4, SeqEqual
  <1>3. Append(s, rows[1]) = s \o <<rows[1]>>
    BY <1>1 DEF Rows, Line
  <1> QED BY <1>1, <1>2, <1>3

(* What a step that is not a resize adds to the scrollback.                *)
LEMMA ScrollsAtMostOne ==
  ASSUME TermInv, Scrolls(term, term')
  PROVE  term'.scrollback = <<>> \/ ScrolledOff(0) \/ ScrolledOff(1)
  <1>1. /\ term.scrollback \in Rows /\ term.rows \in Rows
        /\ Len(term.scrollback) <= MaxRows /\ Len(term.rows) > 0
    BY DEF TermInv, Exact, Term
  <1>2. CASE term'.scrollback = term.scrollback
    <2>1. IsNewest(term.scrollback, term.scrollback)
      BY <1>1, WholeIsNewest
    <2>2. term.scrollback \o SubSeq(term.rows, 1, 0) = term.scrollback
      BY <1>1, NothingScrolledOff
    <2> QED BY <1>2, <2>1, <2>2 DEF ScrolledOff
  <1>3. CASE term'.scrollback
               = cap_total(Append(term.scrollback, Head(term.rows)))
    <2>1. Append(term.scrollback, Head(term.rows)) \in Rows
      BY <1>1 DEF Rows
    <2>2. Append(term.scrollback, Head(term.rows))
            = term.scrollback \o SubSeq(term.rows, 1, 1)
      BY <1>1, OneScrolledOff
    <2>3. IsNewest(term'.scrollback, Append(term.scrollback, Head(term.rows)))
      BY <1>3, <2>1, CapNewest
    <2> QED BY <2>2, <2>3 DEF ScrolledOff
  <1> QED BY <1>2, <1>3 DEF Scrolls

(* What a resize makes of each part of the terminal.                       *)
LEMMA ResizedParts ==
  ASSUME NEW t, Exact(t), NEW cols, NEW rows \in Nat \ {0}, NEW cut \in Nat,
         cut = AtLeast(t.height - rows, 0)
  PROVE  /\ Resized(t, cols, rows).height = rows
         /\ Resized(t, cols, rows).cur_row
              = AtMost(AtLeast(t.cur_row - cut, 0), rows - 1)
         /\ Resized(t, cols, rows).scrollback
              = cap_total(t.scrollback \o SubSeq(t.rows, 1, cut))
  <1>1. t \in Term /\ Len(t.rows) = t.height
    BY DEF Exact
  <1> QED BY <1>1 DEF Resized, Term

LEMMA ResizeScrollsOff ==
  ASSUME TermInv, NEW cols, NEW rows \in Nat \ {0},
         term' = Resized(term, cols, rows)
  PROVE  /\ term'.height = rows
         /\ rows < term.height => ScrolledOff(term.height - rows)
         /\ rows >= term.height => ScrolledOff(0)
  <1>1. /\ Exact(term) /\ term.scrollback \in Rows /\ term.rows \in Rows
        /\ term.height \in Nat /\ Len(term.rows) = term.height
    BY DEF TermInv, Exact, Term
  <1>2. PICK cut \in Nat : cut = AtLeast(term.height - rows, 0)
    BY <1>1 DEF AtLeast
  <1>3. /\ term'.height = rows
        /\ term'.scrollback
             = cap_total(term.scrollback \o SubSeq(term.rows, 1, cut))
    BY <1>1, <1>2, ResizedParts
  <1>4. cut <= term.height
    BY <1>1, <1>2 DEF AtLeast
  <1>5. SubSeq(term.rows, 1, cut) \in Rows
    BY <1>1, <1>2, <1>4 DEF Rows
  <1>6. term.scrollback \o SubSeq(term.rows, 1, cut) \in Rows
    BY <1>1, <1>5 DEF Rows
  <1>7. ScrolledOff(cut)
    BY <1>3, <1>6, CapNewest DEF ScrolledOff
  <1>8. /\ rows < term.height => cut = term.height - rows
        /\ rows >= term.height => cut = 0
    BY <1>1, <1>2 DEF AtLeast
  <1> QED BY <1>3, <1>7, <1>8

(* The scrollback is exactly what scrolled off the screen, newest last:    *)
(* no call loses a row that it takes off the top, takes one from           *)
(* elsewhere, or forgets any but the oldest.                               *)
THEOREM HistoryIsWhatScrolledOff == Spec => HistoryScrollsOff
  <1> DEFINE Step ==
        IF term'.height < term.height
        THEN ScrolledOff(term.height - term'.height)
        ELSE term'.scrollback = <<>> \/ ScrolledOff(0) \/ ScrolledOff(1)
  <1>1. ASSUME TermInv, [Next]_vars
        PROVE  [Step]_vars
    <2>1. term.height \in Nat
      BY <1>1 DEF TermInv, Exact, Term
    <2>2. CASE feed_char \/ Clear
      <3>1. Scrolls(term, term')
        BY <1>1, <2>2, StepScrolls
      <3>2. term'.height = term.height
        BY <3>1 DEF Scrolls
      <3> QED BY <1>1, <2>1, <3>1, <3>2, ScrollsAtMostOne
    <2>3. CASE resize
      <3>1. PICK cols \in Widths, rows \in Heights :
              term' = Resized(term, cols, rows)
        BY <2>3 DEF resize, Edit
      <3>2. rows \in Nat \ {0}
        BY SizesAssumption
      <3>3. /\ term'.height = rows
            /\ rows < term.height => ScrolledOff(term.height - rows)
            /\ rows >= term.height => ScrolledOff(0)
        BY <1>1, <3>1, <3>2, ResizeScrollsOff
      <3> QED BY <2>1, <3>2, <3>3
    <2> QED BY <1>1, <2>2, <2>3 DEF Next
  <1> QED BY <1>1, TermInvInit, TermInvStep, PTL DEF Spec, HistoryScrollsOff

(* The rows from 1 to n of a screen that lost its first cut rows and got   *)
(* others below are the rows from cut + 1 on of the screen before.         *)
LEMMA RowsMoveUp ==
  ASSUME NEW rows \in Rows, NEW below \in Rows, NEW cut \in Nat,
         NEW n \in Nat \ {0}, cut + n <= Len(rows)
  PROVE  SubSeq(SubSeq(rows, cut + 1, Len(rows)) \o below, 1, n)
           = SubSeq(rows, cut + 1, cut + n)
  <1> DEFINE kept == SubSeq(rows, cut + 1, Len(rows))
  <1>1. rows \in Seq(Line) /\ below \in Seq(Line) /\ Len(rows) \in Nat
    BY DEF Rows, Line
  <1>2. kept \in Seq(Line) /\ Len(kept) = Len(rows) - cut
    <2>1. /\ cut + 1 \in Nat \ {0} /\ Len(rows) - cut \in Nat
          /\ Len(rows) + 1 = cut + 1 + (Len(rows) - cut) /\ Len(rows) <= Len(rows)
      BY <1>1
    <2>2. kept \in Rows /\ Len(kept) = Len(rows) - cut
      BY <1>1, <2>1, SubRows
    <2> QED BY <2>2 DEF Rows, Line
  <1>3. SubSeq(kept, 1, n) = SubSeq(rows, cut + 1, cut + n)
    <2>1. /\ cut + 1 \in 1..Len(rows) /\ Len(rows) \in 1..Len(rows)
          /\ 1 \in 1..Len(rows) - (cut + 1) + 1
          /\ n \in 1..Len(rows) - (cut + 1) + 1
          /\ cut + 1 + 1 - 1 = cut + 1 /\ cut + 1 + n - 1 = cut + n
      BY <1>1
    <2>2. SubSeq(kept, 1, n) = SubSeq(rows, cut + 1 + 1 - 1, cut + 1 + n - 1)
      BY <1>1, <2>1, SubSeqOfSubSeq
    <2> QED BY <2>1, <2>2
  <1>4. 1 \in 1..Len(kept) /\ n \in 1..Len(kept)
    BY <1>1, <1>2
  <1> HIDE DEF kept
  <1>5. SubSeq(kept \o below, 1, n) = SubSeq(kept, 1, n)
    BY <1>1, <1>2, <1>4, SubSeqOfConcat1
  <1> QED BY <1>3, <1>5 DEF kept

LEMMA ResizedKeepsLines ==
  ASSUME NEW t, Exact(t), NEW cols, NEW rows \in Nat \ {0},
         t.cur_row >= t.height - rows, NEW new, new = Resized(t, cols, rows)
  PROVE  LinesAboveCursor(new, new.cur_row + 1)
           = LinesAboveCursor(t, new.cur_row + 1)
  <1>1. /\ t.height \in Nat /\ t.cur_row \in Nat /\ t.cur_row < t.height
        /\ t.rows \in Rows /\ Len(t.rows) = t.height
    BY DEF Exact, Term
  <1>2. PICK cut \in Nat : cut = AtLeast(t.height - rows, 0)
    BY <1>1 DEF AtLeast
  <1>3. /\ new.cur_row = AtMost(AtLeast(t.cur_row - cut, 0), rows - 1)
        /\ new.rows = SubSeq(t.rows, cut + 1, t.height)
                        \o EmptyRows(rows - (t.height - cut))
    <2>1. Exact(t) /\ cut \in Nat /\ rows \in Nat \ {0}
      BY <1>2
    <2>2. Resized(t, cols, rows).cur_row
            = AtMost(AtLeast(t.cur_row - cut, 0), rows - 1)
      BY <1>2, <2>1, ResizedParts
    <2>3. Resized(t, cols, rows).rows
               = SubSeq(t.rows, cut + 1, t.height)
                   \o EmptyRows(rows - (t.height - cut))
      BY <1>1, <1>2 DEF Resized, Exact, Term
    <2> QED BY <2>2, <2>3, Zenon
  <1>4. /\ t.cur_row >= cut /\ t.cur_row - cut <= rows - 1
        /\ rows - (t.height - cut) \in Nat
    <2>1. PICK h \in Nat, c \in Nat : h = t.height /\ c = t.cur_row
      BY <1>1
    <2>2. c < h /\ c >= h - rows
      BY <1>1, <2>1
    <2>3. cut = IF h - rows > 0 THEN h - rows ELSE 0
      BY <1>2, <2>1 DEF AtLeast
    <2>4. c >= cut /\ c - cut <= rows - 1 /\ rows - (h - cut) \in Nat
      <3>1. CASE h - rows > 0
        BY <2>2, <2>3, <3>1
      <3>2. CASE h - rows <= 0
        BY <2>2, <2>3, <3>2
      <3> QED BY <3>1, <3>2
    <2> QED BY <2>1, <2>4
  <1>5. new.cur_row = t.cur_row - cut
    BY <1>1, <1>3, <1>4 DEF AtLeast, AtMost
  <1>6. EmptyRows(rows - (t.height - cut)) \in Rows
    BY <1>4, EmptyRowsType
  <1>7. PICK n \in Nat \ {0} : n = new.cur_row + 1
    BY <1>1, <1>4, <1>5
  <1>8. /\ cut + n <= Len(t.rows) /\ t.cur_row + 2 - n = cut + 1
        /\ t.cur_row + 1 = cut + n /\ new.cur_row + 2 - n = 1
    <2>1. PICK h \in Nat, c \in Nat : h = t.height /\ c = t.cur_row
      BY <1>1
    <2>2. n = c - cut + 1 /\ c < h
      BY <1>1, <1>5, <1>7, <2>1
    <2>3. /\ cut + n <= h /\ c + 2 - n = cut + 1 /\ c + 1 = cut + n
          /\ c - cut + 2 - n = 1
      BY <2>2
    <2> QED BY <1>1, <1>5, <2>1, <2>3
  <1>9. SubSeq(new.rows, 1, n) = SubSeq(t.rows, cut + 1, cut + n)
    <2>1. SubSeq(SubSeq(t.rows, cut + 1, Len(t.rows))
                   \o EmptyRows(rows - (t.height - cut)), 1, n)
            = SubSeq(t.rows, cut + 1, cut + n)
      BY <1>1, <1>6, <1>8, RowsMoveUp, Zenon
    <2> QED BY <1>1, <1>3, <2>1
  <1>10. LinesAboveCursor(new, n) = SubSeq(new.rows, 1, n)
    BY <1>7, <1>8 DEF LinesAboveCursor
  <1>11. LinesAboveCursor(t, n) = SubSeq(t.rows, cut + 1, cut + n)
    BY <1>8 DEF LinesAboveCursor
  <1> QED BY <1>7, <1>9, <1>10, <1>11

(* A resize keeps the lines around the cursor: the row it is on and those  *)
(* above move together, and the cursor's number with them.                 *)
THEOREM ResizeKeepsTheCursorLine == Spec => ResizeKeepsCursorLine
  <1> DEFINE Step ==
        term'.height # term.height /\ term.cur_row >= term.height - term'.height
          => LinesAboveCursor(term', term'.cur_row + 1)
               = LinesAboveCursor(term, term'.cur_row + 1)
  <1>1. ASSUME TermInv, [Next]_vars
        PROVE  [Step]_vars
    <2> SUFFICES ASSUME term'.height # term.height,
                        term.cur_row >= term.height - term'.height, Next
                 PROVE  LinesAboveCursor(term', term'.cur_row + 1)
                          = LinesAboveCursor(term, term'.cur_row + 1)
      BY <1>1
    <2>1. resize
      <3>1. CASE feed_char \/ Clear
        BY <1>1, <3>1, StepScrolls DEF Scrolls
      <3> QED BY <3>1 DEF Next
    <2>2. PICK cols \in Widths, rows \in Heights :
            term' = Resized(term, cols, rows)
      BY <2>1 DEF resize, Edit
    <2>3. rows \in Nat \ {0} /\ Exact(term)
      BY <1>1, SizesAssumption DEF TermInv
    <2>4. term'.height = rows
      BY <1>1, <2>2, <2>3, ResizeScrollsOff
    <2>5. term.cur_row >= term.height - rows
      BY <2>4
    <2> QED BY <2>2, <2>3, <2>5, ResizedKeepsLines
  <1> QED BY <1>1, TermInvInit, TermInvStep, PTL DEF Spec, ResizeKeepsCursorLine
=============================================================================
