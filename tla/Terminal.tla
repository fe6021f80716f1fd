------------------------------- MODULE Terminal -------------------------------
(***************************************************************************)
(* The terminal buffer of one session, crates/client/src/terminal.rs: a    *)
(* parser of escape sequences that edits a screen of ragged rows, of which *)
(* lines scroll off into the scrollback.  It is fed one decoded character  *)
(* at a time, and resized between any two.                                 *)
(*                                                                         *)
(* Rows and columns are counted from 0, as in the code; row r is element   *)
(* r + 1 of rows.  ensure_row is left out: it adds rows only to a screen   *)
(* of fewer than height rows, which ScreenIsExact excludes.                *)
(***************************************************************************)
EXTENDS Integers, Sequences

CONSTANTS
  Glyphs,      \* what a cell can show besides a blank
  Widths,      \* columns a terminal may have
  Heights,     \* rows a terminal may have
  Numbers,     \* parameter values that occur in control sequences
  IntMax,      \* i64::MAX in the code
  TabStop,     \* 8 in the code
  MaxRows,     \* MAX_ROWS, 4000 in the code
  MaxParams,   \* bound: length of the parameters of a control sequence
  MaxLine      \* bound: length of a row that characters are inserted in

Blank == " "

ASSUME SizesAssumption ==
  /\ Widths \subseteq Nat \ {0}
  /\ Heights \subseteq Nat \ {0}
  /\ Numbers \subseteq Nat /\ IntMax \in Nat
  /\ TabStop \in Nat \ {0}
  /\ MaxRows \in Nat
  /\ MaxParams \in Nat /\ MaxLine \in Nat

(* Tokens of a parameter string besides numbers.                           *)
Separator == -1
Question == -2

VARIABLES
  term,     \* the screen, the scrollback and the cursor
  state,    \* the parser's state
  params,   \* the parameter string so far, a sequence of tokens
  outcome   \* "ok", or how a call ended that does not return: "panic", "loop"

vars == <<term, state, params, outcome>>

Rows == Seq(Seq(Glyphs \cup {Blank}))

Term ==
  [rows: Rows, cur_row: Nat, cur_col: Nat, cols: Nat, height: Nat,
   scrollback: Rows]

TypeOK ==
  /\ term \in Term
  /\ state \in {"Ground", "Esc", "Csi", "Osc", "Charset"}
  /\ params \in Seq(Numbers \cup {Separator, Question})
  /\ outcome \in {"ok", "panic", "loop"}

Blanks(n) == [i \in 1..n |-> Blank]

EmptyRows(n) == [i \in 1..n |-> <<>>]

AtMost(a, b) == IF a < b THEN a ELSE b

AtLeast(a, b) == IF a > b THEN a ELSE b

(* TerminalBuffer::new.                                                    *)
NewTerm(cols, rows) ==
  [rows |-> EmptyRows(rows), cur_row |-> 0, cur_col |-> 0, cols |-> cols,
   height |-> rows, scrollback |-> <<>>]

Init ==
  /\ \E cols \in Widths, rows \in Heights : term = NewTerm(cols, rows)
  /\ state = "Ground"
  /\ params = <<>>
  /\ outcome = "ok"

-----------------------------------------------------------------------------
(* Lines.                                                                  *)

Row(t) == t.rows[t.cur_row + 1]

SetRow(t, row) == [t EXCEPT !.rows = [@ EXCEPT ![t.cur_row + 1] = row]]

(* The cells from column a up to column b - 1 become c; the row is filled  *)
(* with blanks up to column a.                                             *)
Fill(row, a, b, c) ==
  [i \in 1..AtLeast(Len(row), b) |->
     IF a < i /\ i <= b THEN c ELSE IF i <= Len(row) THEN row[i] ELSE Blank]

(* Mutant: the newest rows are dropped.                                    *)
CapKeepsOldest(scrollback) ==
  SubSeq(scrollback, 1, AtMost(Len(scrollback), MaxRows))

(* cap_total drops the oldest rows of the scrollback.                      *)
cap_total(scrollback) ==
  SubSeq(scrollback, AtLeast(Len(scrollback) - MaxRows, 0) + 1, Len(scrollback))

(* Mutant: the screen grows at its bottom.                                 *)
LineFeedGrows(t) ==
  [t EXCEPT !.rows = IF t.cur_row + 1 >= t.height THEN Append(@, <<>>) ELSE @,
            !.cur_row = @ + 1]

(* line_feed scrolls at the bottom of the screen.                          *)
line_feed(t) ==
  IF t.cur_row + 1 >= t.height
  THEN [t EXCEPT !.scrollback = cap_total(Append(@, Head(t.rows))),
                 !.rows = Append(Tail(@), <<>>),
                 !.cur_row = t.height - 1]
  ELSE [t EXCEPT !.cur_row = @ + 1]

(* reverse_index scrolls down at the top, into nothing.                    *)
reverse_index(t) ==
  IF t.cur_row = 0
  THEN [t EXCEPT !.rows = <<(<<>>)>> \o SubSeq(@, 1, Len(@) - 1)]
  ELSE [t EXCEPT !.cur_row = @ - 1]

(* put wraps before it writes at the right margin.                         *)
put(t, c) ==
  LET at == IF t.cur_col >= t.cols
            THEN line_feed([t EXCEPT !.cur_col = 0]) ELSE t
  IN  [SetRow(at, Fill(Row(at), at.cur_col, at.cur_col + 1, c))
         EXCEPT !.cur_col = @ + 1]

(* tab puts blanks until it reaches the next stop.  A put at the margin    *)
(* goes back to column 0, so a stop beyond the margin is never reached.    *)
NextStop(t) == (t.cur_col \div TabStop + 1) * TabStop

tab(t) ==
  [SetRow(t, Fill(Row(t), t.cur_col, NextStop(t), Blank))
     EXCEPT !.cur_col = NextStop(t)]

(* reset empties screen and scrollback.                                    *)
reset(t) ==
  [t EXCEPT !.rows = EmptyRows(t.height), !.scrollback = <<>>,
            !.cur_row = 0, !.cur_col = 0]

-----------------------------------------------------------------------------
(* Control sequences.                                                      *)

(* params_list: the fields between separators that are numbers.  One that  *)
(* is empty or does not parse as an i64 is dropped, and the next one takes *)
(* its place.                                                              *)
Fields(p) ==
  {i \in 1..Len(p) : /\ p[i] \in 0..IntMax
                     /\ i = 1 \/ p[i - 1] = Separator
                     /\ i = Len(p) \/ p[i + 1] = Separator}

FirstField(p, default) ==
  LET first == {i \in Fields(p) : \A j \in Fields(p) : i <= j}
  IN  IF first = {} THEN default ELSE p[CHOOSE i \in first : TRUE]

SecondField(p, default) ==
  LET second == {i \in Fields(p) : \E j \in Fields(p) :
                   j < i /\ \A k \in Fields(p) : k < i => k = j}
  IN  IF second = {} THEN default ELSE p[CHOOSE i \in second : TRUE]

(* Mutant: a move to the left or up may leave the screen.                  *)
MoveUnbounded(t, dcol, drow) ==
  [t EXCEPT !.cur_col = AtMost(@ + dcol, t.cols - 1),
            !.cur_row = AtMost(@ + drow, t.height - 1)]

(* The sum of two i64, as a release build computes it.                     *)
Wrap(sum) == IF sum > IntMax THEN sum - 2 * (IntMax + 1) ELSE sum

move_cursor(t, dcol, drow) ==
  [t EXCEPT !.cur_col = AtMost(AtLeast(Wrap(@ + dcol), 0), t.cols - 1),
            !.cur_row = AtMost(AtLeast(Wrap(@ + drow), 0), t.height - 1)]

set_col(t, col) == [t EXCEPT !.cur_col = AtMost(AtLeast(col - 1, 0), t.cols - 1)]

set_row(t, row) ==
  [t EXCEPT !.cur_row = AtMost(AtLeast(row - 1, 0), t.height - 1)]

(* erase_line(1) blanks up to the cursor or the end of the row; an empty   *)
(* row has no cell 0 to blank.                                             *)
EraseLinePanics(t, mode) == mode = 1 /\ Row(t) = <<>>

erase_line(t, mode) ==
  LET row == Row(t)
  IN  CASE mode = 0 -> SetRow(t, Fill(row, t.cur_col,
                                      Len(row), Blank))
        [] mode = 1 -> SetRow(t, Fill(row, 0, AtMost(t.cur_col + 1, Len(row)),
                                      Blank))
        [] mode = 2 -> SetRow(t, <<>>)
        [] OTHER    -> t

(* The rows from first to last - 1 are cleared.                            *)
ClearRows(t, first, last) ==
  [t EXCEPT !.rows = [i \in 1..Len(@) |->
                        IF first < i /\ i <= last THEN <<>> ELSE @[i]]]

erase_display(t, mode) ==
  CASE mode = 0 -> ClearRows(erase_line(t, 0), t.cur_row + 1, t.height)
    [] mode = 1 -> erase_line(ClearRows(t, 0, t.cur_row), 1)
    [] mode \in {2, 3} ->
         [ClearRows(t, 0, t.height) EXCEPT !.cur_row = 0, !.cur_col = 0]
    [] OTHER -> t

delete_chars(t, n) ==
  LET row == Row(t)
  IN  SetRow(t, SubSeq(row, 1, AtMost(t.cur_col, Len(row)))
                \o SubSeq(row, t.cur_col + n + 1, Len(row)))

(* insert_chars does not cut the row at the margin, and cannot insert      *)
(* beyond its end.                                                         *)
InsertCharsPanics(t, n) == n > 0 /\ t.cur_col > Len(Row(t))

insert_chars(t, n) ==
  LET row == Row(t)
  IN  SetRow(t, SubSeq(row, 1, AtMost(t.cur_col, Len(row))) \o Blanks(n)
                \o SubSeq(row, t.cur_col + 1, Len(row)))

(* Mutant: lines pushed past the bottom stay.                              *)
InsertLinesGrows(t, n) ==
  [t EXCEPT !.rows = SubSeq(@, 1, t.cur_row) \o EmptyRows(n)
                     \o SubSeq(@, t.cur_row + 1, Len(@))]

insert_lines(t, n) ==
  [t EXCEPT !.rows = SubSeq(SubSeq(@, 1, t.cur_row) \o EmptyRows(n)
                            \o SubSeq(@, t.cur_row + 1, Len(@)), 1, t.height)]

delete_lines(t, n) ==
  LET k == AtMost(n, Len(t.rows) - t.cur_row)
  IN  [t EXCEPT !.rows = SubSeq(@, 1, t.cur_row)
                         \o SubSeq(@, t.cur_row + k + 1, Len(@)) \o EmptyRows(k)]

(* The characters that end a control sequence the code acts on.            *)
Moves == {"A", "B", "C", "D", "E", "F", "G", "d", "H"}

Move(t, c, p) ==
  LET n == FirstField(p, 1)
  IN  CASE c = "A" -> move_cursor(t, 0, -n)
        [] c = "B" -> move_cursor(t, 0, n)
        [] c = "C" -> move_cursor(t, n, 0)
        [] c = "D" -> move_cursor(t, -n, 0)
        [] c = "E" -> move_cursor([t EXCEPT !.cur_col = 0], 0, n)
        [] c = "F" -> move_cursor([t EXCEPT !.cur_col = 0], 0, -n)
        [] c = "G" -> set_col(t, n)
        [] c = "d" -> set_row(t, n)
        [] c = "H" -> set_col(set_row(t, n), SecondField(p, 1))

(* A debug build panics instead.                                           *)
MoveOverflows(t, c, p) ==
  LET n == FirstField(p, 1)
  IN  \/ c \in {"B", "E"} /\ t.cur_row + n > IntMax
      \/ c = "C" /\ t.cur_col + n > IntMax

Private(p) == p # <<>> /\ Head(p) = Question

(* erase_display and erase_line take their parameter modulo 256.           *)
EraseMode(p) == FirstField(p, 0) % 256

-----------------------------------------------------------------------------
(* The parser: feed_char in each of its states.                            *)

Edit(t) == term' = t /\ outcome' = "ok"

NoEdit == UNCHANGED <<term, outcome>>

(* The call does not return; what it did to the screen is never seen.      *)
Fails(how) == outcome' = how /\ UNCHANGED term

To(s) == state' = s /\ UNCHANGED params

(* ground: BEL and NUL do nothing.                                         *)
Ground ==
  /\ state = "Ground"
  /\ \/ To("Esc") /\ NoEdit
     \/ /\ To("Ground")
        /\ \/ Edit([term EXCEPT !.cur_col = AtLeast(@ - 1, 0)])
           \/ Edit([term EXCEPT !.cur_col = 0])
           \/ Edit(line_feed(term))
           \/ NextStop(term) <= term.cols /\ Edit(tab(term))
           \/ NextStop(term) > term.cols /\ Fails("loop")
           \/ \E c \in Glyphs \cup {Blank} : Edit(put(term, c))

(* esc: any other character, "7" and "8" among them, does nothing.         *)
Esc ==
  /\ state = "Esc"
  /\ \/ state' = "Csi" /\ params' = <<>> /\ NoEdit
     \/ \E s \in {"Osc", "Charset", "Ground"} : To(s) /\ NoEdit
     \/ /\ To("Ground")
        /\ \/ Edit(line_feed(term))
           \/ Edit(line_feed([term EXCEPT !.cur_col = 0]))
           \/ Edit(reverse_index(term))
           \/ Edit(reset(term))

(* csi, a parameter character.  A token that is a number stands for all    *)
(* its digits.                                                             *)
CsiParam ==
  /\ state = "Csi"
  /\ Len(params) < MaxParams
  /\ \E p \in Numbers \cup {Separator, Question} :
       /\ p \in Numbers /\ params # <<>> => params[Len(params)] \notin Numbers
       /\ params' = Append(params, p)
  /\ UNCHANGED <<term, state, outcome>>

EndCsi == state = "Csi" /\ state' = "Ground" /\ params' = <<>>

(* csi_dispatch.  Every other final character, and every character that    *)
(* has no place in a control sequence, ends it without effect.             *)
CsiMove ==
  /\ EndCsi
  /\ \E c \in Moves : \/ Edit(Move(term, c, params))
                      \/ MoveOverflows(term, c, params) /\ Fails("panic")

CsiErase ==
  LET mode == EraseMode(params)
  IN  /\ EndCsi /\ ~Private(params)
      /\ IF EraseLinePanics(term, mode)
         THEN Fails("panic")
         ELSE \/ Edit(erase_line(term, mode))
              \/ Edit(erase_display(term, mode))

CsiDelete == EndCsi /\ Edit(delete_chars(term, FirstField(params, 1)))

CsiInsert ==
  LET n == FirstField(params, 1)
  IN  /\ EndCsi
      /\ IF InsertCharsPanics(term, n)
         THEN Fails("panic")
         ELSE /\ Len(Row(term)) + n <= MaxLine
              /\ Edit(insert_chars(term, n))

CsiLines ==
  LET n == FirstField(params, 1)
  IN  EndCsi /\ (Edit(insert_lines(term, n)) \/ Edit(delete_lines(term, n)))

CsiIgnored == EndCsi /\ NoEdit

(* osc: until BEL or ESC.                                                  *)
Osc == state = "Osc" /\ (\E s \in {"Osc", "Ground", "Esc"} : To(s)) /\ NoEdit

Charset == state = "Charset" /\ To("Ground") /\ NoEdit

feed_char ==
  /\ outcome = "ok"
  /\ \/ Ground \/ Esc \/ CsiParam \/ CsiMove \/ CsiErase \/ CsiDelete
     \/ CsiInsert \/ CsiLines \/ CsiIgnored \/ Osc \/ Charset

(* Mutant: rows are cut off at the bottom.                                 *)
ResizedBelow(t, cols, rows) ==
  LET cut == AtLeast(Len(t.rows) - rows, 0)
  IN  [t EXCEPT
         !.cols = cols,
         !.height = rows,
         !.rows = SubSeq(@, 1, Len(@) - cut) \o EmptyRows(rows - (Len(@) - cut)),
         !.cur_row = AtMost(@, rows - 1)]

(* resize: rows that do not fit scroll off at the top, with the cursor; it *)
(* leaves the cursor's column alone.                                       *)
Resized(t, cols, rows) ==
  LET cut == AtLeast(Len(t.rows) - rows, 0)
  IN  [t EXCEPT
         !.cols = cols,
         !.height = rows,
         !.rows = SubSeq(@, cut + 1, Len(@)) \o EmptyRows(rows - (Len(@) - cut)),
         !.scrollback = cap_total(@ \o SubSeq(t.rows, 1, cut)),
         !.cur_row = AtMost(AtLeast(@ - cut, 0), rows - 1)]

resize ==
  /\ outcome = "ok"
  /\ \E cols \in Widths, rows \in Heights : Edit(Resized(term, cols, rows))
  /\ UNCHANGED <<state, params>>

(* The Clear button: reset, whatever the parser is in the middle of.       *)
Clear == outcome = "ok" /\ Edit(reset(term)) /\ UNCHANGED <<state, params>>

Next == feed_char \/ resize \/ Clear

Spec == Init /\ [][Next]_vars
-----------------------------------------------------------------------------
(* "The screen always holds exactly height rows", the cursor is on one of  *)
(* them, and the scrollback is capped: no sequence of scrolls, insertions, *)
(* deletions and resizes moves an absolute row of the remote shell away    *)
(* from the visual one, or makes Row(term) undefined.                      *)
ScreenIsExact ==
  /\ Len(term.rows) = term.height
  /\ term.cur_row < term.height
  /\ Len(term.scrollback) <= MaxRows

(* The scrollback is what scrolled off the top of the screen, in order and *)
(* unchanged: a resize adds just the rows that no longer fit, any other    *)
(* call at most one, and only the oldest rows are forgotten, unless all    *)
(* are.                                                                    *)
IsNewest(s, all) ==
  /\ Len(s) = AtMost(Len(all), MaxRows)
  /\ s = SubSeq(all, Len(all) - Len(s) + 1, Len(all))

ScrolledOff(k) ==
  IsNewest(term'.scrollback, term.scrollback \o SubSeq(term.rows, 1, k))

HistoryScrollsOff ==
  [][IF term'.height < term.height
     THEN ScrolledOff(term.height - term'.height)
     ELSE term'.scrollback = <<>> \/ ScrolledOff(0) \/ ScrolledOff(1)]_vars

(* A resize keeps the text around the cursor: the line under the cursor    *)
(* and the lines above it that stay visible are the same as before, unless *)
(* the cursor's line itself had to scroll off.                             *)
LinesAboveCursor(t, k) == SubSeq(t.rows, t.cur_row + 2 - k, t.cur_row + 1)

ResizeKeepsCursorLine ==
  [][term'.height # term.height /\ term.cur_row >= term.height - term'.height =>
       LinesAboveCursor(term', term'.cur_row + 1)
         = LinesAboveCursor(term, term'.cur_row + 1)]_vars

(* "Handles the escape sequences real shells emit most often (cursor       *)
(* movement, line/screen erase, ..., insert/delete)" (terminal.rs): a call *)
(* that is fed a character returns.  A tab whose stop lies beyond the      *)
(* margin never gets there, for the blanks it puts wrap at the margin;     *)
(* erasing to the left on a row without cells indexes cell 0; inserting    *)
(* right of a row's end inserts out of its bounds; a debug build panics    *)
(* when a move overflows.                                                  *)
CallsReturn == outcome = "ok"
=============================================================================
