------------------------------- MODULE Selection -------------------------------
(***************************************************************************)
(* Selecting text on the terminal pane and copying it: the callbacks       *)
(* term-sel-start, term-sel-move, select-all-term and copy-selection of    *)
(* crates/client/src/app.rs and the mouse and key handlers of main.slint   *)
(* that fire them.  Output, a change of tab or a clear may replace the     *)
(* text between any two steps of a drag.                                   *)
(*                                                                         *)
(* Lines and columns are counted from 0, as in the code.                   *)
(***************************************************************************)
EXTENDS Integers, Sequences, FiniteSets

CONSTANTS
  Chars,      \* what render may write in a cell
  Texts,      \* what render may return: sequences of rows, rows of characters
  Cols,       \* the columns of the grid
  MaxCol,     \* bound: the last column the mouse can be over
  MaxLine     \* bound: the last line below the text it can be over

(* The bounds leave room for the mouse to reach the end of the text.       *)
ASSUME SelectionBounds ==
  /\ Texts \subseteq Seq(Seq(Chars))
  /\ Cols \in Nat \ {0} /\ MaxCol \in Nat /\ MaxLine \in Nat
  /\ Cols <= MaxCol + 1 /\ \A t \in Texts : Len(t) <= MaxLine + 1

VARIABLES
  text,       \* terminal-text, <<>> for the empty string
  start,      \* sel-start-line and sel-start-col
  end,        \* sel-end-line and sel-end-col
  highlight,  \* term-sel-lines
  selected,   \* term-sel-text: the parts that are joined by newlines
  pressed,    \* the left button is down since a press on the pane
  clipboard

vars == <<text, start, end, highlight, selected, pressed, clipboard>>

Position == [line: -1..MaxLine, col: -1..(MaxCol + 1)]

None == [line |-> -1, col |-> -1]

Columns == -1..(MaxCol + 1)

Highlighted == [line: 0..MaxLine, col_start: Columns, col_end: Columns]

TypeOK ==
  /\ text \in Texts \cup {<<>>}
  /\ start \in Position /\ end \in Position
  /\ highlight \in Seq(Highlighted)
  /\ Len(selected) = Len(highlight)
  /\ pressed \in BOOLEAN

Init ==
  /\ text = <<>>
  /\ start = None /\ end = None
  /\ highlight = <<>> /\ selected = <<>>
  /\ pressed = FALSE
  /\ clipboard = <<>>

-----------------------------------------------------------------------------
Least(a, b) == IF a <= b THEN a ELSE b

Greatest(a, b) == IF a >= b THEN a ELSE b

(* A negative column cast to usize is larger than any row is long.         *)
Index(col, row) == IF col < 0 THEN Len(row) ELSE Least(col, Len(row))

(* row[from..to].                                                          *)
Part(row, cs, ce) ==
  LET from == Index(cs, row)
  IN  SubSeq(row, from + 1, Greatest(Index(ce, row), from))

(* Mutant: positions on one line are not swapped.                          *)
AfterByLine(p, q) == p.line > q.line

After(p, q) == p.line > q.line \/ (p.line = q.line /\ p.col > q.col)

(* recompute_selection: one highlighted bar for each line, and the text    *)
(* under it, from the earlier of two positions to the later one.           *)
Bars(p, q) ==
  LET last == Len(text) - 1
      sline == Least(p.line, last)
      eline == Least(q.line, last)
  IN  [i \in 1..(eline - sline + 1) |->
         LET line == sline + i - 1
         IN  [line |-> line,
              col_start |-> IF line = sline THEN p.col ELSE 0,
              col_end |-> IF line = eline THEN q.col ELSE Cols]]

recompute_selection(p, q) ==
  IF p.line < 0 \/ q.line < 0 \/ text = <<>>
  THEN UNCHANGED <<highlight, selected>>
  ELSE /\ highlight' = IF After(p, q) THEN Bars(q, p) ELSE Bars(p, q)
       /\ selected' = [i \in DOMAIN highlight' |->
                         Part(text[highlight'[i].line + 1],
                              highlight'[i].col_start, highlight'[i].col_end)]

-----------------------------------------------------------------------------
Lines == IF text = <<>> THEN 1 ELSE Len(text)

(* The left button goes down on the pane.                                  *)
SelStart(p) ==
  /\ ~pressed /\ p.line \in 0..(Lines - 1) /\ p.col \in 0..MaxCol
  /\ pressed' = TRUE
  /\ start' = p /\ end' = p
  /\ recompute_selection(p, p)
  /\ UNCHANGED <<text, clipboard>>

(* It moves, also outside the pane.                                        *)
SelMove(p) ==
  /\ pressed
  /\ start.line >= 0
  /\ end' = p
  /\ recompute_selection(start, p)
  /\ UNCHANGED <<text, start, pressed, clipboard>>

Release ==
  /\ pressed /\ pressed' = FALSE
  /\ UNCHANGED <<text, start, end, highlight, selected, clipboard>>

SelectAll ==
  LET last == [line |-> Lines - 1, col |-> Cols]
  IN  /\ ~pressed
      /\ start' = [line |-> 0, col |-> 0] /\ end' = last
      /\ recompute_selection(start', last)
      /\ UNCHANGED <<text, pressed, clipboard>>

(* Mutant: the bars stay.                                                  *)
SetTextKeepsBars(t) ==
  /\ text' = t
  /\ start' = None /\ end' = None
  /\ selected' = <<>>
  /\ UNCHANGED <<highlight, pressed, clipboard>>

(* Mutant: new text leaves the selection of the old one.                   *)
SetTextOnly(t) ==
  /\ text' = t
  /\ UNCHANGED <<start, end, highlight, selected, pressed, clipboard>>

(* set_terminal_text, by the pump, a change of tab, a clear or a logout.   *)
set_terminal_text(t) ==
  /\ text' = t
  /\ start' = None /\ end' = None
  /\ highlight' = <<>> /\ selected' = <<>>
  /\ UNCHANGED <<pressed, clipboard>>

(* Mutant: a selection that starts with an empty line counts as empty.     *)
CopiedUnlessBlank ==
  IF selected = <<>> \/ selected[1] = <<>> THEN text ELSE selected

(* handle_copy: the whole text if the selected one is empty.               *)
Copied == IF selected \in {<<>>, << <<>> >>} THEN text ELSE selected

(* Copy in the context menu.                                               *)
CopySelection ==
  /\ ~pressed
  /\ clipboard' = IF Copied = <<>> THEN clipboard ELSE Copied
  /\ UNCHANGED <<text, start, end, highlight, selected, pressed>>

(* Ctrl+Shift+C or Cmd+C.                                                  *)
CopyShortcut ==
  /\ start.line >= 0
  /\ clipboard' = IF Copied = <<>> THEN clipboard ELSE Copied
  /\ UNCHANGED <<text, start, end, highlight, selected, pressed>>

Next ==
  \/ \E p \in Position : SelStart(p) \/ SelMove(p)
  \/ Release \/ SelectAll
  \/ \E t \in Texts \cup {<<>>} : set_terminal_text(t)
  \/ CopySelection \/ CopyShortcut

Spec == Init /\ [][Next]_vars
-----------------------------------------------------------------------------
(* The characters that a bar covers on the pane.                           *)
Under(bar) ==
  LET row == text[bar.line + 1]
  IN  [i \in 1..Greatest(0, Least(bar.col_end, Len(row)) - bar.col_start) |->
         row[bar.col_start + i]]

(* What the user would copy is what the user sees highlighted, on the text *)
(* that is on the pane now: whichever way and however far the mouse was    *)
(* dragged and whatever replaced the text meanwhile, as long as no bar     *)
(* begins or ends left of the text.                                        *)
SelectedIsHighlighted ==
  \A i \in DOMAIN highlight :
    /\ highlight[i].line < Len(text)
    /\ highlight[i].col_start >= 0 /\ highlight[i].col_end >= 0 =>
         selected[i] = Under(highlight[i])

(* Everything between the two ends of a drag is selected, and nothing else *)
(* (a line that goes on counts up to the margin): a drag to the left or up *)
(* selects what the same drag to the right or down does.                   *)
Rank(p) == p.line * (MaxCol + 2) + p.col

Between(line, col) ==
  LET r == Rank([line |-> line, col |-> col])
      first == Least(Rank(start), Rank(end))
      last == Greatest(Rank(start), Rank(end))
  IN  /\ first <= r /\ r < last
      /\ col < Cols \/ line = Greatest(start.line, end.line)

(* part is the characters of the columns in between, from left to right.   *)
Picked(part, line) ==
  LET row == text[line + 1]
      cols == {c \in 0..(Len(row) - 1) : Between(line, c)}
  IN  \E f \in [1..Cardinality(cols) -> cols] :
        /\ \A i, j \in DOMAIN f : i < j => f[i] < f[j]
        /\ part = [i \in DOMAIN f |-> row[f[i] + 1]]

OnText(p) == p.line \in 0..(Len(text) - 1) /\ p.col >= 0

DragSelectsBetween ==
  OnText(start) /\ OnText(end) =>
    LET top == Least(start.line, end.line)
        lines == Greatest(start.line, end.line) - top + 1
    IN  /\ Len(selected) = lines
        /\ \A i \in 1..lines : Picked(selected[i], top + i - 1)

(* The bars cover a character, or the break between two lines.             *)
Highlights ==
  Len(highlight) > 1 \/ \E i \in DOMAIN highlight : Under(highlight[i]) # <<>>

(* A copy of a selection takes what is highlighted on the text that the    *)
(* pane shows now, also in the middle of a drag and after the text was     *)
(* replaced.  With nothing highlighted nothing is promised: after a click  *)
(* without a drag the code copies the whole text, though main.slint:609-   *)
(* 612 says that the shortcut must never do that.                          *)
CopiesTheHighlighted ==
  [][/\ clipboard' # clipboard
     /\ \A i \in DOMAIN highlight :
          highlight[i].col_start >= 0 /\ highlight[i].col_end >= 0
     /\ Highlights
     => clipboard' = [i \in DOMAIN highlight |-> Under(highlight[i])]]_vars
=============================================================================
