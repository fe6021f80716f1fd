---------------------------- MODULE SelectionProofs ----------------------------
(***************************************************************************)
(* What is selected on the pane is what is highlighted, that is what lies  *)
(* between the ends of the drag, and that is what a copy takes, for every  *)
(* text, grid and sequence of mouse events and outputs.                    *)
(***************************************************************************)
EXTENDS Selection, FiniteSetTheorems, SequenceTheorems, TLAPS

(* The bars of a drag from p to q, whichever comes first on the pane.      *)
BarsOfDrag(p, q) == IF After(p, q) THEN Bars(q, p) ELSE Bars(p, q)

PartUnder(bar) == Part(text[bar.line + 1], bar.col_start, bar.col_end)

(* The inductive invariant: the bars are on the text that is there now,    *)
(* the parts are those under the bars, and the bars are those of the last  *)
(* drag, unless its ends were forgotten or lie off the text.               *)
PartsOfBars ==
  /\ \A i \in DOMAIN highlight : highlight[i].line < Len(text)
  /\ selected = [i \in DOMAIN highlight |-> PartUnder(highlight[i])]

BarsAreTheDrag ==
  text # <<>> /\ start.line >= 0 /\ end.line >= 0 =>
    highlight = BarsOfDrag(start, end)

SelInv == TypeOK /\ PartsOfBars /\ BarsAreTheDrag

-----------------------------------------------------------------------------
(* The bars from a position to a later one.                                *)

LEMMA TextType ==
  ASSUME TypeOK
  PROVE  /\ text \in Seq(Seq(Chars)) /\ Len(text) \in Nat
         /\ DOMAIN text = 1..Len(text)
         /\ Len(text) <= MaxLine + 1
         /\ text # <<>> => Len(text) > 0
         /\ text = <<>> => Len(text) = 0
  <1>1. text \in Seq(Seq(Chars))
    <2>1. <<>> \in Seq(Seq(Chars))
      OBVIOUS
    <2>2. Texts \subseteq Seq(Seq(Chars))
      BY SelectionBounds
    <2> QED BY <2>1, <2>2 DEF TypeOK
  <1>2. CASE text = <<>>
    BY <1>1, <1>2, SelectionBounds
  <1>3. CASE text # <<>>
    BY <1>1, <1>3, SelectionBounds DEF TypeOK
  <1> QED BY <1>1, <1>2, <1>3

(* Where the bars from p to q begin, how many there are, and what each is. *)
Top(p) == Least(p.line, Len(text) - 1)

Bar(p, q, line) ==
  [line |-> line,
   col_start |-> IF line = Top(p) THEN p.col ELSE 0,
   col_end |-> IF line = Top(q) THEN q.col ELSE Cols]

LEMMA BarsShape ==
  ASSUME TypeOK, text # <<>>, NEW p \in Position, NEW q \in Position,
         p.line >= 0, q.line >= p.line
  PROVE  /\ Top(p) \in Nat /\ Top(q) \in Nat /\ Top(p) <= Top(q)
         /\ Top(q) < Len(text)
         /\ Bars(p, q) \in Seq(Highlighted)
         /\ Len(Bars(p, q)) = Top(q) - Top(p) + 1
         /\ \A i \in 1..(Top(q) - Top(p) + 1) :
              Bars(p, q)[i] = Bar(p, q, Top(p) + i - 1)
  <1>1. /\ Len(text) \in Nat /\ Len(text) > 0 /\ Len(text) <= MaxLine + 1
        /\ MaxLine \in Nat /\ MaxCol \in Nat /\ Cols \in Nat /\ Cols <= MaxCol + 1
    BY TextType, SelectionBounds
  <1>2. p.line \in Int /\ q.line \in Int /\ p.col \in Columns /\ q.col \in Columns
    BY DEF Position, Columns
  <1>3. /\ Top(p) \in Nat /\ Top(q) \in Nat /\ Top(p) <= Top(q)
        /\ Top(q) < Len(text)
    BY <1>1, <1>2 DEF Top, Least
  <1>4. PICK n \in Nat : n = Top(q) - Top(p) + 1
    BY <1>3
  <1>5. Bars(p, q) = [i \in 1..n |-> Bar(p, q, Top(p) + i - 1)]
    BY <1>4 DEF Bars, Bar, Top
  <1>6. \A i \in 1..n : Bar(p, q, Top(p) + i - 1) \in Highlighted
    <2> SUFFICES ASSUME NEW i \in 1..n
                 PROVE  Bar(p, q, Top(p) + i - 1) \in Highlighted
      OBVIOUS
    <2>1. Top(p) + i - 1 \in 0..MaxLine
      BY <1>1, <1>3, <1>4
    <2>2. 0 \in Columns /\ Cols \in Columns
      BY <1>1 DEF Columns
    <2> QED BY <1>2, <2>1, <2>2 DEF Bar, Highlighted
  <1>7. Bars(p, q) \in Seq(Highlighted) /\ Len(Bars(p, q)) = n
    BY <1>5, <1>6
  <1>8. \A i \in 1..n : Bars(p, q)[i] = Bar(p, q, Top(p) + i - 1)
    BY <1>5
  <1> QED BY <1>3, <1>4, <1>7, <1>8

LEMMA DragShape ==
  ASSUME TypeOK, text # <<>>, NEW p \in Position, NEW q \in Position,
         p.line >= 0, q.line >= 0
  PROVE  /\ BarsOfDrag(p, q) \in Seq(Highlighted)
         /\ \A i \in DOMAIN BarsOfDrag(p, q) :
              BarsOfDrag(p, q)[i].line < Len(text)
  <1>1. ASSUME NEW x \in Position, NEW y \in Position, x.line >= 0, y.line >= x.line
        PROVE  /\ Bars(x, y) \in Seq(Highlighted)
               /\ \A i \in DOMAIN Bars(x, y) : Bars(x, y)[i].line < Len(text)
    <2>1. /\ Top(x) \in Nat /\ Top(y) \in Nat /\ Top(x) <= Top(y)
          /\ Top(y) < Len(text)
          /\ Bars(x, y) \in Seq(Highlighted)
          /\ Len(Bars(x, y)) = Top(y) - Top(x) + 1
          /\ \A i \in 1..(Top(y) - Top(x) + 1) :
               Bars(x, y)[i] = Bar(x, y, Top(x) + i - 1)
      BY <1>1, BarsShape
    <2>2. DOMAIN Bars(x, y) = 1..(Top(y) - Top(x) + 1)
      BY <2>1
    <2>3. \A i \in DOMAIN Bars(x, y) : Bars(x, y)[i].line = Top(x) + i - 1
      BY <2>1, <2>2 DEF Bar
    <2>4. Len(text) \in Nat
      BY TextType
    <2>5. \A i \in DOMAIN Bars(x, y) : Top(x) + i - 1 < Len(text)
      BY <2>1, <2>2, <2>4
    <2> QED BY <2>1, <2>3, <2>5
  <1>2. p.line \in Int /\ q.line \in Int
    BY DEF Position
  <1>3. CASE After(p, q)
    BY <1>1, <1>2, <1>3 DEF After, BarsOfDrag
  <1>4. CASE ~After(p, q)
    BY <1>1, <1>2, <1>4 DEF After, BarsOfDrag
  <1> QED BY <1>3, <1>4

-----------------------------------------------------------------------------
(* Every step keeps the invariant.                                         *)

LEMMA RecomputeKeeps ==
  ASSUME SelInv, NEW p \in Position, NEW q \in Position,
         recompute_selection(p, q), text' = text, start' = p, end' = q,
         pressed' \in BOOLEAN
  PROVE  SelInv'
  <1>1. CASE p.line < 0 \/ q.line < 0 \/ text = <<>>
    <2>1. UNCHANGED <<highlight, selected>>
      BY <1>1 DEF recompute_selection
    <2>2. TypeOK'
      BY <2>1 DEF SelInv, TypeOK
    <2>3. PartsOfBars'
      BY <2>1 DEF SelInv, PartsOfBars, PartUnder
    <2>4. BarsAreTheDrag'
      <3>1. p.line \in Int /\ q.line \in Int
        BY DEF Position
      <3> QED BY <1>1, <3>1 DEF BarsAreTheDrag
    <2> QED BY <2>2, <2>3, <2>4 DEF SelInv
  <1>2. CASE ~(p.line < 0 \/ q.line < 0 \/ text = <<>>)
    <2>1. /\ highlight' = BarsOfDrag(p, q)
          /\ selected' = [i \in DOMAIN highlight' |->
                            Part(text[highlight'[i].line + 1],
                                 highlight'[i].col_start, highlight'[i].col_end)]
      BY <1>2 DEF recompute_selection, BarsOfDrag
    <2>2. p.line >= 0 /\ q.line >= 0 /\ text # <<>>
      BY <1>2 DEF Position
    <2>3. /\ highlight' \in Seq(Highlighted)
          /\ \A i \in DOMAIN highlight' : highlight'[i].line < Len(text)
      BY <2>1, <2>2, DragShape DEF SelInv
    <2>4. PartsOfBars'
      BY <2>1, <2>3 DEF PartsOfBars, PartUnder
    <2>5. Len(selected') = Len(highlight')
      BY <2>1, <2>3
    <2>6. TypeOK'
      BY <2>3, <2>5 DEF SelInv, TypeOK
    <2>7. BarsAreTheDrag'
      BY <2>1 DEF BarsAreTheDrag, BarsOfDrag, Bars
    <2> QED BY <2>4, <2>6, <2>7 DEF SelInv
  <1> QED BY <1>1, <1>2

LEMMA SelInvInit == Init => SelInv
  <1> SUFFICES ASSUME Init PROVE SelInv
    OBVIOUS
  <1>1. None \in Position
    BY SelectionBounds DEF None, Position
  <1>2. <<>> \in Seq(Highlighted)
    OBVIOUS
  <1>3. TypeOK
    BY <1>1, <1>2 DEF Init, TypeOK
  <1>4. PartsOfBars
    BY DEF Init, PartsOfBars
  <1> QED BY <1>3, <1>4 DEF Init, SelInv, BarsAreTheDrag

LEMMA SelInvStep == SelInv /\ [Next]_vars => SelInv'
  <1> SUFFICES ASSUME SelInv, [Next]_vars PROVE SelInv'
    OBVIOUS
  <1>1. ASSUME NEW p \in Position, SelStart(p) PROVE SelInv'
    BY <1>1, RecomputeKeeps DEF SelStart
  <1>2. ASSUME NEW p \in Position, SelMove(p) PROVE SelInv'
    <2>1. start \in Position /\ pressed \in BOOLEAN
      BY DEF SelInv, TypeOK
    <2> QED BY <1>2, <2>1, RecomputeKeeps DEF SelMove
  <1>3. CASE SelectAll
    <2>1. PICK first, last :
            /\ first = [line |-> 0, col |-> 0]
            /\ last = [line |-> Lines - 1, col |-> Cols]
      OBVIOUS
    <2>2. first \in Position
      BY <2>1, SelectionBounds DEF Position
    <2>3. last \in Position
      <3>1. Lines - 1 \in -1..MaxLine
        BY TextType, SelectionBounds DEF Lines, SelInv
      <3>2. Cols \in -1..(MaxCol + 1)
        BY SelectionBounds
      <3> QED BY <2>1, <3>1, <3>2 DEF Position
    <2>4. /\ start' = first /\ end' = last /\ recompute_selection(first, last)
          /\ text' = text /\ pressed' = pressed
      BY <1>3, <2>1 DEF SelectAll
    <2>5. pressed \in BOOLEAN
      BY DEF SelInv, TypeOK
    <2> QED BY <2>2, <2>3, <2>4, <2>5, RecomputeKeeps
  <1>4. ASSUME NEW t \in Texts \cup {<<>>}, set_terminal_text(t) PROVE SelInv'
    <2>1. None \in Position /\ None.line = -1
      BY SelectionBounds DEF None, Position
    <2>2. TypeOK'
      BY <1>4, <2>1 DEF set_terminal_text, SelInv, TypeOK
    <2>3. PartsOfBars'
      BY <1>4 DEF set_terminal_text, PartsOfBars
    <2>4. BarsAreTheDrag'
      BY <1>4, <2>1 DEF set_terminal_text, BarsAreTheDrag
    <2> QED BY <2>2, <2>3, <2>4 DEF SelInv
  <1>5. ASSUME UNCHANGED <<text, start, end, highlight, selected>>,
               pressed' \in BOOLEAN
        PROVE  SelInv'
    BY <1>5 DEF SelInv, TypeOK, PartsOfBars, PartUnder, BarsAreTheDrag,
                BarsOfDrag, Bars
  <1>6. CASE Release \/ CopySelection \/ CopyShortcut \/ UNCHANGED vars
    <2>1. pressed \in BOOLEAN
      BY DEF SelInv, TypeOK
    <2> QED BY <1>5, <1>6, <2>1
            DEF Release, CopySelection, CopyShortcut, vars
  <1> QED BY <1>1, <1>2, <1>3, <1>4, <1>6 DEF Next

(* The positions of the mouse, the bars and the parts keep their types.    *)
THEOREM SelectionType == Spec => []TypeOK
  <1>1. SelInv => TypeOK
    BY DEF SelInv
  <1> QED BY <1>1, SelInvInit, SelInvStep, PTL DEF Spec

-----------------------------------------------------------------------------
(* The part of a row between two columns that are on it or right of it is  *)
(* what a bar covers.                                                      *)
LEMMA PartIsUnder ==
  ASSUME NEW row \in Seq(Chars), NEW cs \in Nat, NEW ce \in Nat
  PROVE  Part(row, cs, ce)
           = [i \in 1..Greatest(0, Least(ce, Len(row)) - cs) |-> row[cs + i]]
  <1>1. PICK n \in Nat : n = Len(row)
    OBVIOUS
  <1>2. PICK from \in 0..n : from = Index(cs, row) /\ from = Least(cs, n)
    BY <1>1 DEF Index, Least
  <1>3. PICK to \in 0..n :
          to = Greatest(Index(ce, row), from) /\ to = Greatest(Least(ce, n), from)
    BY <1>1, <1>2 DEF Index, Least, Greatest
  <1>4. Part(row, cs, ce) = SubSeq(row, from + 1, to)
    BY <1>2, <1>3 DEF Part
  <1>5. PICK len \in Nat : len = to - from
    BY <1>3 DEF Greatest, Least
  <1>6. Greatest(0, Least(ce, n) - cs) = len
    BY <1>2, <1>3, <1>5 DEF Greatest, Least
  <1>7. \A i \in 1..len : from + i = cs + i
    BY <1>2, <1>3, <1>5 DEF Greatest, Least
  <1>8. PICK under : under = [i \in 1..len |-> row[cs + i]]
    OBVIOUS
  <1>9. \A i \in 1..len : cs + i \in 1..n
    BY <1>2, <1>3, <1>5, <1>7
  <1>10. under \in Seq(Chars) /\ Len(under) = len
    BY <1>1, <1>8, <1>9
  <1>11. /\ SubSeq(row, from + 1, to) \in Seq(Chars)
         /\ Len(SubSeq(row, from + 1, to)) = len
         /\ \A i \in 1..len : SubSeq(row, from + 1, to)[i] = row[from + i]
    <2>1. from + 1 \in 1..(n + 1) /\ to \in 0..n /\ from + 1 <= to + 1
      BY <1>2, <1>3 DEF Greatest, Least
    <2>2. /\ SubSeq(row, from + 1, to) \in Seq(Chars)
          /\ Len(SubSeq(row, from + 1, to)) = to - from
      BY <1>1, <2>1
    <2>3. \A i \in 1..(to - from) : SubSeq(row, from + 1, to)[i] = row[from + i]
      BY <1>1, <2>1
    <2> QED BY <1>5, <2>2, <2>3
  <1>12. \A i \in 1..len : SubSeq(row, from + 1, to)[i] = under[i]
    BY <1>7, <1>8, <1>11
  <1>13. SubSeq(row, from + 1, to) = under
    BY <1>10, <1>11, <1>12, SeqEqual, Zenon
  <1> QED BY <1>1, <1>4, <1>6, <1>8, <1>13

LEMMA BarType ==
  ASSUME TypeOK, NEW i \in DOMAIN highlight
  PROVE  /\ highlight[i] \in Highlighted
         /\ highlight[i].line \in Nat
         /\ highlight[i].col_start \in Int /\ highlight[i].col_end \in Int
  <1>1. highlight[i] \in Highlighted
    BY DEF TypeOK
  <1> QED BY <1>1, SelectionBounds DEF Highlighted, Columns

LEMMA PartsAreUnder ==
  ASSUME TypeOK, PartsOfBars, NEW i \in DOMAIN highlight,
         highlight[i].col_start >= 0, highlight[i].col_end >= 0
  PROVE  selected[i] = Under(highlight[i])
  <1>1. /\ highlight[i].line \in Nat
        /\ highlight[i].col_start \in Nat /\ highlight[i].col_end \in Nat
    BY BarType
  <1>2. text[highlight[i].line + 1] \in Seq(Chars)
    BY <1>1, TextType DEF PartsOfBars
  <1>3. selected[i] = PartUnder(highlight[i])
    BY DEF PartsOfBars
  <1> QED BY <1>1, <1>2, <1>3, PartIsUnder DEF PartUnder, Under

(* What would be copied is what is highlighted on the text that is on the  *)
(* pane now, whatever replaced the text during the drag.                   *)
THEOREM SelectedIsShown == Spec => []SelectedIsHighlighted
  <1>1. ASSUME SelInv PROVE SelectedIsHighlighted
    BY <1>1, PartsAreUnder DEF SelInv, PartsOfBars, SelectedIsHighlighted
  <1> QED BY <1>1, SelInvInit, SelInvStep, PTL DEF Spec

(* A copy takes what is highlighted when it is made, if anything is.       *)
THEOREM CopiesAreShown == Spec => CopiesTheHighlighted
  <1> DEFINE Step ==
        /\ clipboard' # clipboard
        /\ \A i \in DOMAIN highlight :
             highlight[i].col_start >= 0 /\ highlight[i].col_end >= 0
        /\ Highlights
        => clipboard' = [i \in DOMAIN highlight |-> Under(highlight[i])]
  <1>1. ASSUME SelInv, [Next]_vars
        PROVE  [Step]_vars
    <2> DEFINE Bare == [i \in DOMAIN highlight |-> Under(highlight[i])]
    <2> SUFFICES ASSUME clipboard' # clipboard, Next, Highlights,
                        \A i \in DOMAIN highlight :
                          highlight[i].col_start >= 0 /\ highlight[i].col_end >= 0
                 PROVE  clipboard' = Bare
      BY <1>1
    <2>1. selected = Bare
      <3>1. selected = [i \in DOMAIN highlight |-> PartUnder(highlight[i])]
        BY <1>1 DEF SelInv, PartsOfBars
      <3>2. \A i \in DOMAIN highlight : selected[i] = Under(highlight[i])
        BY <1>1, PartsAreUnder DEF SelInv
      <3> QED BY <3>1, <3>2
    <2>2. clipboard' = Copied
      BY DEF Next, SelStart, SelMove, Release, SelectAll, set_terminal_text,
             CopySelection, CopyShortcut
    <2>3. /\ Len(highlight) \in Nat /\ DOMAIN highlight = 1..Len(highlight)
      BY <1>1 DEF SelInv, TypeOK
    <2>4. 1 \in DOMAIN Bare
      BY <2>3 DEF Highlights
    <2>5. Bare # <<>>
      BY <2>4
    <2>6. Bare # << <<>> >>
      <3> SUFFICES ASSUME Bare = << <<>> >> PROVE FALSE
        OBVIOUS
      <3>1. DOMAIN Bare = 1..1 /\ Bare[1] = <<>>
        OBVIOUS
      <3>2. Len(highlight) = 1
        BY <2>3, <3>1
      <3>3. \A i \in DOMAIN highlight : Under(highlight[i]) = <<>>
        BY <2>3, <3>1, <3>2
      <3> QED BY <3>2, <3>3 DEF Highlights
    <2> QED BY <2>1, <2>2, <2>5, <2>6 DEF Copied
  <1> QED BY <1>1, SelInvInit, SelInvStep, PTL DEF Spec, CopiesTheHighlighted

-----------------------------------------------------------------------------
(* What lies between the ends of a drag.                                   *)

(* A line has room for the columns of the mouse, so ranks order positions  *)
(* by line and then by column.                                             *)
LEMMA RankOfLines ==
  ASSUME NEW a \in Nat, NEW b \in Nat, a < b,
         NEW c \in 0..(MaxCol + 1), NEW d \in Nat
  PROVE  a * (MaxCol + 2) + c < b * (MaxCol + 2) + d
  <1>1. PICK m \in Nat : m = MaxCol + 2
    BY SelectionBounds
  <1>2. PICK k \in Nat : b = a + 1 + k
    <2>1. b - a - 1 \in Nat /\ b = a + 1 + (b - a - 1)
      OBVIOUS
    <2> QED BY <2>1
  <1>3. b * m = a * m + m + k * m
    BY <1>2
  <1>4. a * m \in Nat /\ k * m \in Nat
    OBVIOUS
  <1>5. c < m
    BY <1>1, SelectionBounds
  <1>6. a * m + c < b * m + d
    BY <1>3, <1>4, <1>5
  <1> QED BY <1>1, <1>6

LEMMA RankType ==
  ASSUME NEW p \in Position, p.line >= 0, p.col >= 0
  PROVE  /\ p.line \in Nat /\ p.col \in 0..(MaxCol + 1)
         /\ Rank(p) = p.line * (MaxCol + 2) + p.col
         /\ p.line * (MaxCol + 2) \in Nat /\ Rank(p) \in Nat
  <1>1. p.line \in Nat /\ p.col \in 0..(MaxCol + 1)
    BY SelectionBounds DEF Position
  <1>2. MaxCol + 2 \in Nat
    BY SelectionBounds
  <1>3. p.line * (MaxCol + 2) \in Nat
    BY <1>1, <1>2
  <1> QED BY <1>1, <1>3 DEF Rank

LEMMA RankOrder ==
  ASSUME NEW p \in Position, NEW q \in Position, p.line >= 0, q.line >= 0,
         p.col >= 0, q.col >= 0, ~After(p, q)
  PROVE  p.line <= q.line /\ Rank(p) <= Rank(q)
  <1>1. /\ p.line \in Nat /\ p.col \in 0..(MaxCol + 1)
        /\ Rank(p) = p.line * (MaxCol + 2) + p.col
        /\ p.line * (MaxCol + 2) \in Nat /\ Rank(p) \in Nat
    BY RankType
  <1>2. /\ q.line \in Nat /\ q.col \in 0..(MaxCol + 1)
        /\ Rank(q) = q.line * (MaxCol + 2) + q.col
        /\ q.line * (MaxCol + 2) \in Nat /\ Rank(q) \in Nat
    BY RankType
  <1>3. CASE p.line < q.line
    <2>1. q.col \in Nat
      BY <1>2
    <2>2. p.line * (MaxCol + 2) + p.col < q.line * (MaxCol + 2) + q.col
      BY <1>1, <1>2, <1>3, <2>1, RankOfLines
    <2> QED BY <1>1, <1>2, <1>3, <2>2
  <1>4. CASE p.line = q.line
    <2>1. p.col <= q.col
      BY <1>1, <1>2, <1>4 DEF After
    <2>2. PICK x \in Nat : x = p.line * (MaxCol + 2) /\ x = q.line * (MaxCol + 2)
      BY <1>1, <1>4
    <2> QED BY <1>1, <1>2, <1>4, <2>1, <2>2
  <1> QED BY <1>1, <1>2, <1>3, <1>4 DEF After

(* The columns of one line that lie between two ends.                      *)
From(p, line) == IF line = p.line THEN p.col ELSE 0

To(q, line) == IF line = q.line THEN q.col ELSE Cols

LEMMA BetweenColumns ==
  ASSUME NEW p \in Position, NEW q \in Position, p.line >= 0, q.line >= 0,
         p.col >= 0, q.col >= 0, ~After(p, q),
         (start = p /\ end = q) \/ (start = q /\ end = p),
         NEW line \in p.line..q.line, NEW c \in Nat
  PROVE  Between(line, c) <=> From(p, line) <= c /\ c < To(q, line)
  <1>1. /\ p.line \in Nat /\ p.col \in 0..(MaxCol + 1)
        /\ Rank(p) = p.line * (MaxCol + 2) + p.col
        /\ p.line * (MaxCol + 2) \in Nat /\ Rank(p) \in Nat
    BY RankType
  <1>2. /\ q.line \in Nat /\ q.col \in 0..(MaxCol + 1)
        /\ Rank(q) = q.line * (MaxCol + 2) + q.col
        /\ q.line * (MaxCol + 2) \in Nat /\ Rank(q) \in Nat
    BY RankType
  <1>3. p.line <= q.line /\ Rank(p) <= Rank(q)
    BY RankOrder
  <1>4. line \in Nat /\ p.line <= line /\ line <= q.line
    BY <1>1, <1>2
  <1>5. PICK r \in Nat : r = line * (MaxCol + 2) + c
    <2>1. MaxCol + 2 \in Nat
      BY SelectionBounds
    <2>2. line * (MaxCol + 2) \in Nat
      BY <1>4, <2>1
    <2> QED BY <2>2
  <1>6. Rank([line |-> line, col |-> c]) = r
    BY <1>5 DEF Rank
  <1>7. /\ Least(Rank(start), Rank(end)) = Rank(p)
        /\ Greatest(Rank(start), Rank(end)) = Rank(q)
        /\ Greatest(start.line, end.line) = q.line
    BY <1>1, <1>2, <1>3 DEF Least, Greatest
  <1>8. Between(line, c) <=> /\ Rank(p) <= r /\ r < Rank(q)
                             /\ c < Cols \/ line = q.line
    BY <1>6, <1>7 DEF Between
  <1>9. Rank(p) <= r <=> From(p, line) <= c
    <2>1. CASE line = p.line
      <3>1. PICK x \in Nat : x = p.line * (MaxCol + 2) /\ x = line * (MaxCol + 2)
        BY <1>1, <2>1
      <3> QED BY <1>1, <1>5, <2>1, <3>1 DEF From
    <2>2. CASE line # p.line
      <3>1. p.line < line
        <4>1. p.line \in Nat /\ line \in Nat /\ p.line <= line
          BY <1>1, <1>4
        <4> QED BY <2>2, <4>1
      <3>2. p.line * (MaxCol + 2) + p.col < line * (MaxCol + 2) + c
        BY <1>1, <1>4, <3>1, RankOfLines
      <3> QED BY <1>1, <1>5, <2>2, <3>2 DEF From
    <2> QED BY <2>1, <2>2
  <1>10. CASE line = q.line
    <2>1. PICK x \in Nat : x = q.line * (MaxCol + 2) /\ x = line * (MaxCol + 2)
      BY <1>2, <1>10
    <2>2. r < Rank(q) <=> c < q.col
      BY <1>2, <1>5, <2>1
    <2> QED BY <1>8, <1>9, <1>10, <2>2 DEF To
  <1>11. CASE line # q.line
    <2>1. line < q.line
      BY <1>2, <1>4, <1>11
    <2>2. c < Cols => r < Rank(q)
      <3> SUFFICES ASSUME c < Cols PROVE r < Rank(q)
        OBVIOUS
      <3>1. c \in 0..(MaxCol + 1) /\ q.col \in Nat
        BY <1>2, SelectionBounds
      <3>2. line * (MaxCol + 2) + c < q.line * (MaxCol + 2) + q.col
        BY <1>2, <1>4, <2>1, <3>1, RankOfLines
      <3> QED BY <1>2, <1>5, <3>2
    <2> QED BY <1>8, <1>9, <1>11, <2>2 DEF To
  <1> QED BY <1>10, <1>11

(* The part under a bar is what the definition of the selection picks on   *)
(* that line.                                                              *)
LEMMA PartIsPicked ==
  ASSUME NEW line, NEW row \in Seq(Chars), row = text[line + 1],
         NEW cs \in Nat, NEW ce \in Nat,
         \A c \in Nat : Between(line, c) <=> cs <= c /\ c < ce
  PROVE  Picked(Part(row, cs, ce), line)
  <1> DEFINE cols == {c \in 0..(Len(row) - 1) : Between(line, c)}
  <1>1. PICK len \in Nat : len = Len(row)
    OBVIOUS
  <1>2. PICK n \in Nat : n = Greatest(0, Least(ce, len) - cs)
    <2>1. Greatest(0, Least(ce, len) - cs) \in Nat
      BY DEF Greatest, Least
    <2> QED BY <2>1
  <1>3. Part(row, cs, ce) = [i \in 1..n |-> row[cs + i]]
    BY <1>1, <1>2, PartIsUnder
  <1>4. \A c \in Nat : c \in cs..(cs + n - 1) <=> cs <= c /\ c < ce /\ c < len
    BY <1>2 DEF Greatest, Least
  <1>5. cols = cs..(cs + n - 1)
    <2>1. \A c \in cols : c \in cs..(cs + n - 1)
      BY <1>1, <1>4
    <2>2. \A c \in cs..(cs + n - 1) : c \in Nat
      OBVIOUS
    <2>3. \A c \in cs..(cs + n - 1) : c \in cols
      BY <1>1, <1>4, <2>2
    <2> QED BY <2>1, <2>3
  <1>6. Cardinality(cols) = n
    <2>1. cs \in Int /\ cs + n - 1 \in Int
      OBVIOUS
    <2>2. Cardinality(cs..(cs + n - 1))
            = IF cs > cs + n - 1 THEN 0 ELSE cs + n - 1 - cs + 1
      BY <2>1, FS_Interval
    <2>3. (IF cs > cs + n - 1 THEN 0 ELSE cs + n - 1 - cs + 1) = n
      OBVIOUS
    <2> QED BY <1>5, <2>2, <2>3
  <1>7. PICK f : f = [i \in 1..n |-> cs + i - 1]
    OBVIOUS
  <1>8. f \in [1..n -> cs..(cs + n - 1)]
    BY <1>7
  <1>9. \A i, j \in DOMAIN f : i < j => f[i] < f[j]
    BY <1>7
  <1>10. Part(row, cs, ce) = [i \in DOMAIN f |-> row[f[i] + 1]]
    <2>1. \A i \in 1..n : f[i] + 1 = cs + i
      BY <1>7
    <2>2. DOMAIN f = 1..n
      BY <1>7
    <2> QED BY <1>3, <2>1, <2>2
  <1> HIDE DEF cols
  <1>11. f \in [1..Cardinality(cols) -> cols]
    BY <1>5, <1>6, <1>8
  <1>12. \E g \in [1..Cardinality(cols) -> cols] :
           /\ \A i, j \in DOMAIN g : i < j => g[i] < g[j]
           /\ Part(row, cs, ce) = [i \in DOMAIN g |-> row[g[i] + 1]]
    BY <1>9, <1>10, <1>11
  <1> QED BY <1>12 DEF Picked, cols

(* The bars from p to q select what lies between them.                     *)
LEMMA BarsPick ==
  ASSUME TypeOK, PartsOfBars, NEW p \in Position, NEW q \in Position,
         OnText(p), OnText(q), ~After(p, q), highlight = Bars(p, q),
         (start = p /\ end = q) \/ (start = q /\ end = p)
  PROVE  /\ Len(selected) = q.line - p.line + 1
         /\ \A i \in 1..(q.line - p.line + 1) : Picked(selected[i], p.line + i - 1)
  <1>1. /\ p.line \in Nat /\ q.line \in Nat /\ p.line <= q.line
        /\ q.line < Len(text) /\ p.col \in Nat /\ q.col \in Nat
        /\ Len(text) \in Nat /\ text # <<>>
    <2>1. Len(text) \in Nat /\ p.line \in 0..(Len(text) - 1)
          /\ q.line \in 0..(Len(text) - 1) /\ p.col >= 0 /\ q.col >= 0
      BY TextType DEF OnText
    <2>2. p.col \in Int /\ q.col \in Int
      BY DEF Position
    <2>3. Len(text) > 0
      BY <2>1
    <2>4. text # <<>>
      BY <2>3, TextType
    <2> QED BY <2>1, <2>2, <2>4 DEF After
  <1>2. Top(p) = p.line /\ Top(q) = q.line
    BY <1>1 DEF Top, Least
  <1>3. /\ highlight \in Seq(Highlighted)
        /\ Len(highlight) = q.line - p.line + 1
        /\ \A i \in 1..(q.line - p.line + 1) :
             highlight[i] = Bar(p, q, p.line + i - 1)
    BY <1>1, <1>2, BarsShape
  <1>4. Len(selected) = q.line - p.line + 1
    BY <1>3 DEF TypeOK
  <1>5. ASSUME NEW i \in 1..(q.line - p.line + 1)
        PROVE  Picked(selected[i], p.line + i - 1)
    <2>1. PICK line \in p.line..q.line : line = p.line + i - 1
      BY <1>1
    <2>2. PICK cs \in Nat, ce \in Nat : cs = From(p, line) /\ ce = To(q, line)
      BY <1>1, SelectionBounds DEF From, To
    <2>3. /\ highlight[i].line = line /\ highlight[i].col_start = cs
          /\ highlight[i].col_end = ce
      <3>1. highlight[i] = Bar(p, q, line)
        BY <1>3, <2>1
      <3>2. Bar(p, q, line) = [line |-> line, col_start |-> cs, col_end |-> ce]
        BY <1>2, <2>2 DEF Bar, From, To
      <3> QED BY <3>1, <3>2
    <2>4. i \in DOMAIN highlight
      BY <1>3
    <2>5. selected[i] = Part(text[line + 1], cs, ce)
      BY <2>3, <2>4 DEF PartsOfBars, PartUnder
    <2>6. line + 1 \in 1..Len(text)
      BY <1>1
    <2>7. PICK row \in Seq(Chars) : row = text[line + 1]
      BY <2>6, TextType
    <2>8. \A c \in Nat : Between(line, c) <=> cs <= c /\ c < ce
      BY <1>1, <2>2, BetweenColumns
    <2>9. Picked(Part(row, cs, ce), line)
      BY <2>7, <2>8, PartIsPicked
    <2> QED BY <2>1, <2>5, <2>7, <2>9
  <1> QED BY <1>4, <1>5

(* A drag selects everything between its ends and nothing else, whichever  *)
(* way the mouse went.                                                     *)
THEOREM DragsSelectBetween == Spec => []DragSelectsBetween
  <1>1. ASSUME SelInv PROVE DragSelectsBetween
    <2> SUFFICES ASSUME OnText(start), OnText(end)
                 PROVE  LET top == Least(start.line, end.line)
                            lines == Greatest(start.line, end.line) - top + 1
                        IN  /\ Len(selected) = lines
                            /\ \A i \in 1..lines :
                                 Picked(selected[i], top + i - 1)
      BY DEF DragSelectsBetween
    <2>1. /\ TypeOK /\ PartsOfBars /\ start \in Position /\ end \in Position
          /\ start.line \in Int /\ end.line \in Int
      BY <1>1 DEF SelInv, TypeOK, Position
    <2>2. start.col \in Int /\ end.col \in Int
      BY <2>1 DEF Position
    <2>3. highlight = BarsOfDrag(start, end)
      <3>1. Len(text) \in Nat /\ start.line >= 0 /\ end.line >= 0 /\ Len(text) > 0
        BY <2>1, TextType DEF OnText
      <3>2. text # <<>>
        BY <2>1, <3>1, TextType
      <3> QED BY <1>1, <3>1, <3>2 DEF SelInv, BarsAreTheDrag
    <2>4. CASE After(start, end)
      <3>1. ~After(end, start) /\ highlight = Bars(end, start)
        BY <2>1, <2>2, <2>3, <2>4 DEF After, BarsOfDrag
      <3>2. /\ Len(selected) = start.line - end.line + 1
            /\ \A i \in 1..(start.line - end.line + 1) :
                 Picked(selected[i], end.line + i - 1)
        BY <2>1, <3>1, BarsPick
      <3>3. /\ Least(start.line, end.line) = end.line
            /\ Greatest(start.line, end.line) = start.line
        BY <2>1, <2>4 DEF After, Least, Greatest
      <3> QED BY <3>2, <3>3
    <2>5. CASE ~After(start, end)
      <3>1. highlight = Bars(start, end)
        BY <2>3, <2>5 DEF BarsOfDrag
      <3>2. /\ Len(selected) = end.line - start.line + 1
            /\ \A i \in 1..(end.line - start.line + 1) :
                 Picked(selected[i], start.line + i - 1)
        BY <2>1, <2>5, <3>1, BarsPick
      <3>3. /\ Least(start.line, end.line) = start.line
            /\ Greatest(start.line, end.line) = end.line
        BY <2>1, <2>5 DEF After, Least, Greatest
      <3> QED BY <3>2, <3>3
    <2> QED BY <2>4, <2>5
  <1> QED BY <1>1, SelInvInit, SelInvStep, PTL DEF Spec
=============================================================================
