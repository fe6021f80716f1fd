CONSTANTS
  a = a
  b = b
  c = c
  Chars = {a, b, c}
  Texts <- MCTexts
  Cols = 2
  MaxCol = 3
  MaxLine = 3
SPECIFICATION Spec
INVARIANTS TypeOK SelectedIsHighlighted DragSelectsBetween
PROPERTIES CopiesTheHighlighted
