CONSTANTS
  Glyphs = {"x"}
  Widths = {2, 3}
  Heights = {1, 2}
  Numbers = {0, 1, 2}
  IntMax = 257
  TabStop = 2
  MaxRows = 1
  MaxParams = 1
  MaxLine = 3
  Bytes = {65, 195}
  Scalars = {}
  MaxBytes = 2
SPECIFICATION BufferSpec
CHECK_DEADLOCK FALSE
INVARIANTS CallsReturn
