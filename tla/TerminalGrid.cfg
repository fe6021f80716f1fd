CONSTANTS
  Glyphs = {"x"}
  Widths = {1, 2}
  Heights = {1, 2}
  Numbers = {0, 2, 257, 258}
  IntMax = 257
  TabStop = 2
  MaxRows = 1
  MaxParams = 3
  MaxLine = 2
  Bytes = {65, 159, 192, 195, 224, 226, 240, 248}
  Scalars = {65, 223, 10207, 128991}
  MaxBytes = 4
SPECIFICATION BufferSpec
CHECK_DEADLOCK FALSE
INVARIANTS TypeOK ScreenIsExact CutsDoNotMatter TextArrives DamageIsBounded
PROPERTIES HistoryScrollsOff ResizeKeepsCursorLine
