CONSTANTS
  long = long
  short = short
  Addrs = {long, short}
  Ends <- MCEnds
  Keys = {k1, k2}
  Damaged = damaged
  Conns = {c1, c2}
  MaxConnects = 4
  MaxFaults = 1
SPECIFICATION Spec
SYMMETRY Symmetry
INVARIANTS TypeOK TofuWithoutOverlap RefusalHasCause
