CONSTANTS
  long = long
  short = short
  Addrs = {long, short}
  Ends <- MCEnds
  Keys = {k1, k2}
  Damaged = damaged
  Conns = {c1, c2}
  MaxConnects = 3
  MaxFaults = 0
SPECIFICATION Spec
SYMMETRY Symmetry
PROPERTIES LaterConnectsFindKey
