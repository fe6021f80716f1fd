CONSTANTS
  Names = {n1, n2}
  Passwords = {p1, p2}
  Devices = {d1, d2}
  Secrets = {7}
  Ttls = {0, 15}
  I64Max = 7
  MaxTtl = 3
  Leeway = 1
  MaxRequests = 3
  MaxStarts = 2
  MaxTime = 2
SPECIFICATION Spec
SYMMETRY Symmetry
INVARIANTS TypeOK BearerIsOwner AccessIsRecent KeyOfTheAccount
PROPERTIES AccountsAreStable
