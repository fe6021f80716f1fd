CONSTANTS
  Users = {u1, u2}
  Devices = {d1, d2}
  Slots = {1}
  Forms = {"password", "no password", "passphrase", "no passphrase"}
  MaxChanges = 1
  MaxClock = 0
  MaxSignIns = 3
  MaxFaults = 1
SPECIFICATION Spec
SYMMETRY Symmetry
INVARIANTS TypeOK LinksResolve RoundTrip EveryRowOpens
