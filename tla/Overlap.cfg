CONSTANTS
  Users = {u1}
  Devices = {d1}
  Slots = {1, 2}
  Forms = {"passphrase"}
  MaxChanges = 2
  MaxClock = 1
  MaxSignIns = 2
  MaxFaults = 1
SPECIFICATION FairSpec
INVARIANTS KeysUnique BusyHasCause
PROPERTIES BusyClears
