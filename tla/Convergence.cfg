CONSTANTS
  Users = {u1}
  Devices = {d1, d2}
  Slots = {1}
  Forms = {"no passphrase"}
  MaxChanges = 2
  MaxClock = 1
  MaxSignIns = 2
  MaxFaults = 0
SPECIFICATION FairSpec
PROPERTIES TimestampsConverge
