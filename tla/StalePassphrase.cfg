CONSTANTS
  Users = {u1}
  Devices = {d1, d2}
  Slots = {1}
  Forms = {"passphrase"}
  MaxChanges = 2
  MaxClock = 1
  MaxSignIns = 2
  MaxFaults = 0
SPECIFICATION Spec
PROPERTIES PassphrasesKeepLastWrite
