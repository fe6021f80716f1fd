CONSTANTS
  Sizes = {small, large}
  MaxSessions = 3
  MaxEvents = 2
SPECIFICATION Spec
SYMMETRY Symmetry
INVARIANTS TypeOK TabsAreSessions PaneShowsActive SizeOnItsWay KeysGoWhereShown
PROPERTIES ActiveFollows
