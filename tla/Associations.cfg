SPECIFICATION Spec
CONSTANTS
  Sessions = {s1, s2}
  MaxPersona = 2
  AccountIds = {2}
  HistoricalIds = {9}
  WireOwners = {0, 1, 2}
  WireMembers = {1, 2, 9}
  MaxBatch = 2
SYMMETRY Symmetry
INVARIANTS FriendsValid AcceptedEntriesHold
PROPERTIES OnlyOwnList
