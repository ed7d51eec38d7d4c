SPECIFICATION Spec
CONSTANTS
  Writers = {w1, w2}
  Readers = {r}
  Queries = {"stats", "top"}
  OwnerLists <- OwnersMixed
  Personas = {p}
  Players = {h}
  Periods = {"week"}
  Dated = {"week"}
  Times = {1, 2}
  Updates <- TimeAndTag
  MaxRows = 100
  CutoffRank = 1
SYMMETRY Symmetry
INVARIANTS GhostBelongsToTime
