SPECIFICATION Spec
CONSTANTS
  Writers = {w}
  Readers = {r}
  Queries = {"stats", "ranked", "top"}
  OwnerLists <- OwnersSingle
  Personas = {p1, p2}
  Players = {h}
  Periods = {"all"}
  Dated = {}
  Times <- Numbers
  Updates <- TimeAlone
  MaxRows = 1
  CutoffRank = 2
SYMMETRY Symmetry
INVARIANTS RankedAnswerMatchesBoard PageRanksAreRanks
PROPERTIES LinksOnlyRegroup
