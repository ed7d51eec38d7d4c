SPECIFICATION Spec
CONSTANTS
  Clients = {c1, c2}
  Personas = {"a", "a_b"}
  Names = {"ghost7", "ghost9"}
  Bodies = {1, 2}
  Shadows <- OneShadow
  Underscored <- OneUnderscore
  FileOrder <- ByFileName
  MaxList = 1
  Uploads <- Ghosts
  Requests <- Questions
  Tags <- OneTag
SYMMETRY Symmetry
INVARIANTS DownloadIsLastUpload OwnGhostFirst NotFoundIsTrue ListingIsTrue
