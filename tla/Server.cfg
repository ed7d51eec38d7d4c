SPECIFICATION Spec
CONSTANTS
  Files <- SmallFiles
  Envs <- AllEnvs
  Stamps = {1, 2, 3, 4, 5}
  Others = {notes}
  KeepLogs = 2
  LinkRows = {"link"}
  MaxSessions = 1
INVARIANTS SettingsByPrecedence LinksSurviveUpgrade
PROPERTIES RotationKeepsNewest ServerEnds
