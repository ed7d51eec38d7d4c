SPECIFICATION Spec
CONSTANTS
  Patches <- SomePatches
  Threads = {t1, t2}
  Handles = {1, 2}
  MaxAttempts = 2
  MaxWarnings = 1
  MaxSessions = 2
CHECK_DEADLOCK FALSE
INVARIANTS LogTellsUnlessShared
PROPERTIES CallsCrashOnlyWhilePatching SessionIsRedirected
