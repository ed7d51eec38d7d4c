SPECIFICATION LSpec
CONSTANTS
  Pids = {1, 2}
  MaxPosted = 3
INVARIANTS StatusIsEarned
PROPERTIES GameIsServed
