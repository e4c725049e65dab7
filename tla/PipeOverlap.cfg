CONSTANTS
  Pids = {1, 2, 3, 4}
  Sockets = {1, 2, 3, 4}
  Shell = 1
  Sessions = {{"overlap"}}
CHECK_DEADLOCK FALSE
SPECIFICATION Spec
INVARIANT SecondWaitsForFirst
