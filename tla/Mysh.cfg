CONSTANTS
  Pids = {1, 2, 3, 4}
  Sockets = {1, 2, 3, 4}
  Shell = 1
  Sessions = {{"kill"}, {"fork", "kill"}, {"exec", "fork", "kill"}, {"large", "kill"}, {"term", "kill"}, {"overlap"}}
CHECK_DEADLOCK FALSE
SPECIFICATION FairSpec
INVARIANTS
  JobTracked
  KillsOwnJob
  NoZombieAtExit
  PromptHasTerminal
  SecondWaitsInCalm
  WiredToItself
PROPERTY CommandReturns
