\* One main, four testers.  The test ends, so the system stops.
CONSTANTS
  MainThread = main
  Testers = {t1, t2, t3, t4}
CHECK_DEADLOCK FALSE
SPECIFICATION TestFairSpec
INVARIANTS
  HoldAccounted
  AssertionsHold
PROPERTY
  TesterEnds
