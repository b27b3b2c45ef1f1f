SPECIFICATION FairSpec
CONSTANTS
  p1 = p1
  p2 = p2
  p3 = p3
  Entered = {p1, p2}
  Winner = p1
  Fee = 10
  RakeBps = 1000
  Custodians = {p1, p2}
  Setups <- MCTwoMishaps
  Passes = {a1}
  Cycles = {c1}
  Admins = {}
  EndMatchAttempts = 2
  MaxFaults = 0
  MaxCrashes = 2
  MaxAdmin = 0
PROPERTY ReportIsHonoured
CHECK_DEADLOCK FALSE
