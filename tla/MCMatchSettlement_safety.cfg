SPECIFICATION Spec
CONSTANTS
  p1 = p1
  p2 = p2
  p3 = p3
  Entered = {p1, p2}
  Winner = p1
  Fee = 10
  RakeBps = 1000
  Custodians = {p1, p2}
  Setups <- MCSafety
  Passes = {a1}
  Cycles = {c1}
  Admins = {m1}
  EndMatchAttempts = 2
  MaxFaults = 1
  MaxCrashes = 1
  MaxAdmin = 1
INVARIANT SettlementInv
PROPERTY NoRefundAfterPayout
CHECK_DEADLOCK FALSE
