SPECIFICATION AccessSpec
CONSTANTS
  Wallets = {w1}
  NoWallet = NoWallet
  OtherWallets = {w9}
  MaxRequests = 3
  MaxChanges = 2
  MaxBegun = 7
  AccessTtl = 2
  NonceTtl = 1
  FailureWindow = 1
  MaxFailures = 2
  MaxFaults = 1
  MaxLaunches = 2
INVARIANTS SessionInv  OneTicket
PROPERTIES RefusedStaysRefused LockoutEnds SeatIsTaken
CHECK_DEADLOCK FALSE
