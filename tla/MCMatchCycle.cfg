SPECIFICATION FairSpec
CONSTANTS
  Windows = 1
  MaxGames = 4
  MaxWorkers = 2
  MinPlayers = 1
  MaxQueue = 1
  Attempts = 2
  MaxEvents = 2
  MaxFaults = 1
INVARIANT CycleInv
PROPERTIES RunningEnds QueuedCanPay
