SPECIFICATION PlaySpec
CONSTANTS
  Owners = {p1, p2}
  StartMass = 3
  MinBoostMass = 2
  Spacing = 2
  BaseSpeed = 1
  BoostSpeed = 3
  DrainUnit = 2
  BaseLength = 1
  MaxLength = 4
  SpineCapacity = 5
  DropMass = 2
  MinDrops = 1
  MaxDrops = 2
  TargetFood = 1
  FoodBudget = 1
  FoodLife = 1
  SweepEvery = 2
  MaxTick = 4
  MaxId = 4
  MaxQueue = 1
  MaxSeq = 1
  BufferSize = 2
  MaxPending = 1
  MaxJump = 1
  Burst = 2
  Refill = 1
  Suspicious = 4
  MaxMounts = 2
  MaxSockets = 2
  MaxCommands = 3
  MaxClock = 2
  MaxFlight = 1
  CellSize = 2
  Extent = 3
  Radii = {0, 1, 2}
  Things = {a, b}
  Addresses = {addr}
  Limited = {chat}
  Unlimited = {other}
  AddressBurst = 2
  EventBurst = 1
  Cost = 2
  IdleTtl = 1
  MaxNow = 5
  MaxAdmitted = 3
  MaxSnakes = 2
  MaxPoints = 1
  MaxPellets = 1
  MaxRemoved = 1
  MaxChars = 1
  Half = 1
  Reach = 1
INVARIANTS SimInv QueryFindsAll WindowIsBounded SnapshotSurvives ClientInv
PROPERTY LeavingFreesSeat
CHECK_DEADLOCK FALSE
