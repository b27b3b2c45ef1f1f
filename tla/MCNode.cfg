SPECIFICATION NodeSpec
CONSTANTS
  Clients = {c1, c2}
  Nodes = {n1, n2}
  MaxRoomsPerNode = 2
  Strategy = "best-fit"
  InRegion = {n1}
  MaxPlacements = 2
  MaxLaunches = 2
  MaxLapses = 1
  MaxBegun = 4
  Players = {p1, p2, p3}
  MaxPlayers = 2
  Grace = 1
  MaxSockets = 3
  MaxRespawns = 1
  MaxFails = 1
INVARIANTS PlaceInv ResultInv
PROPERTIES LiveNodeListed RoomFinishes
CHECK_DEADLOCK FALSE
