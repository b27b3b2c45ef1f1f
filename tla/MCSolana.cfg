SPECIFICATION SolanaSpec
CONSTANTS
  MaxGames = 2
  MaxPays = 2
  Travellers = {t1, t2}
  RoomIds <- TwoRooms
  RoomIdLen = 2
  MaxWinners = 2
  EndpointCount = 2
  MaxAttempts = 2
  MaxSends = 2
  MaxPolls = 1
  Callers = {k1, k2, k3}
  FailureThreshold = 2
  Window = 2
  Cooldown = 2
  SuccessThreshold = 2
  MaxLasting = 2
  Texts <- FewTexts
  Decimals = 2
  MinLamports = 1
  ReviewThreshold = 100
  OpeningLamports = 10
  Flows = {f1, f2}
  MaxIntents = 2
INVARIANTS CallsFitProgram SendInv FeeInv PanelInv
PROPERTIES HalfOpenIsCareful Recovers
CHECK_DEADLOCK FALSE
