SPECIFICATION Spec
CONSTANTS
  Free = Free
  Paid = Paid
  Null = Null
  Unlimited = Unlimited
  Players = {p1, p2}
  Tiers = {Paid}
  PaidTiers = {Paid}
  MinPlayers <- MCMinPlayers
  MaxPlayers <- MCTwoSeats
  Countdown <- MCCountdown
  ReadyCountdown <- MCReadyCountdown
  Games = {g1}
  Tickers = {k1}
  Handlers = {h1}
  Jobs = {w1}
  JobEvents = {"open", "close", "reset"}
  Scheduled = {FALSE}
  MAX_CAS_ATTEMPTS = 2
  MaxRequests = 6
  MaxCrashes = 1
SYMMETRY Symmetry
INVARIANT LobbyInv
