SPECIFICATION FairSpec
CONSTANTS
  Free = Free
  Paid = Paid
  Null = Null
  Unlimited = Unlimited
  Players = {p1, p2}
  Tiers = {Paid}
  PaidTiers = {Paid}
  MinPlayers <- MCMinPlayers
  MaxPlayers <- MCUnlimited
  Countdown <- MCCountdown
  ReadyCountdown <- MCReadyCountdown
  Games = {g1}
  Tickers = {k1}
  Handlers = {h1}
  Jobs = {w1}
  JobEvents = {"open", "reset"}
  Scheduled = {FALSE}
  MAX_CAS_ATTEMPTS = 2
  MaxRequests = 5
  MaxCrashes = 0
PROPERTY NeverStuck
