SPECIFICATION BooksSpec
CONSTANTS
  Deposits = {d1}
  Withdrawals = {w1, w2}
  Tiers = {t1}
  entryFeeLamports <- MCFees
  Signatures = {"in", "out"}
  Transaction <- MCTransaction
  Amounts = {50, 100}
  MinLamports = 50
  ReviewThreshold = 100
  FeeBps = 200
  Opening = 100
  Clients = {c1, c2}
  Reconcilers = {r1}
  None = None
  Orphan = Orphan
  MaxRequests = 2
  MaxMishaps = 2
  Admins = {1, 2}
  Corrections = {k1, k2}
  Deltas <- UpAndDown
  OpeningBalance = 1
  MaxEntries = 1
  Times = {1, 2}
  MaxRows = 3
  PageLimit = 1
  ScanFactor = 1
INVARIANTS CustodyInv AdjustmentsHold PagesComplete
PROPERTY WithdrawalEnds
CHECK_DEADLOCK FALSE
