SPECIFICATION FairSpec
CONSTANTS
  Players = {p1, p2}
  Keys = {k1}
  Rooms = {r1}
  EntryFees = {50}
  Capacities = {2}
  FeeBps = {1000, 125}
  WithdrawalFeeBps = {200}
  Amounts = {40, 50, 90}
  InitialLamports = 50
  RENT = 1
  MIN_DEPOSIT_LAMPORTS = 2
  MIN_WITHDRAWAL_LAMPORTS = 2
  MIN_ENTRY_FEE_LAMPORTS = 2
  PERMISSIONLESS_CANCEL_DELAY = 1
  MaxTime = 1
  VaultsOwnedBy = "Program"
  NoKey = NoKey
INVARIANT ArenaInv
INVARIANT RoomBooksAgree
INVARIANT PaidXorRefunded
PROPERTY OnlySettlementCosts
PROPERTY StakeComesBack
PROPERTY ImplementsEscrow
