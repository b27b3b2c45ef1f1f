------------------------- MODULE ArenaProgramProofs -------------------------
(***************************************************************************)
(* Proofs about ArenaProgram, for any number of players and rooms and any  *)
(* amounts: the inductive invariant IInv and the safety properties that    *)
(* follow from it; then, with EInv, that the program implements Escrow.    *)
(***************************************************************************)
EXTENDS ArenaEscrow, SumsProofs

(***************************************************************************)
(* The inductive invariant.  RoomInv(q) is what holds of a single room:    *)
(* its vault matches its counters, its counters match its entry records,   *)
(* and the states its entry records may be in follow from its status.      *)
(***************************************************************************)

VaultInv(q) ==
  /\ Live(q) => vault[q] = RENT + room[q].totalLocked
  /\ Status(q) = "Settled" => vault[q] = RENT
  /\ Status(q) = "Absent" => vault[q] = 0

StakeInv(q) ==
  Live(q) =>
    /\ room[q].totalLocked = room[q].entryFee * Cardinality(LockedPlayers(q))
    /\ \A p \in LockedPlayers(q) : seat[q][p].lockedAmount = room[q].entryFee

CounterInv(q) ==
  Status(q) \in {"Open", "InProgress", "Unlocked"} =>
    /\ room[q].playerCount = Cardinality(SeatedPlayers(q))
    /\ room[q].lockedCount = Cardinality(LockedPlayers(q))
    /\ Status(q) # "Open" => LockedPlayers(q) = SeatedPlayers(q)

SplitInv(q) ==
  /\ room[q].feeBps <= MAX_FEE_BPS
  /\ Status(q) = "Unlocked" =>
       /\ room[q].prizePool + room[q].rakeAmount = room[q].totalLocked
       /\ room[q].rakeAmount * BPS_DENOMINATOR <= room[q].totalLocked * room[q].feeBps

SeatInv(q) ==
  /\ \A p \in Players :
       /\ Status(q) \in {"Open", "InProgress", "Unlocked"} =>
            State(q, p) \notin {"Paid", "Refunded"}
       /\ Status(q) = "Cancelled" => State(q, p) # "Paid"
       /\ Status(q) = "Settled" => State(q, p) # "Refunded"
  /\ \A p1, p2 \in Players : ~(State(q, p1) = "Paid" /\ State(q, p2) = "Refunded")

RoomInv(q) ==
  VaultInv(q) /\ StakeInv(q) /\ CounterInv(q) /\ SplitInv(q) /\ SeatInv(q)

ConfigInv ==
  config.feeBps <= MAX_FEE_BPS /\ config.withdrawalFeeBps <= MAX_WITHDRAWAL_FEE_BPS

IInv ==
  /\ TypeOK
  /\ ConfigInv
  /\ PoolSolvent
  /\ \A q \in Rooms : RoomInv(q)

-----------------------------------------------------------------------------
(* A cut of at most the whole is a natural number no larger than the       *)
(* amount it is taken from, and it is rounded down (apply_bps).            *)
LEMMA BpsBound ==
  ASSUME NEW amount \in Nat, NEW bps \in Nat, bps <= 1000
  PROVE  /\ apply_bps(amount, bps) \in Nat
         /\ apply_bps(amount, bps) <= amount
         /\ apply_bps(amount, bps) * BPS_DENOMINATOR <= amount * bps
<1>1. amount * bps \in Nat /\ amount * bps <= amount * 1000
  OBVIOUS
<1> DEFINE product == amount * bps
<1>2. product \in Nat /\ product <= amount * 1000
  BY <1>1
<1> HIDE DEF product
<1>3. /\ product \div 10000 \in Nat
      /\ product \div 10000 <= amount
      /\ (product \div 10000) * 10000 <= product
  BY <1>2
<1>4. QED BY <1>3 DEF apply_bps, BPS_DENOMINATOR, product

(* The players with a given kind of record form a finite set. *)
LEMMA FiniteSeats ==
  ASSUME NEW q \in Rooms
  PROVE  /\ IsFiniteSet(LockedPlayers(q)) /\ Cardinality(LockedPlayers(q)) \in Nat
         /\ IsFiniteSet(SeatedPlayers(q)) /\ Cardinality(SeatedPlayers(q)) \in Nat
<1>1. LockedPlayers(q) \in SUBSET Players /\ SeatedPlayers(q) \in SUBSET Players
  BY DEF LockedPlayers, SeatedPlayers
<1>2. IsFiniteSet(LockedPlayers(q)) /\ IsFiniteSet(SeatedPlayers(q))
  BY <1>1, ConstantsAssumption, FS_Subset
<1>3. QED BY <1>2, FS_CardinalityType

(* A step that leaves a room's accounts alone leaves its invariant alone. *)
LEMMA RoomFrame ==
  ASSUME NEW q \in Rooms, RoomInv(q),
         room'[q] = room[q], seat'[q] = seat[q], vault'[q] = vault[q]
  PROVE  RoomInv(q)'
<1>1. LockedPlayers(q)' = LockedPlayers(q) /\ SeatedPlayers(q)' = SeatedPlayers(q)
  BY DEF LockedPlayers, SeatedPlayers, State
<1>2. VaultInv(q)'
  BY DEF RoomInv, VaultInv, Live, Status
<1>3. StakeInv(q)'
  BY <1>1 DEF RoomInv, StakeInv, Live, Status
<1>4. CounterInv(q)'
  BY <1>1 DEF RoomInv, CounterInv, Status
<1>5. SplitInv(q)'
  BY DEF RoomInv, SplitInv, Status
<1>6. SeatInv(q)'
  BY DEF RoomInv, SeatInv, Status, State
<1>7. QED BY <1>2, <1>3, <1>4, <1>5, <1>6 DEF RoomInv

(* IInv holds once initialize has run. *)
LEMMA InitInv == Init => IInv
<1> SUFFICES ASSUME Init PROVE IInv
  OBVIOUS
<1> USE ConstantsAssumption
<1>1. TypeOK
  BY DEF Init, TypeOK, Config, RoomAccount, RoomPlayer, NoRoom, NoSeat, RoomStatus,
         PlayerRoomState
<1>2. ConfigInv
  BY DEF Init, ConfigInv
<1>3. PoolSolvent
  BY TotalZero DEF Init, PoolSolvent
<1>4. ASSUME NEW q \in Rooms PROVE RoomInv(q)
  BY DEF Init, RoomInv, VaultInv, StakeInv, CounterInv, SplitInv, SeatInv, Live, Status,
         State, NoRoom, NoSeat, MAX_FEE_BPS
<1>5. QED BY <1>1, <1>2, <1>3, <1>4 DEF IInv

-----------------------------------------------------------------------------
(* Steps that touch no room: administration, custody and the clock.        *)

LEMMA NoRoomTouched ==
  ASSUME IInv, UNCHANGED rooms
  PROVE  \A q \in Rooms : RoomInv(q)'
BY RoomFrame DEF IInv, rooms

(* update_config, transfer_admin and accept_admin only write the Config    *)
(* account, and both fees stay under their caps.                           *)
LEMMA ConfigSteps ==
  ASSUME IInv, UNCHANGED <<wallet, custody, rooms, treasury, clock>>,
         config' \in Config, ConfigInv'
  PROVE  IInv'
<1>1. TypeOK'
  BY DEF IInv, TypeOK, custody, rooms
<1>2. PoolSolvent'
  BY DEF IInv, PoolSolvent, custody
<1>3. QED BY <1>1, <1>2, NoRoomTouched DEF IInv

LEMMA AdminSteps ==
  ASSUME IInv, AdminStep
  PROVE  IInv'
<1> USE ConstantsAssumption DEF TypeOK, Config
<1>1. PICK k \in Keys :
        \/ \E bps \in FeeBps : UpdateFee(k, bps)
        \/ \E bps \in WithdrawalFeeBps : UpdateWithdrawalFee(k, bps)
        \/ \E key \in Keys : UpdateSettlementAuthority(k, key)
        \/ \E key \in Keys : UpdateFeeDestination(k, key)
        \/ \E paused \in BOOLEAN : UpdatePaused(k, paused)
        \/ \E key \in Keys : TransferAdmin(k, key)
        \/ AcceptAdmin(k)
        \/ \E key \in Keys, amount \in Amounts : WithdrawTreasury(k, key, amount)
  BY DEF AdminStep
<1>2. CASE \E bps \in FeeBps : UpdateFee(k, bps)
  <2>1. config' \in Config /\ ConfigInv'
    BY <1>2 DEF UpdateFee, SetConfig, IInv, ConfigInv
  <2>2. QED BY <1>2, <2>1, ConfigSteps DEF UpdateFee, SetConfig
<1>3. CASE \E bps \in WithdrawalFeeBps : UpdateWithdrawalFee(k, bps)
  <2>1. config' \in Config /\ ConfigInv'
    BY <1>3 DEF UpdateWithdrawalFee, SetConfig, IInv, ConfigInv
  <2>2. QED BY <1>3, <2>1, ConfigSteps DEF UpdateWithdrawalFee, SetConfig
<1>4. CASE \E key \in Keys : UpdateSettlementAuthority(k, key)
  <2>1. config' \in Config /\ ConfigInv'
    BY <1>4 DEF UpdateSettlementAuthority, SetConfig, IInv, ConfigInv
  <2>2. QED BY <1>4, <2>1, ConfigSteps DEF UpdateSettlementAuthority, SetConfig
<1>5. CASE \E key \in Keys : UpdateFeeDestination(k, key)
  <2>1. config' \in Config /\ ConfigInv'
    BY <1>5 DEF UpdateFeeDestination, SetConfig, IInv, ConfigInv
  <2>2. QED BY <1>5, <2>1, ConfigSteps DEF UpdateFeeDestination, SetConfig
<1>6. CASE \E paused \in BOOLEAN : UpdatePaused(k, paused)
  <2>1. config' \in Config /\ ConfigInv'
    BY <1>6 DEF UpdatePaused, SetConfig, IInv, ConfigInv
  <2>2. QED BY <1>6, <2>1, ConfigSteps DEF UpdatePaused, SetConfig
<1>7. CASE \E key \in Keys : TransferAdmin(k, key)
  <2>1. config' \in Config /\ ConfigInv'
    BY <1>7 DEF TransferAdmin, SetConfig, IInv, ConfigInv
  <2>2. QED BY <1>7, <2>1, ConfigSteps DEF TransferAdmin, SetConfig
<1>8. CASE AcceptAdmin(k)
  <2>1. config' \in Config /\ ConfigInv'
    BY <1>8 DEF AcceptAdmin, IInv, ConfigInv
  <2>2. QED BY <1>8, <2>1, ConfigSteps DEF AcceptAdmin
<1>9. CASE \E key \in Keys, amount \in Amounts : WithdrawTreasury(k, key, amount)
  <2>1. TypeOK'
    BY <1>9 DEF WithdrawTreasury, CanTransferFrom, IInv, custody, rooms
  <2>2. PoolSolvent' /\ ConfigInv'
    BY <1>9 DEF WithdrawTreasury, IInv, PoolSolvent, ConfigInv, custody
  <2>3. \A q \in Rooms : RoomInv(q)'
    BY <1>9, NoRoomTouched DEF WithdrawTreasury
  <2>4. QED BY <2>1, <2>2, <2>3 DEF IInv
<1>10. QED BY <1>1, <1>2, <1>3, <1>4, <1>5, <1>6, <1>7, <1>8, <1>9

LEMMA ClockStep ==
  ASSUME IInv, AdvanceClock
  PROVE  IInv'
<1>1. TypeOK'
  BY DEF AdvanceClock, IInv, TypeOK, custody, rooms
<1>2. PoolSolvent' /\ ConfigInv'
  BY DEF AdvanceClock, IInv, PoolSolvent, ConfigInv, custody
<1>3. QED BY <1>1, <1>2, NoRoomTouched DEF IInv, AdvanceClock

(* deposit credits the balance and the pool alike. *)
LEMMA DepositStep ==
  ASSUME IInv, NEW p \in Players, NEW amount \in Amounts, Deposit(p, amount)
  PROVE  IInv'
<1> USE ConstantsAssumption
<1>1. TypeOK'
  BY DEF Deposit, IInv, TypeOK, rooms
<1>a. IsFiniteSet(Players) /\ balance \in [Players -> Nat] /\ amount \in Nat
  BY DEF IInv, TypeOK
<1>b. Total([balance EXCEPT ![p] = @ + amount]) = Total(balance) + amount
  BY ZenonT(30), <1>a, TotalRaise
<1>2. Total(balance') = Total(balance) + amount
  BY <1>b DEF Deposit
<1>3. Total(balance) \in Nat
  BY TotalType DEF IInv, TypeOK
<1>4. PoolSolvent' /\ ConfigInv'
  BY <1>2, <1>3 DEF Deposit, IInv, TypeOK, PoolSolvent, ConfigInv
<1>5. QED BY <1>1, <1>4, NoRoomTouched DEF IInv, Deposit

(* withdraw debits the gross figure; net and fee leave the pool together. *)
LEMMA WithdrawStep ==
  ASSUME IInv, NEW p \in Players, NEW amount \in Amounts, Withdraw(p, amount)
  PROVE  IInv'
<1> USE ConstantsAssumption
<1> DEFINE fee == apply_bps(amount, config.withdrawalFeeBps)
<1>1. fee \in Nat /\ fee <= amount
  BY BpsBound DEF IInv, TypeOK, Config, ConfigInv, MAX_WITHDRAWAL_FEE_BPS
<1>a. IsFiniteSet(Players) /\ balance \in [Players -> Nat] /\ amount \in Nat
  BY DEF IInv, TypeOK
<1>b. amount <= balance[p]
  BY <1>a DEF Withdraw, HasBalance
<1>c. /\ Total([balance EXCEPT ![p] = @ - amount]) = Total(balance) - amount
      /\ amount <= Total(balance)
  BY <1>a, <1>b, TotalLower
<1>2. /\ Total(balance') = Total(balance) - amount
      /\ amount <= Total(balance)
  BY <1>c DEF Withdraw
<1>3. Total(balance) \in Nat
  BY TotalType DEF IInv, TypeOK
<1>4. /\ balance' = [balance EXCEPT ![p] = @ - amount]
      /\ balance[p] >= amount
      /\ wallet' = [wallet EXCEPT ![p] = @ + (amount - fee)]
      /\ treasury' = treasury + fee
      /\ pool' = pool - amount
      /\ UNCHANGED <<config, hasAccount, rooms, clock>>
  BY DEF Withdraw, HasBalance
<1> HIDE DEF fee
<1>5. TypeOK'
  BY <1>1, <1>2, <1>3, <1>4 DEF IInv, TypeOK, PoolSolvent, rooms
<1>6. PoolSolvent' /\ ConfigInv'
  BY <1>2, <1>3, <1>4 DEF IInv, TypeOK, PoolSolvent, ConfigInv
<1>7. QED BY <1>4, <1>5, <1>6, NoRoomTouched DEF IInv

-----------------------------------------------------------------------------
(* Steps on one room.  It is enough to look at that room: the accounts of  *)
(* every other room are untouched.                                         *)

LEMMA OneRoomTouched ==
  ASSUME IInv, NEW r \in Rooms, RoomInv(r)',
         \A q \in Rooms : q # r =>
            room'[q] = room[q] /\ seat'[q] = seat[q] /\ vault'[q] = vault[q]
  PROVE  \A q \in Rooms : RoomInv(q)'
BY RoomFrame DEF IInv

(* create_room starts from a fresh id: no records, empty counters, a vault *)
(* topped up to the rent floor.                                            *)
LEMMA CreateRoomStep ==
  ASSUME IInv, NEW k \in Keys, NEW r \in Rooms, NEW fee \in EntryFees,
         NEW n \in Capacities, CreateRoom(k, r, fee, n)
  PROVE  IInv'
<1> USE ConstantsAssumption
<1>1. Status(r) = "Absent" /\ vault[r] = 0
  BY DEF CreateRoom, IInv, RoomInv, VaultInv
<1>2. TypeOK'
  <2>1. config.feeBps \in Nat /\ fee \in Nat /\ n \in Nat /\ clock \in Nat
    BY DEF IInv, TypeOK, Config
  <2>2. [NoRoom EXCEPT !.status = "Open", !.entryFee = fee, !.maxPlayers = n,
                       !.feeBps = config.feeBps, !.createdAt = clock] \in RoomAccount
    BY <2>1 DEF RoomAccount, RoomStatus, NoRoom
  <2>3. room' \in [Rooms -> RoomAccount]
    BY <2>2 DEF CreateRoom, IInv, TypeOK
  <2>4. wallet' \in [Players \cup Keys -> Nat] /\ vault' \in [Rooms -> Nat]
    BY <1>1 DEF CreateRoom, IInv, TypeOK, Funded
  <2>5. QED BY <2>3, <2>4 DEF CreateRoom, IInv, TypeOK, custody
<1>3. LockedPlayers(r)' = {} /\ SeatedPlayers(r)' = {}
  BY DEF CreateRoom, FreshRoomId, LockedPlayers, SeatedPlayers, State
<1>4. Cardinality({}) = 0
  BY FS_EmptySet
<1>5. /\ room'[r].status = "Open" /\ room'[r].totalLocked = 0 /\ room'[r].playerCount = 0
      /\ room'[r].lockedCount = 0 /\ room'[r].feeBps = config.feeBps
      /\ room'[r].entryFee = fee /\ vault'[r] = RENT /\ seat' = seat
  BY <1>1 DEF CreateRoom, NoRoom, IInv, TypeOK, Funded
<1>6. VaultInv(r)'
  BY <1>5 DEF VaultInv, Live, Status
<1>7. StakeInv(r)' /\ CounterInv(r)'
  BY <1>3, <1>4, <1>5 DEF StakeInv, CounterInv, Status, Live
<1>8. SplitInv(r)'
  BY <1>5 DEF SplitInv, Status, IInv, ConfigInv, MAX_FEE_BPS
<1>9. SeatInv(r)'
  BY <1>5 DEF SeatInv, Status, State, CreateRoom, FreshRoomId
<1>10. RoomInv(r)'
  BY <1>6, <1>7, <1>8, <1>9 DEF RoomInv
<1>11. \A q \in Rooms : RoomInv(q)'
  BY <1>10, OneRoomTouched DEF CreateRoom, IInv, TypeOK
<1>12. PoolSolvent' /\ ConfigInv'
  BY DEF CreateRoom, IInv, PoolSolvent, ConfigInv, custody
<1>13. QED BY <1>2, <1>11, <1>12 DEF IInv

(* One more record, not funded yet. *)
LEMMA JoinRoomStep ==
  ASSUME IInv, NEW p \in Players, NEW r \in Rooms, JoinRoom(p, r)
  PROVE  IInv'
<1> USE ConstantsAssumption
<1>1. TypeOK'
  <2>1. [room[r] EXCEPT !.playerCount = @ + 1] \in RoomAccount
    BY DEF IInv, TypeOK, RoomAccount
  <2>2. room' \in [Rooms -> RoomAccount]
    BY <2>1 DEF JoinRoom, IInv, TypeOK
  <2>3. [state |-> "Joined", lockedAmount |-> 0, payout |-> 0] \in RoomPlayer
    BY DEF RoomPlayer, PlayerRoomState
  <2>4. seat' \in [Rooms -> [Players -> RoomPlayer]]
    BY <2>3 DEF JoinRoom, IInv, TypeOK
  <2>5. QED BY <2>2, <2>4 DEF JoinRoom, IInv, TypeOK, custody
<1>2. /\ room'[r] = [room[r] EXCEPT !.playerCount = @ + 1]
      /\ seat'[r] = [seat[r] EXCEPT ![p] = [state |-> "Joined", lockedAmount |-> 0, payout |-> 0]]
      /\ vault' = vault
  BY DEF JoinRoom, IInv, TypeOK
<1>3. Status(r) = "Open" /\ State(r, p) = "None"
  BY DEF JoinRoom
<1>4. LockedPlayers(r)' = LockedPlayers(r) /\ SeatedPlayers(r)' = SeatedPlayers(r) \cup {p}
      /\ p \notin SeatedPlayers(r)
  BY <1>2, <1>3 DEF LockedPlayers, SeatedPlayers, State, IInv, TypeOK
<1>5. Cardinality(SeatedPlayers(r)') = Cardinality(SeatedPlayers(r)) + 1
  BY <1>4, FiniteSeats, FS_AddElement
<1>6. VaultInv(r)'
  BY <1>2, <1>3 DEF VaultInv, Live, Status, IInv, RoomInv, TypeOK, RoomAccount
<1>7. StakeInv(r)'
  <2>1. room'[r].totalLocked = room[r].totalLocked /\ room'[r].entryFee = room[r].entryFee
    BY <1>2 DEF IInv, TypeOK, RoomAccount
  <2>2. \A x \in LockedPlayers(r) : x # p /\ seat'[r][x] = seat[r][x]
    BY <1>2, <1>3 DEF LockedPlayers, IInv, TypeOK
  <2>3. StakeInv(r) /\ Live(r)
    BY <1>3 DEF IInv, RoomInv, Live
  <2>4. QED BY <1>4, <2>1, <2>2, <2>3 DEF StakeInv
<1>8. CounterInv(r)'
  BY <1>2, <1>3, <1>4, <1>5 DEF CounterInv, Status, IInv, RoomInv, TypeOK, RoomAccount
<1>9. SplitInv(r)'
  BY <1>2, <1>3 DEF SplitInv, Status, IInv, RoomInv, TypeOK, RoomAccount
<1>10. SeatInv(r)'
  BY <1>2, <1>3 DEF SeatInv, Status, State, IInv, RoomInv, TypeOK, RoomAccount
<1>11. RoomInv(r)'
  BY <1>6, <1>7, <1>8, <1>9, <1>10 DEF RoomInv
<1>12. \A q \in Rooms : RoomInv(q)'
  BY <1>11, OneRoomTouched DEF JoinRoom, IInv, TypeOK
<1>13. PoolSolvent' /\ ConfigInv'
  BY DEF JoinRoom, IInv, PoolSolvent, ConfigInv, custody
<1>14. QED BY <1>1, <1>12, <1>13 DEF IInv

(* Adding one entry fee to an escrow of n entry fees. *)
LEMMA OneMoreStake ==
  ASSUME NEW fee \in Nat, NEW n \in Nat
  PROVE  fee * (n + 1) = fee * n + fee /\ fee * n \in Nat
OBVIOUS

(* The counters of a room, and the state and amount of an entry record, can *)
(* be overwritten with values of their types.                               *)
LEMMA RecordTypes ==
  /\ \A x \in RoomAccount, a, b, c \in Nat :
       /\ [x EXCEPT !.playerCount = a, !.lockedCount = b, !.totalLocked = c] \in RoomAccount
       /\ [x EXCEPT !.totalLocked = c, !.lockedCount = b] \in RoomAccount
  /\ \A x \in RoomPlayer, a \in Nat, st \in PlayerRoomState :
       /\ [x EXCEPT !.state = st, !.lockedAmount = a] \in RoomPlayer
       /\ [x EXCEPT !.state = st, !.payout = a] \in RoomPlayer
       /\ [x EXCEPT !.state = st] \in RoomPlayer
BY ZenonT(30) DEF RoomAccount, RoomPlayer, PlayerRoomState

(* What lock_entry_fee and enter_room have in common: player p, who had no *)
(* funded record, has one now, and the vault holds one entry fee more.     *)
LEMMA StakeAdded ==
  ASSUME IInv, NEW p \in Players, NEW r \in Rooms, NEW count \in Nat,
         Status(r) = "Open", State(r, p) \in {"None", "Joined"},
         count = IF State(r, p) = "None" THEN 1 ELSE 0,
         room'[r].status = "Open",
         room'[r].entryFee = room[r].entryFee,
         room'[r].feeBps = room[r].feeBps,
         room'[r].playerCount = room[r].playerCount + count,
         room'[r].lockedCount = room[r].lockedCount + 1,
         room'[r].totalLocked = room[r].totalLocked + room[r].entryFee,
         seat'[r][p].state = "Locked",
         seat'[r][p].lockedAmount = room[r].entryFee,
         \A x \in Players : x # p => seat'[r][x] = seat[r][x],
         vault'[r] = vault[r] + room[r].entryFee
  PROVE  RoomInv(r)'
<1> USE ConstantsAssumption
<1> DEFINE fee == room[r].entryFee
           locked == Cardinality(LockedPlayers(r))
<1>1. fee \in Nat /\ locked \in Nat
  BY FiniteSeats DEF IInv, TypeOK, RoomAccount
<1>2. /\ LockedPlayers(r)' = LockedPlayers(r) \cup {p} /\ p \notin LockedPlayers(r)
      /\ SeatedPlayers(r)' = SeatedPlayers(r) \cup {p}
      /\ p \in SeatedPlayers(r) <=> State(r, p) = "Joined"
  BY DEF LockedPlayers, SeatedPlayers, State, IInv, TypeOK
<1>3. Cardinality(LockedPlayers(r)') = locked + 1
  BY ZenonT(30), <1>2, FiniteSeats, FS_AddElement
<1>4. Cardinality(SeatedPlayers(r)') = Cardinality(SeatedPlayers(r)) + count
  <2>1. IsFiniteSet(SeatedPlayers(r)) /\ Cardinality(SeatedPlayers(r)) \in Nat
    BY FiniteSeats
  <2>2. Cardinality(SeatedPlayers(r) \cup {p}) = IF p \in SeatedPlayers(r)
                                                THEN Cardinality(SeatedPlayers(r))
                                                ELSE Cardinality(SeatedPlayers(r)) + 1
    BY <2>1, FS_AddElement
  <2>3. QED BY <1>2, <2>1, <2>2
<1>6. room[r].totalLocked = fee * locked
  BY DEF IInv, RoomInv, StakeInv, Live
<1>7. fee * (locked + 1) = fee * locked + fee
  BY <1>1, OneMoreStake
<1>8. VaultInv(r)'
  BY <1>1 DEF VaultInv, Live, Status, IInv, RoomInv, TypeOK, RoomAccount
<1>9. room'[r].totalLocked = fee * Cardinality(LockedPlayers(r)')
  BY <1>3, <1>6, <1>7
<1>10. \A x \in LockedPlayers(r)' : seat'[r][x].lockedAmount = fee
  <2>1. \A x \in LockedPlayers(r) : seat[r][x].lockedAmount = fee
    BY DEF IInv, RoomInv, StakeInv, Live
  <2>3. LockedPlayers(r) \subseteq Players
    BY DEF LockedPlayers
  <2>4. QED BY <1>2, <2>1, <2>3
<1>11. StakeInv(r)'
  BY <1>9, <1>10 DEF StakeInv
<1>12. CounterInv(r)'
  BY <1>3, <1>4 DEF CounterInv, Status, IInv, RoomInv, TypeOK, RoomAccount
<1>13. SplitInv(r)'
  BY DEF SplitInv, Status, IInv, RoomInv
<1>14. SeatInv(r)'
  BY DEF SeatInv, Status, State, IInv, RoomInv, TypeOK
<1>15. QED BY <1>8, <1>11, <1>12, <1>13, <1>14 DEF RoomInv

LEMMA LockEntryFeeStep ==
  ASSUME IInv, NEW p \in Players, NEW r \in Rooms, LockEntryFee(p, r)
  PROVE  IInv'
<1> USE ConstantsAssumption
<1> DEFINE fee == room[r].entryFee
<1>1. /\ fee \in Nat /\ fee <= balance[p]
      /\ IsFiniteSet(Players) /\ balance \in [Players -> Nat]
  BY DEF LockEntryFee, HasBalance, IInv, TypeOK, RoomAccount
<1>2. /\ Total([balance EXCEPT ![p] = @ - fee]) = Total(balance) - fee
      /\ fee <= Total(balance)
  BY <1>1, TotalLower
<1>3. /\ Status(r) = "Open" /\ State(r, p) = "Joined"
      /\ balance' = [balance EXCEPT ![p] = @ - fee]
      /\ room' = [room EXCEPT ![r].totalLocked = @ + fee, ![r].lockedCount = @ + 1]
      /\ seat' = [seat EXCEPT ![r][p].state = "Locked", ![r][p].lockedAmount = fee]
      /\ pool' = pool - fee
      /\ vault' = [vault EXCEPT ![r] = @ + fee]
      /\ UNCHANGED <<config, wallet, hasAccount, treasury, clock>>
  BY DEF LockEntryFee
<1>4. Total(balance) \in Nat
  BY <1>1, TotalType
<1>5. PoolSolvent' /\ ConfigInv'
  BY <1>1, <1>2, <1>3, <1>4 DEF IInv, TypeOK, PoolSolvent, ConfigInv
<1>6. TypeOK'
  <2>0. /\ room[r] \in RoomAccount /\ room[r].totalLocked + fee \in Nat
        /\ room[r].lockedCount + 1 \in Nat /\ seat[r][p] \in RoomPlayer
        /\ "Locked" \in PlayerRoomState
    BY <1>1 DEF IInv, TypeOK, RoomAccount, PlayerRoomState
  <2>1. [room[r] EXCEPT !.totalLocked = @ + fee, !.lockedCount = @ + 1] \in RoomAccount
    BY <2>0, RecordTypes
  <2>2. room' \in [Rooms -> RoomAccount]
    BY <1>3, <2>1 DEF IInv, TypeOK
  <2>3. [seat[r][p] EXCEPT !.state = "Locked", !.lockedAmount = fee] \in RoomPlayer
    BY <1>1, <2>0, RecordTypes
  <2>4. seat' \in [Rooms -> [Players -> RoomPlayer]]
    BY <1>3, <2>3 DEF IInv, TypeOK
  <2>5. pool' \in Nat /\ balance' \in [Players -> Nat] /\ vault' \in [Rooms -> Nat]
    BY <1>1, <1>2, <1>3, <1>4 DEF IInv, TypeOK, PoolSolvent
  <2>6. QED BY <1>3, <2>2, <2>4, <2>5 DEF IInv, TypeOK
<1>7. RoomInv(r)'
  <2>1. /\ room'[r].status = "Open" /\ room'[r].entryFee = fee
        /\ room'[r].feeBps = room[r].feeBps
        /\ room'[r].playerCount = room[r].playerCount + 0
        /\ room'[r].lockedCount = room[r].lockedCount + 1
        /\ room'[r].totalLocked = room[r].totalLocked + fee
    BY <1>3 DEF IInv, TypeOK, RoomAccount, Status
  <2>2. /\ seat'[r][p].state = "Locked" /\ seat'[r][p].lockedAmount = fee
        /\ \A x \in Players : x # p => seat'[r][x] = seat[r][x]
    BY <1>3 DEF IInv, TypeOK, RoomPlayer
  <2>3. vault'[r] = vault[r] + fee
    BY <1>3 DEF IInv, TypeOK
  <2>4. QED BY <1>3, <2>1, <2>2, <2>3, StakeAdded
<1>8. \A q \in Rooms : RoomInv(q)'
  BY <1>3, <1>7, OneRoomTouched DEF IInv, TypeOK
<1>9. QED BY <1>5, <1>6, <1>8 DEF IInv

LEMMA EnterRoomStep ==
  ASSUME IInv, NEW p \in Players, NEW r \in Rooms, EnterRoom(p, r)
  PROVE  IInv'
<1> USE ConstantsAssumption
<1> DEFINE fee == room[r].entryFee
           record == [state |-> "Locked", lockedAmount |-> fee, payout |-> 0]
<1>1. fee \in Nat /\ fee <= wallet[p]
  BY DEF EnterRoom, IInv, TypeOK, RoomAccount
<1>2. /\ Status(r) = "Open" /\ State(r, p) = "None"
      /\ wallet' = [wallet EXCEPT ![p] = @ - fee]
      /\ room' = [room EXCEPT ![r].playerCount = @ + 1, ![r].lockedCount = @ + 1,
                              ![r].totalLocked = @ + fee]
      /\ seat' = [seat EXCEPT ![r][p] = record]
      /\ vault' = [vault EXCEPT ![r] = @ + fee]
      /\ UNCHANGED <<config, custody, treasury, clock>>
  BY DEF EnterRoom
<1>3. PoolSolvent' /\ ConfigInv'
  BY <1>2 DEF IInv, PoolSolvent, ConfigInv, custody
<1>4. TypeOK'
  <2>0. /\ room[r] \in RoomAccount /\ room[r].totalLocked + fee \in Nat
        /\ room[r].lockedCount + 1 \in Nat /\ room[r].playerCount + 1 \in Nat
    BY <1>1 DEF IInv, TypeOK, RoomAccount
  <2>1. [room[r] EXCEPT !.playerCount = @ + 1, !.lockedCount = @ + 1,
                        !.totalLocked = @ + fee] \in RoomAccount
    BY <2>0, RecordTypes
  <2>2. room' \in [Rooms -> RoomAccount]
    BY <1>2, <2>1 DEF IInv, TypeOK
  <2>3. record \in RoomPlayer
    BY <1>1 DEF RoomPlayer, PlayerRoomState
  <2>4. seat' \in [Rooms -> [Players -> RoomPlayer]]
    BY <1>2, <2>3 DEF IInv, TypeOK
  <2>5. wallet' \in [Players \cup Keys -> Nat] /\ vault' \in [Rooms -> Nat]
    BY <1>1, <1>2 DEF IInv, TypeOK
  <2>6. QED BY <1>2, <2>2, <2>4, <2>5 DEF IInv, TypeOK, custody
<1>5. RoomInv(r)'
  <2>1. /\ room'[r].status = "Open" /\ room'[r].entryFee = fee
        /\ room'[r].feeBps = room[r].feeBps
        /\ room'[r].playerCount = room[r].playerCount + 1
        /\ room'[r].lockedCount = room[r].lockedCount + 1
        /\ room'[r].totalLocked = room[r].totalLocked + fee
    BY <1>2 DEF IInv, TypeOK, RoomAccount, Status
  <2>2. /\ seat'[r][p].state = "Locked" /\ seat'[r][p].lockedAmount = fee
        /\ \A x \in Players : x # p => seat'[r][x] = seat[r][x]
    BY <1>2 DEF IInv, TypeOK, RoomPlayer
  <2>3. vault'[r] = vault[r] + fee
    BY <1>2 DEF IInv, TypeOK
  <2>4. QED BY <1>2, <2>1, <2>2, <2>3, StakeAdded
<1>6. \A q \in Rooms : RoomInv(q)'
  BY <1>2, <1>5, OneRoomTouched DEF IInv, TypeOK
<1>7. QED BY <1>3, <1>4, <1>6 DEF IInv

(* start_room needs both counters equal, and they count records, so every  *)
(* record of a started room is funded.                                     *)
LEMMA StartRoomStep ==
  ASSUME IInv, NEW k \in Keys, NEW r \in Rooms, StartRoom(k, r)
  PROVE  IInv'
<1> USE ConstantsAssumption
<1>1. /\ Status(r) = "Open" /\ room[r].lockedCount = room[r].playerCount
      /\ room' = [room EXCEPT ![r].status = "InProgress"]
      /\ UNCHANGED <<config, wallet, custody, seat, vault, treasury, clock>>
  BY DEF StartRoom
<1>2. TypeOK'
  <2>1. [room[r] EXCEPT !.status = "InProgress"] \in RoomAccount
    BY DEF IInv, TypeOK, RoomAccount, RoomStatus
  <2>2. QED BY <1>1, <2>1 DEF IInv, TypeOK, custody
<1>3. PoolSolvent' /\ ConfigInv'
  BY <1>1 DEF IInv, PoolSolvent, ConfigInv, custody
<1>4. RoomInv(r)'
  <2>1. /\ room'[r].status = "InProgress" /\ room'[r].entryFee = room[r].entryFee
        /\ room'[r].feeBps = room[r].feeBps /\ room'[r].totalLocked = room[r].totalLocked
        /\ room'[r].playerCount = room[r].playerCount
        /\ room'[r].lockedCount = room[r].lockedCount
        /\ seat' = seat /\ vault' = vault
    BY <1>1 DEF IInv, TypeOK, RoomAccount
  <2>2. LockedPlayers(r)' = LockedPlayers(r) /\ SeatedPlayers(r)' = SeatedPlayers(r)
    BY <2>1 DEF LockedPlayers, SeatedPlayers, State
  <2>3. LockedPlayers(r) = SeatedPlayers(r)
    <3>1. /\ LockedPlayers(r) \in SUBSET SeatedPlayers(r)
          /\ Cardinality(LockedPlayers(r)) = Cardinality(SeatedPlayers(r))
      BY <1>1 DEF IInv, RoomInv, CounterInv, LockedPlayers, SeatedPlayers
    <3>2. QED BY <3>1, FiniteSeats, FS_Subset
  <2>4. VaultInv(r)' /\ StakeInv(r)'
    BY <1>1, <2>1, <2>2 DEF IInv, RoomInv, VaultInv, StakeInv, Live, Status
  <2>5. CounterInv(r)'
    BY <1>1, <2>1, <2>2, <2>3 DEF IInv, RoomInv, CounterInv, Status
  <2>6. SplitInv(r)' /\ SeatInv(r)'
    BY <1>1, <2>1 DEF IInv, RoomInv, SplitInv, SeatInv, Status, State
  <2>7. QED BY <2>4, <2>5, <2>6 DEF RoomInv
<1>5. \A q \in Rooms : RoomInv(q)'
  BY <1>1, <1>4, OneRoomTouched DEF IInv, TypeOK
<1>6. QED BY <1>2, <1>3, <1>5 DEF IInv

(* unlock_prize splits the pot at the room's own fee. *)
LEMMA UnlockPrizeStep ==
  ASSUME IInv, NEW k \in Keys, NEW r \in Rooms, UnlockPrize(k, r)
  PROVE  IInv'
<1> USE ConstantsAssumption
<1> DEFINE rake == Rake(r)
<1>1. /\ Status(r) = "InProgress"
      /\ room' = [room EXCEPT ![r].rakeAmount = rake,
                              ![r].prizePool = room[r].totalLocked - rake,
                              ![r].status = "Unlocked"]
      /\ UNCHANGED <<config, wallet, custody, seat, vault, treasury, clock>>
  BY DEF UnlockPrize
<1>2. room[r].totalLocked \in Nat /\ room[r].feeBps \in Nat /\ room[r].feeBps <= 1000
  BY DEF IInv, TypeOK, RoomAccount, RoomInv, SplitInv, MAX_FEE_BPS
<1>3. /\ rake \in Nat /\ rake <= room[r].totalLocked
      /\ rake * BPS_DENOMINATOR <= room[r].totalLocked * room[r].feeBps
  BY <1>2, BpsBound DEF Rake
<1> HIDE DEF rake
<1>4. TypeOK'
  <2>1. \A x \in RoomAccount, a, b \in Nat :
          [x EXCEPT !.rakeAmount = a, !.prizePool = b, !.status = "Unlocked"] \in RoomAccount
    BY DEF RoomAccount, RoomStatus
  <2>2. room[r] \in RoomAccount /\ room[r].totalLocked - rake \in Nat
    BY <1>2, <1>3 DEF IInv, TypeOK
  <2>3. [room[r] EXCEPT !.rakeAmount = rake, !.prizePool = room[r].totalLocked - rake,
                        !.status = "Unlocked"] \in RoomAccount
    BY <1>3, <2>1, <2>2
  <2>4. QED BY <1>1, <2>3 DEF IInv, TypeOK, custody
<1>5. PoolSolvent' /\ ConfigInv'
  BY <1>1 DEF IInv, PoolSolvent, ConfigInv, custody
<1>6. RoomInv(r)'
  <2>1. /\ room'[r].status = "Unlocked" /\ room'[r].entryFee = room[r].entryFee
        /\ room'[r].feeBps = room[r].feeBps /\ room'[r].totalLocked = room[r].totalLocked
        /\ room'[r].playerCount = room[r].playerCount
        /\ room'[r].lockedCount = room[r].lockedCount
        /\ room'[r].rakeAmount = rake /\ room'[r].prizePool = room[r].totalLocked - rake
        /\ seat' = seat /\ vault' = vault
    BY <1>1 DEF IInv, TypeOK, RoomAccount
  <2>2. LockedPlayers(r)' = LockedPlayers(r) /\ SeatedPlayers(r)' = SeatedPlayers(r)
    BY <2>1 DEF LockedPlayers, SeatedPlayers, State
  <2>3. VaultInv(r)' /\ StakeInv(r)'
    BY ZenonT(30), <1>1, <2>1, <2>2 DEF IInv, RoomInv, VaultInv, StakeInv, Live, Status
  <2>4. CounterInv(r)'
    BY <1>1, <2>1, <2>2 DEF IInv, RoomInv, CounterInv, Status
  <2>5. SplitInv(r)'
    BY <1>2, <1>3, <2>1 DEF SplitInv, MAX_FEE_BPS
  <2>6. SeatInv(r)'
    BY <1>1, <2>1 DEF IInv, RoomInv, SeatInv, Status, State
  <2>7. QED BY <2>3, <2>4, <2>5, <2>6 DEF RoomInv
<1>7. \A q \in Rooms : RoomInv(q)'
  BY <1>1, <1>6, OneRoomTouched DEF IInv, TypeOK
<1>8. QED BY <1>4, <1>5, <1>7 DEF IInv

(* Cancelling keeps every stake and every record. *)
LEMMA CancelRoomStep ==
  ASSUME IInv, NEW w, NEW r \in Rooms, CancelRoom(w, r)
  PROVE  IInv'
<1> USE ConstantsAssumption
<1>1. /\ Status(r) \notin {"Absent", "Settled", "Cancelled"}
      /\ room' = [room EXCEPT ![r].status = "Cancelled"]
      /\ UNCHANGED <<config, wallet, custody, seat, vault, treasury, clock>>
  BY DEF CancelRoom
<1>2. Status(r) \in {"Open", "InProgress", "Unlocked"}
  BY <1>1 DEF IInv, TypeOK, RoomAccount, RoomStatus, Status
<1>3. TypeOK'
  <2>1. [room[r] EXCEPT !.status = "Cancelled"] \in RoomAccount
    BY SMTT(30) DEF IInv, TypeOK, RoomAccount, RoomStatus
  <2>2. QED BY <1>1, <2>1 DEF IInv, TypeOK, custody
<1>4. PoolSolvent' /\ ConfigInv'
  BY <1>1 DEF IInv, PoolSolvent, ConfigInv, custody
<1>5. RoomInv(r)'
  <2>1. /\ room'[r].status = "Cancelled" /\ room'[r].entryFee = room[r].entryFee
        /\ room'[r].feeBps = room[r].feeBps /\ room'[r].totalLocked = room[r].totalLocked
        /\ seat' = seat /\ vault' = vault
    BY <1>1 DEF IInv, TypeOK, RoomAccount
  <2>2. LockedPlayers(r)' = LockedPlayers(r)
    BY <2>1 DEF LockedPlayers, State
  <2>3. VaultInv(r)' /\ StakeInv(r)'
    BY <1>2, <2>1, <2>2 DEF IInv, RoomInv, VaultInv, StakeInv, Live, Status
  <2>4. CounterInv(r)' /\ SplitInv(r)'
    BY <2>1 DEF CounterInv, SplitInv, Status, IInv, RoomInv
  <2>5. SeatInv(r)'
    BY <1>2, <2>1 DEF IInv, RoomInv, SeatInv, Status, State
  <2>6. QED BY <2>3, <2>4, <2>5 DEF RoomInv
<1>6. \A q \in Rooms : RoomInv(q)'
  BY <1>1, <1>5, OneRoomTouched DEF IInv, TypeOK
<1>7. QED BY <1>3, <1>4, <1>6 DEF IInv

(* close_room only takes an empty vault. *)
LEMMA CloseRoomStep ==
  ASSUME IInv, NEW r \in Rooms, CloseRoom(r)
  PROVE  IInv'
<1> USE ConstantsAssumption
<1>1. /\ room' = [room EXCEPT ![r] = NoRoom]
      /\ vault' = [vault EXCEPT ![r] = 0]
      /\ wallet' = [wallet EXCEPT ![config.settlementAuthority] = @ + vault[r]]
      /\ UNCHANGED <<config, custody, seat, treasury, clock>>
      /\ Status(r) \in {"Settled", "Cancelled"}
  BY DEF CloseRoom
<1>2. TypeOK'
  <2>1. NoRoom \in RoomAccount
    BY DEF NoRoom, RoomAccount, RoomStatus
  <2>2. room' \in [Rooms -> RoomAccount] /\ vault' \in [Rooms -> Nat]
    BY <1>1, <2>1 DEF IInv, TypeOK
  <2>3. wallet' \in [Players \cup Keys -> Nat]
    BY <1>1 DEF IInv, TypeOK, Config
  <2>4. QED BY <1>1, <2>2, <2>3 DEF IInv, TypeOK, custody
<1>3. PoolSolvent' /\ ConfigInv'
  BY <1>1 DEF IInv, PoolSolvent, ConfigInv, custody
<1>4. RoomInv(r)'
  <2>1. /\ room'[r].status = "Absent" /\ room'[r].feeBps = 0 /\ vault'[r] = 0
        /\ seat' = seat
    BY <1>1 DEF IInv, TypeOK, NoRoom
  <2>2. VaultInv(r)' /\ StakeInv(r)' /\ CounterInv(r)' /\ SplitInv(r)'
    BY <2>1 DEF VaultInv, StakeInv, CounterInv, SplitInv, Live, Status, MAX_FEE_BPS
  <2>3. SeatInv(r)'
    BY <1>1, <2>1 DEF IInv, RoomInv, SeatInv, Status, State
  <2>4. QED BY <2>2, <2>3 DEF RoomInv
<1>5. \A q \in Rooms : RoomInv(q)'
  BY <1>1, <1>4, OneRoomTouched DEF IInv, TypeOK
<1>6. QED BY <1>2, <1>3, <1>5 DEF IInv

(* close_room_player removes a record that holds no stake. *)
LEMMA CloseRoomPlayerStep ==
  ASSUME IInv, NEW p \in Players, NEW r \in Rooms, CloseRoomPlayer(p, r)
  PROVE  IInv'
<1> USE ConstantsAssumption
<1>1. /\ Status(r) \in {"Settled", "Cancelled"}
      /\ State(r, p) \in {"Paid", "Refunded"}
      /\ seat' = [seat EXCEPT ![r][p] = NoSeat]
      /\ UNCHANGED <<config, wallet, custody, room, vault, treasury, clock>>
  BY DEF CloseRoomPlayer
<1>2. TypeOK'
  <2>1. NoSeat \in RoomPlayer
    BY DEF NoSeat, RoomPlayer, PlayerRoomState
  <2>2. QED BY <1>1, <2>1 DEF IInv, TypeOK, custody
<1>3. PoolSolvent' /\ ConfigInv'
  BY <1>1 DEF IInv, PoolSolvent, ConfigInv, custody
<1>4. RoomInv(r)'
  <2>1. /\ seat'[r][p].state = "None"
        /\ \A x \in Players : x # p => seat'[r][x] = seat[r][x]
    BY <1>1 DEF IInv, TypeOK, NoSeat
  <2>2. LockedPlayers(r)' = LockedPlayers(r) /\ p \notin LockedPlayers(r)
    BY <1>1, <2>1 DEF LockedPlayers, State
  <2>3. VaultInv(r)' /\ SplitInv(r)' /\ CounterInv(r)'
    BY <1>1 DEF IInv, RoomInv, VaultInv, SplitInv, CounterInv, Live, Status
  <2>4. StakeInv(r)'
    <3>1. \A x \in LockedPlayers(r) : seat'[r][x] = seat[r][x]
      BY <2>1, <2>2 DEF LockedPlayers
    <3>2. QED BY <1>1, <2>2, <3>1 DEF IInv, RoomInv, StakeInv, Live, Status
  <2>5. SeatInv(r)'
    BY <1>1, <2>1 DEF IInv, RoomInv, SeatInv, Status, State
  <2>6. QED BY <2>3, <2>4, <2>5 DEF RoomInv
<1>5. \A q \in Rooms : RoomInv(q)'
  BY <1>1, <1>4, OneRoomTouched DEF IInv, TypeOK
<1>6. QED BY <1>2, <1>3, <1>5 DEF IInv

(* claim_refund takes one stake out of the vault, out of the counter and   *)
(* out of the funded records alike, and credits it to custody.             *)
LEMMA ClaimRefundStep ==
  ASSUME IInv, NEW p \in Players, NEW r \in Rooms, ClaimRefund(p, r)
  PROVE  IInv'
<1> USE ConstantsAssumption
<1> DEFINE fee == room[r].entryFee
           locked == Cardinality(LockedPlayers(r))
<1>1. Status(r) = "Cancelled" /\ State(r, p) = "Locked"
  BY DEF ClaimRefund, Refundable
<1>2. /\ seat[r][p].lockedAmount = fee /\ room[r].totalLocked = fee * locked
      /\ \A x \in LockedPlayers(r) : seat[r][x].lockedAmount = fee
      /\ p \in LockedPlayers(r)
  BY <1>1 DEF IInv, RoomInv, StakeInv, Live, LockedPlayers
<1>3. /\ seat' = [seat EXCEPT ![r][p].state = "Refunded"]
      /\ balance' = [balance EXCEPT ![p] = @ + fee]
      /\ room' = [room EXCEPT ![r].totalLocked = @ - fee]
      /\ vault' = [vault EXCEPT ![r] = @ - fee]
      /\ pool' = pool + fee
      /\ room[r].totalLocked >= fee
      /\ UNCHANGED <<config, wallet, hasAccount, treasury, clock>>
  BY <1>2 DEF ClaimRefund
<1>4. /\ fee \in Nat /\ locked \in Nat /\ IsFiniteSet(Players) /\ balance \in [Players -> Nat]
      /\ vault[r] = RENT + room[r].totalLocked /\ room[r].totalLocked \in Nat
  BY <1>1, FiniteSeats DEF IInv, TypeOK, RoomAccount, RoomInv, VaultInv, Live
<1>5. Total([balance EXCEPT ![p] = @ + fee]) = Total(balance) + fee
  <2> HIDE DEF fee
  <2>1. fee \in Nat /\ IsFiniteSet(Players) /\ balance \in [Players -> Nat]
    BY <1>4
  <2>2. QED BY ZenonT(30), <2>1, TotalRaise
<1>6. Total(balance) \in Nat
  BY <1>4, TotalType
<1>7. PoolSolvent' /\ ConfigInv'
  BY <1>3, <1>4, <1>5, <1>6 DEF IInv, TypeOK, PoolSolvent, ConfigInv
<1>8. TypeOK'
  <2>0. /\ room[r] \in RoomAccount /\ room[r].totalLocked - fee \in Nat
        /\ seat[r][p] \in RoomPlayer /\ "Refunded" \in PlayerRoomState
    BY <1>3, <1>4 DEF IInv, TypeOK, PlayerRoomState
  <2>1. [room[r] EXCEPT !.totalLocked = @ - fee] \in RoomAccount
    BY <2>0 DEF RoomAccount
  <2>2. room' \in [Rooms -> RoomAccount]
    BY <1>3, <2>1 DEF IInv, TypeOK
  <2>3. [seat[r][p] EXCEPT !.state = "Refunded"] \in RoomPlayer
    BY <2>0, RecordTypes
  <2>4. seat' \in [Rooms -> [Players -> RoomPlayer]]
    BY <1>3, <2>3 DEF IInv, TypeOK
  <2>5. pool' \in Nat /\ balance' \in [Players -> Nat] /\ vault' \in [Rooms -> Nat]
    BY <1>3, <1>4 DEF IInv, TypeOK
  <2>6. QED BY <1>3, <2>2, <2>4, <2>5 DEF IInv, TypeOK
<1>9. RoomInv(r)'
  <2>1. /\ room'[r].status = "Cancelled" /\ room'[r].entryFee = fee
        /\ room'[r].feeBps = room[r].feeBps
        /\ room'[r].totalLocked = room[r].totalLocked - fee
        /\ vault'[r] = vault[r] - fee
    BY <1>1, <1>3 DEF IInv, TypeOK, RoomAccount, Status
  <2>2. /\ seat'[r][p].state = "Refunded"
        /\ \A x \in Players : x # p => seat'[r][x] = seat[r][x]
    BY <1>3 DEF IInv, TypeOK, RoomPlayer
  <2>3. LockedPlayers(r)' = LockedPlayers(r) \ {p}
    BY <2>2 DEF LockedPlayers, State
  <2>4. Cardinality(LockedPlayers(r)') = locked - 1 /\ Cardinality(LockedPlayers(r)') \in Nat
    BY <1>2, <2>3, FiniteSeats, FS_RemoveElement, FS_CardinalityType
  <2>5. fee * locked = fee * (locked - 1) + fee
    <3>1. locked - 1 \in Nat /\ (locked - 1) + 1 = locked
      BY <1>4, <2>4
    <3>2. QED BY <1>4, <3>1, OneMoreStake
  <2>6. fee * (locked - 1) \in Nat
    BY <1>4, <2>4, OneMoreStake
  <2>7. VaultInv(r)'
    BY <1>4, <2>1 DEF VaultInv, Live, Status
  <2>8. room'[r].totalLocked = fee * Cardinality(LockedPlayers(r)')
    <3> HIDE DEF locked, fee
    <3>1. QED BY <1>2, <1>4, <2>1, <2>4, <2>5, <2>6
  <2>9. \A x \in LockedPlayers(r)' : seat'[r][x].lockedAmount = fee
    BY <1>2, <2>2, <2>3 DEF LockedPlayers
  <2>10. StakeInv(r)'
    BY <2>1, <2>8, <2>9 DEF StakeInv
  <2>11. CounterInv(r)' /\ SplitInv(r)'
    BY <1>1, <2>1 DEF CounterInv, SplitInv, Status, IInv, RoomInv
  <2>12. SeatInv(r)'
    BY <1>1, <2>1, <2>2 DEF IInv, RoomInv, SeatInv, Status, State
  <2>13. QED BY <2>7, <2>10, <2>11, <2>12 DEF RoomInv
<1>10. \A q \in Rooms : RoomInv(q)'
  BY <1>3, <1>9, OneRoomTouched DEF IInv, TypeOK
<1>11. QED BY <1>7, <1>8, <1>10 DEF IInv

(* What both settlements have in common: the pot leaves the vault, which   *)
(* is left with its rent floor, and only winners' records change.          *)
LEMMA RoomSettled ==
  ASSUME IInv, NEW r \in Rooms, Status(r) = "Unlocked",
         room' = [room EXCEPT ![r].status = "Settled"],
         vault' = [vault EXCEPT ![r] = @ - (room[r].prizePool + room[r].rakeAmount)],
         \A x \in Players : \/ seat'[r][x] = seat[r][x]
                            \/ seat'[r][x].state = "Paid",
         \A q \in Rooms : q # r => seat'[q] = seat[q]
  PROVE  /\ \A q \in Rooms : RoomInv(q)'
         /\ room' \in [Rooms -> RoomAccount]
         /\ vault' \in [Rooms -> Nat]
<1> USE ConstantsAssumption
<1>1. /\ vault[r] = RENT + room[r].totalLocked
      /\ room[r].prizePool + room[r].rakeAmount = room[r].totalLocked
      /\ room[r].totalLocked \in Nat
  BY DEF IInv, RoomInv, VaultInv, SplitInv, Live, TypeOK, RoomAccount
<1>2. vault'[r] = RENT
  BY <1>1 DEF IInv, TypeOK
<1>3. room' \in [Rooms -> RoomAccount]
  <2>1. \A x \in RoomAccount : [x EXCEPT !.status = "Settled"] \in RoomAccount
    BY DEF RoomAccount, RoomStatus
  <2>2. room[r] \in RoomAccount
    BY DEF IInv, TypeOK
  <2>3. [room[r] EXCEPT !.status = "Settled"] \in RoomAccount
    BY <2>1, <2>2
  <2>4. QED BY <2>3 DEF IInv, TypeOK
<1>4. vault' \in [Rooms -> Nat]
  BY <1>2 DEF IInv, TypeOK
<1>5. room'[r].status = "Settled" /\ room'[r].feeBps = room[r].feeBps
  BY DEF IInv, TypeOK, RoomAccount
<1>6. VaultInv(r)' /\ StakeInv(r)' /\ CounterInv(r)' /\ SplitInv(r)'
  BY <1>2, <1>5 DEF IInv, RoomInv, VaultInv, StakeInv, CounterInv, SplitInv, Live, Status
<1>7. SeatInv(r)'
  BY <1>5 DEF IInv, RoomInv, SeatInv, Status, State
<1>8. RoomInv(r)'
  BY <1>6, <1>7 DEF RoomInv
<1>9. \A q \in Rooms : RoomInv(q)'
  BY <1>8, OneRoomTouched DEF IInv, TypeOK
<1>10. QED BY <1>3, <1>4, <1>9

(* settle_to_winner pays the prize to one wallet; custody is not involved. *)
LEMMA SettleToWinnerStep ==
  ASSUME IInv, NEW k \in Keys, NEW r \in Rooms, NEW p \in Players, SettleToWinner(k, r, p)
  PROVE  IInv'
<1> USE ConstantsAssumption
<1> DEFINE prize == room[r].prizePool
           rake == room[r].rakeAmount
<1>1. /\ Status(r) = "Unlocked"
      /\ wallet' = [wallet EXCEPT ![p] = @ + prize, ![config.feeDestination] = @ + rake]
      /\ vault' = [vault EXCEPT ![r] = @ - (prize + rake)]
      /\ seat' = [seat EXCEPT ![r][p].state = "Paid", ![r][p].payout = prize]
      /\ room' = [room EXCEPT ![r].status = "Settled"]
      /\ UNCHANGED <<config, custody, treasury, clock>>
  BY DEF SettleToWinner
<1>2. prize \in Nat /\ rake \in Nat
  BY DEF IInv, TypeOK, RoomAccount
<1>3. /\ seat'[r][p].state = "Paid"
      /\ \A x \in Players : x # p => seat'[r][x] = seat[r][x]
      /\ \A q \in Rooms : q # r => seat'[q] = seat[q]
  BY <1>1 DEF IInv, TypeOK, RoomPlayer
<1>4. /\ \A q \in Rooms : RoomInv(q)'
      /\ room' \in [Rooms -> RoomAccount]
      /\ vault' \in [Rooms -> Nat]
  BY <1>1, <1>3, RoomSettled
<1>5. seat' \in [Rooms -> [Players -> RoomPlayer]]
  <2>1. seat[r][p] \in RoomPlayer /\ "Paid" \in PlayerRoomState
    BY DEF IInv, TypeOK, PlayerRoomState
  <2>2. [seat[r][p] EXCEPT !.state = "Paid", !.payout = prize] \in RoomPlayer
    BY <1>2, <2>1, RecordTypes
  <2>3. QED BY <1>1, <2>2 DEF IInv, TypeOK
<1>6. wallet' \in [Players \cup Keys -> Nat]
  BY <1>1, <1>2 DEF IInv, TypeOK, Config
<1>7. TypeOK'
  BY <1>1, <1>4, <1>5, <1>6 DEF IInv, TypeOK, custody
<1>8. PoolSolvent' /\ ConfigInv'
  BY <1>1 DEF IInv, PoolSolvent, ConfigInv, custody
<1>9. QED BY <1>4, <1>7, <1>8 DEF IInv

(* distribute_winnings credits amounts that add up to the prize, and moves *)
(* exactly the prize into the pool.                                        *)
LEMMA DistributeWinningsStep ==
  ASSUME IInv, NEW k \in Keys, NEW r \in Rooms, NEW winners \in SUBSET Players,
         NEW payouts \in [winners -> Amounts], DistributeWinnings(k, r, payouts)
  PROVE  IInv'
<1> USE ConstantsAssumption
<1> DEFINE prize == room[r].prizePool
           rake == room[r].rakeAmount
           paid == [x \in Players |-> IF x \in winners THEN payouts[x] ELSE 0]
<1>0. DOMAIN payouts = winners /\ payouts \in [winners -> Nat]
  OBVIOUS
<1>1. /\ Status(r) = "Unlocked"
      /\ Total(payouts) = prize
      /\ pool' = pool + prize
      /\ vault' = [vault EXCEPT ![r] = @ - (prize + rake)]
      /\ wallet' = [wallet EXCEPT ![config.feeDestination] = @ + rake]
      /\ room' = [room EXCEPT ![r].status = "Settled"]
      /\ UNCHANGED <<config, hasAccount, treasury, clock>>
  BY DEF DistributeWinnings, validate_payouts
<1>2. balance' = [x \in Players |-> balance[x] + (IF x \in winners THEN payouts[x] ELSE 0)]
  BY <1>0 DEF DistributeWinnings
<1>3. seat' = [seat EXCEPT ![r] =
                [x \in Players |-> IF x \in winners
                                   THEN [seat[r][x] EXCEPT !.state = "Paid",
                                                           !.payout = payouts[x]]
                                   ELSE seat[r][x]]]
  BY <1>0 DEF DistributeWinnings
<1>4. /\ prize \in Nat /\ rake \in Nat /\ config.feeDestination \in Keys
      /\ IsFiniteSet(Players) /\ balance \in [Players -> Nat] /\ pool \in Nat
      /\ wallet \in [Players \cup Keys -> Nat]
  BY DEF IInv, TypeOK, RoomAccount, Config
<1> HIDE DEF prize, rake
<1>5. Total(balance') = Total(balance) + prize /\ balance' \in [Players -> Nat]
  <2>1. paid \in [Players -> Nat]
    BY <1>0
  <2>2. Total(paid) = Total(payouts)
    BY <1>0, TotalExtend
  <2>3. \A x \in Players : paid[x] = IF x \in winners THEN payouts[x] ELSE 0
    OBVIOUS
  <2> HIDE DEF paid
  <2>4. balance' = [x \in Players |-> balance[x] + paid[x]]
    BY <1>2, <2>3
  <2>5. balance' \in [Players -> Nat] /\ \A x \in Players : balance'[x] = balance[x] + paid[x]
    BY <1>4, <2>1, <2>4
  <2>6. Total(balance') = Total(balance) + Total(paid)
    BY <1>4, <2>1, <2>5, TotalAdd
  <2>7. QED BY <1>1, <2>2, <2>5, <2>6
<1>6. Total(balance) \in Nat
  BY <1>4, TotalType
<1>7. PoolSolvent' /\ ConfigInv'
  BY <1>1, <1>4, <1>5, <1>6 DEF IInv, PoolSolvent, ConfigInv
<1>8. /\ \A x \in Players : seat'[r][x] = seat[r][x] \/ seat'[r][x].state = "Paid"
      /\ \A q \in Rooms : q # r => seat'[q] = seat[q]
  <2>1. seat \in [Rooms -> [Players -> RoomPlayer]]
    BY DEF IInv, TypeOK
  <2>2. \A x \in winners : \A v :
          [seat[r][x] EXCEPT !.state = "Paid", !.payout = v].state = "Paid"
    BY <2>1 DEF RoomPlayer
  <2>3. QED BY <1>3, <2>1, <2>2
<1>9. /\ \A q \in Rooms : RoomInv(q)'
      /\ room' \in [Rooms -> RoomAccount]
      /\ vault' \in [Rooms -> Nat]
  BY <1>1, <1>8, RoomSettled DEF prize, rake
<1>10. seat' \in [Rooms -> [Players -> RoomPlayer]]
  <2>1. "Paid" \in PlayerRoomState /\ \A x \in Players : seat[r][x] \in RoomPlayer
    BY DEF IInv, TypeOK, PlayerRoomState
  <2>2. \A x \in winners : payouts[x] \in Nat /\ x \in Players
    BY <1>0
  <2>3. \A x \in winners :
          [seat[r][x] EXCEPT !.state = "Paid", !.payout = payouts[x]] \in RoomPlayer
    BY <2>1, <2>2, RecordTypes
  <2>4. QED BY <1>3, <2>1, <2>3 DEF IInv, TypeOK
<1>11. wallet' \in [Players \cup Keys -> Nat]
  BY <1>1, <1>4
<1>12. TypeOK'
  BY <1>1, <1>4, <1>5, <1>9, <1>10, <1>11 DEF IInv, TypeOK
<1>13. QED BY <1>7, <1>9, <1>12 DEF IInv

-----------------------------------------------------------------------------
(* Every step of the program, and every stuttering step, keeps IInv. *)
LEMMA NextInv == IInv /\ [Next]_vars => IInv'
<1> SUFFICES ASSUME IInv, [Next]_vars PROVE IInv'
  OBVIOUS
<1>1. CASE AdminStep
  BY <1>1, AdminSteps
<1>2. CASE PlayerStep
  <2>1. PICK p \in Players :
          \/ \E amount \in Amounts : Deposit(p, amount)
          \/ \E amount \in Amounts : Withdraw(p, amount)
          \/ \E r \in Rooms : JoinRoom(p, r)
          \/ \E r \in Rooms : LockEntryFee(p, r)
          \/ \E r \in Rooms : EnterRoom(p, r)
    BY <1>2 DEF PlayerStep
  <2>2. QED BY <2>1, DepositStep, WithdrawStep, JoinRoomStep, LockEntryFeeStep, EnterRoomStep
<1>3. CASE AuthorityStep
  <2>1. PICK k \in Keys, r \in Rooms :
          \/ \E fee \in EntryFees, n \in Capacities : CreateRoom(k, r, fee, n)
          \/ StartRoom(k, r)
          \/ UnlockPrize(k, r)
          \/ \E payouts \in PayoutTables : DistributeWinnings(k, r, payouts)
          \/ \E p \in Players : SettleToWinner(k, r, p)
    BY <1>3 DEF AuthorityStep
  <2>2. CASE \E payouts \in PayoutTables : DistributeWinnings(k, r, payouts)
    <3>1. PICK payouts \in PayoutTables : DistributeWinnings(k, r, payouts)
      BY <2>2
    <3>2. PICK winners \in SUBSET Players : payouts \in [winners -> Amounts]
      BY DEF PayoutTables
    <3>3. QED BY <3>1, <3>2, DistributeWinningsStep
  <2>3. QED BY <2>1, <2>2, CreateRoomStep, StartRoomStep, UnlockPrizeStep, SettleToWinnerStep
<1>4. CASE PermissionlessStep
  <2>1. PICK r \in Rooms :
          \/ \E w \in Players \cup Keys : CancelRoom(w, r)
          \/ \E p \in Players : ClaimRefund(p, r)
          \/ CloseRoom(r)
          \/ \E p \in Players : CloseRoomPlayer(p, r)
    BY <1>4 DEF PermissionlessStep
  <2>2. QED BY <2>1, CancelRoomStep, ClaimRefundStep, CloseRoomStep, CloseRoomPlayerStep
<1>5. CASE AdvanceClock
  BY <1>5, ClockStep
<1>6. CASE UNCHANGED vars
  <2>1. UNCHANGED <<wallet, custody, rooms, treasury, clock>> /\ UNCHANGED config
    BY <1>6 DEF vars, custody, rooms
  <2>2. config' \in Config /\ ConfigInv'
    BY <2>1 DEF IInv, TypeOK, ConfigInv
  <2>3. QED BY <2>1, <2>2, ConfigSteps
<1>7. QED BY <1>1, <1>2, <1>3, <1>4, <1>5, <1>6 DEF Next

(* IInv holds in every reachable state, for any players, rooms and amounts. *)
THEOREM InductiveInvariant == Spec => []IInv
<1>1. Init => IInv
  BY InitInv
<1>2. IInv /\ [Next]_vars => IInv'
  BY NextInv
<1>3. QED BY <1>1, <1>2, PTL DEF Spec

(* Every account keeps values of its type: in particular no checked        *)
(* subtraction of the program's lamport arithmetic ever goes below zero.   *)
THEOREM TypeCorrect == Spec => []TypeOK
<1>1. IInv => TypeOK
  BY DEF IInv
<1>2. QED BY <1>1, InductiveInvariant, PTL

(* The custody pool is solvent: it holds the rent floor and exactly the    *)
(* sum of all custody balances (deposit, withdraw, lock_entry_fee,         *)
(* distribute_winnings, claim_refund).                                     *)
THEOREM PoolSolvency == Spec => []PoolSolvent
<1>1. IInv => PoolSolvent
  BY DEF IInv
<1>2. QED BY <1>1, InductiveInvariant, PTL

(* Both: the lamports of the accounts stay in their types, and the pool    *)
(* stays solvent.                                                          *)
THEOREM ArenaIsSolvent == Spec => []ArenaInv
<1>1. TypeOK /\ PoolSolvent => ArenaInv
  BY DEF ArenaInv
<1>2. QED BY <1>1, TypeCorrect, PoolSolvency, PTL

(* Every room vault holds exactly what its room owes. *)
THEOREM EscrowExactness == Spec => []EscrowExact
<1>1. IInv => EscrowExact
  <2> SUFFICES ASSUME IInv, NEW r \in Rooms
               PROVE  vault[r] = CASE Live(r) -> RENT + room[r].totalLocked
                                   [] Status(r) = "Settled" -> RENT
                                   [] OTHER -> 0
    BY DEF EscrowExact
  <2>1. Status(r) \in RoomStatus /\ VaultInv(r)
    BY DEF IInv, TypeOK, RoomAccount, Status, RoomInv
  <2>2. QED BY <2>1 DEF VaultInv, Live, RoomStatus
<1>2. QED BY <1>1, InductiveInvariant, PTL

(* total_locked is the sum of the stakes of the funded records. *)
THEOREM StakesSum == Spec => []StakesAddUp
<1>1. IInv => StakesAddUp
  BY DEF IInv, RoomInv, StakeInv, StakesAddUp
<1>2. QED BY <1>1, InductiveInvariant, PTL

(* player_count and locked_count are the numbers of records and of funded  *)
(* records, so start_room's comparison means that everyone has paid.       *)
THEOREM CountersMean == Spec => []CountersAreSeats
<1>1. IInv => CountersAreSeats
  BY DEF IInv, RoomInv, CounterInv, CountersAreSeats
<1>2. QED BY <1>1, InductiveInvariant, PTL

(* Prize and rake are the whole pot and the rake is within the room's fee. *)
THEOREM PotSplits == Spec => []PotSplit
<1>1. IInv => PotSplit
  BY DEF IInv, RoomInv, SplitInv, PotSplit
<1>2. QED BY <1>1, InductiveInvariant, PTL

(* A cancelled room can pay every refund it owes, in any order. *)
THEOREM RefundsArePayable == Spec => []RefundsPayable
<1>1. IInv => RefundsPayable
  <2> SUFFICES ASSUME IInv, NEW r \in Rooms, NEW p \in Players,
                      Status(r) = "Cancelled", State(r, p) = "Locked"
               PROVE  /\ room[r].totalLocked >= seat[r][p].lockedAmount
                      /\ CanTransferFrom(vault[r], seat[r][p].lockedAmount)
    BY DEF RefundsPayable
  <2> DEFINE fee == room[r].entryFee
             locked == Cardinality(LockedPlayers(r))
  <2>1. /\ room[r].totalLocked = fee * locked /\ seat[r][p].lockedAmount = fee
        /\ vault[r] = RENT + room[r].totalLocked
    BY DEF IInv, RoomInv, StakeInv, VaultInv, Live, LockedPlayers
  <2>2. fee \in Nat /\ locked \in Nat /\ locked # 0
    <3>1. p \in LockedPlayers(r)
      BY DEF LockedPlayers
    <3>2. locked # 0
      BY <3>1, FiniteSeats, FS_EmptySet
    <3>3. QED BY <3>2, FiniteSeats DEF IInv, TypeOK, RoomAccount
  <2> HIDE DEF fee, locked
  <2>3. fee * locked = fee * (locked - 1) + fee /\ fee * (locked - 1) \in Nat
    <3>1. locked - 1 \in Nat /\ (locked - 1) + 1 = locked
      BY <2>2
    <3>2. QED BY <2>2, <3>1, OneMoreStake
  <2>4. QED BY <2>1, <2>2, <2>3, ConstantsAssumption DEF CanTransferFrom
<1>2. QED BY <1>1, InductiveInvariant, PTL

(* The books of a room agree with each other and with its vault, for any   *)
(* players, rooms and fees and under any order of instructions.            *)
THEOREM RoomBooks == Spec => []RoomBooksAgree
BY EscrowExactness, StakesSum, CountersMean, PotSplits, RefundsArePayable, PTL
   DEF RoomBooksAgree

(* No room both pays a winner and refunds an entrant. *)
THEOREM PaidOrRefunded == Spec => []PaidXorRefunded
<1>1. IInv => PaidXorRefunded
  BY DEF IInv, RoomInv, SeatInv, PaidXorRefunded
<1>2. QED BY <1>1, InductiveInvariant, PTL

(***************************************************************************)
(* The arena program implements Escrow, and no instruction but a           *)
(* settlement or a charged withdrawal costs a player anything.  Every      *)
(* lemma about an instruction says what it does to the view Escrow has of  *)
(* the program.                                                            *)
(***************************************************************************)

(* The view of the program that ArenaEscrow maps to Escrow's variables. *)
Phase == [r \in Rooms |-> PhaseOf(Status(r))]
Ante == [r \in Rooms |-> room[r].entryFee]
Stakes == [r \in Rooms |-> [p \in Players |-> StakeOf(r, p)]]
Held == [r \in Rooms |-> HeldBy(r)]
Money == [p \in Players |-> wallet[p] + balance[p]]

view == <<Phase, Ante, Stakes, Held, Money>>

(* create_room refuses a fee below the minimum, so a stake is never zero   *)
(* and a funded record can be told from an unfunded one by its amount.     *)
FeeInv == \A r \in Rooms : Status(r) # "Absent" => room[r].entryFee > 0

EInv == IInv /\ FeeInv

-----------------------------------------------------------------------------
(* What the inductive invariant says of the view. *)
LEMMA ViewTypes ==
  ASSUME EInv
  PROVE  /\ Stakes \in [Rooms -> [Players -> Nat]]
         /\ Money \in [Players -> Nat]
         /\ Ante \in [Rooms -> Nat]
         /\ \A r \in Rooms : Status(r) \in RoomStatus
         /\ \A r \in Rooms, p \in Players :
              /\ State(r, p) \in PlayerRoomState
              /\ StakeOf(r, p) = IF Live(r) /\ State(r, p) = "Locked"
                                 THEN room[r].entryFee ELSE 0
              /\ StakeOf(r, p) > 0 <=> Live(r) /\ State(r, p) = "Locked"
<1>1. /\ wallet \in [Players \cup Keys -> Nat] /\ balance \in [Players -> Nat]
      /\ room \in [Rooms -> RoomAccount] /\ seat \in [Rooms -> [Players -> RoomPlayer]]
  BY DEF EInv, IInv, TypeOK
<1>2. Money \in [Players -> Nat] /\ Ante \in [Rooms -> Nat]
  BY <1>1 DEF Money, Ante, RoomAccount
<1>3. ASSUME NEW r \in Rooms, NEW p \in Players
      PROVE  /\ State(r, p) \in PlayerRoomState
             /\ Status(r) \in RoomStatus
             /\ StakeOf(r, p) \in Nat
             /\ StakeOf(r, p) = IF Live(r) /\ State(r, p) = "Locked"
                                THEN room[r].entryFee ELSE 0
             /\ StakeOf(r, p) > 0 <=> Live(r) /\ State(r, p) = "Locked"
  <2>1. /\ State(r, p) \in PlayerRoomState /\ Status(r) \in RoomStatus
        /\ room[r].entryFee \in Nat
    BY <1>1 DEF State, Status, RoomPlayer, RoomAccount
  <2>2. Live(r) /\ State(r, p) = "Locked" =>
          seat[r][p].lockedAmount = room[r].entryFee /\ room[r].entryFee > 0
    BY DEF EInv, IInv, RoomInv, StakeInv, LockedPlayers, FeeInv, Live
  <2>3. QED BY <2>1, <2>2 DEF StakeOf
<1>4. \A r \in Rooms : Status(r) \in RoomStatus
  BY <1>1 DEF Status, RoomAccount
<1>5. Stakes \in [Rooms -> [Players -> Nat]]
  BY <1>3 DEF Stakes
<1>6. QED BY <1>2, <1>3, <1>4, <1>5

(* A room whose accounts a step leaves alone looks the same after it. *)
LEMMA RoomViewFrame ==
  ASSUME NEW q \in Rooms, room'[q] = room[q], seat'[q] = seat[q], vault'[q] = vault[q]
  PROVE  /\ Status(q)' = Status(q)
         /\ HeldBy(q)' = HeldBy(q)
         /\ \A p \in Players : StakeOf(q, p)' = StakeOf(q, p)
BY DEF Status, HeldBy, StakeOf, Live, State

(* A step that leaves the rooms alone, and what each player has outside    *)
(* them, is invisible.                                                     *)
LEMMA Unseen ==
  ASSUME UNCHANGED rooms, \A p \in Players : wallet'[p] + balance'[p] = wallet[p] + balance[p]
  PROVE  UNCHANGED view
<1>1. UNCHANGED <<Phase, Ante, Stakes, Held>>
  BY DEF rooms, Phase, Ante, Stakes, Held, StakeOf, HeldBy, Status, State, Live
<1>2. UNCHANGED Money
  BY DEF Money
<1>3. QED BY <1>1, <1>2 DEF view

-----------------------------------------------------------------------------
(* The steps of Escrow, in terms of the view. *)

LEMMA SameTotal ==
  ASSUME NEW f
  PROVE  E!Total(f) = Total(f)
BY DEF E!Total, Total, E!Units, Units, E!Cardinality, Cardinality

LEMMA SameCardinality ==
  ASSUME NEW S
  PROVE  E!Cardinality(S) = Cardinality(S)
BY DEF E!Cardinality, Cardinality

LEMMA MapOffer ==
  ASSUME NEW r \in Rooms, Phase[r] = "none",
         Phase' = [Phase EXCEPT ![r] = "taking"],
         Ante' = [Ante EXCEPT ![r] = Ante'[r]], Ante'[r] > 0,
         UNCHANGED <<Stakes, Held, Money>>
  PROVE  E!Offer(r)
BY DEF E!Offer, Phase, Ante, Stakes, Held, Money

LEMMA MapStake ==
  ASSUME NEW r \in Rooms, NEW p \in Players, Phase[r] = "taking",
         Stakes[r][p] = 0, Money[p] >= Ante[r],
         Stakes' = [Stakes EXCEPT ![r][p] = Ante[r]],
         Held' = [Held EXCEPT ![r] = @ + Ante[r]],
         Money' = [Money EXCEPT ![p] = @ - Ante[r]],
         UNCHANGED <<Phase, Ante>>
  PROVE  E!Stake(r, p)
BY DEF E!Stake, Phase, Ante, Stakes, Held, Money

(* The house keeps no more than its share of a pot. *)
WithinShare(cut, pot) == cut * 10000 <= pot * MAX_FEE_BPS

LEMMA MapPayOut ==
  ASSUME NEW r \in Rooms, Phase[r] = "playing",
         Phase' = [Phase EXCEPT ![r] = "paid"],
         NEW gain \in [Players -> Nat],
         \A p \in Players : Money'[p] - Money[p] = gain[p],
         \A p \in Players : gain[p] > 0 => Stakes[r][p] > 0,
         Total(gain) <= Held[r],
         WithinShare(Held[r] - Total(gain), Held[r]),
         NEW zero, zero = [p \in Players |-> 0],
         Stakes' = [Stakes EXCEPT ![r] = zero],
         Held' = [Held EXCEPT ![r] = 0],
         UNCHANGED Ante
  PROVE  E!PayOut(r)
<1>1. gain = [p \in Players |-> Money'[p] - Money[p]]
  OBVIOUS
<1>2. E!Total(gain) = Total(gain)
  BY SameTotal
<1>3. QED BY <1>1, <1>2 DEF E!PayOut, E!Stakers, Phase, Ante, Stakes, Held, Money, WithinShare

LEMMA MapPlay ==
  ASSUME NEW r \in Rooms, Phase[r] = "taking",
         Cardinality({ p \in Players : Stakes[r][p] > 0 }) >= 2,
         Phase' = [Phase EXCEPT ![r] = "playing"],
         UNCHANGED <<Ante, Stakes, Held, Money>>
  PROVE  E!Play(r)
<1>1. E!Cardinality({ p \in Players : Stakes[r][p] > 0 }) >= 2
  BY SameCardinality
<1>2. QED BY <1>1 DEF E!Play, E!Stakers, Phase, Ante, Stakes, Held, Money

LEMMA MapCallOff ==
  ASSUME NEW r \in Rooms, Phase[r] \in {"taking", "playing"},
         Phase' = [Phase EXCEPT ![r] = "void"],
         UNCHANGED <<Ante, Stakes, Held, Money>>
  PROVE  E!CallOff(r)
BY DEF E!CallOff, Phase, Ante, Stakes, Held, Money

LEMMA MapHandBack ==
  ASSUME NEW r \in Rooms, NEW p \in Players, Phase[r] = "void",
         Stakes[r][p] > 0,
         Money' = [Money EXCEPT ![p] = @ + Stakes[r][p]],
         Held' = [Held EXCEPT ![r] = @ - Stakes[r][p]],
         Stakes' = [Stakes EXCEPT ![r][p] = 0],
         UNCHANGED <<Phase, Ante>>
  PROVE  E!HandBack(r, p)
BY DEF E!HandBack, E!Stakers, Phase, Ante, Stakes, Held, Money

LEMMA MapForget ==
  ASSUME NEW r \in Rooms, Phase[r] \in {"paid", "void"}, Held[r] = 0,
         \A p \in Players : Stakes[r][p] = 0,
         Phase' = [Phase EXCEPT ![r] = "none"],
         Ante' = [Ante EXCEPT ![r] = 0],
         UNCHANGED <<Stakes, Held, Money>>
  PROVE  E!Forget(r)
BY DEF E!Forget, E!Stakers, Phase, Ante, Stakes, Held, Money

(* Nor is more than the exit charge taken from what a player has. *)
WithinExit(cut, amount) == cut * 10000 <= amount * MAX_WITHDRAWAL_FEE_BPS

LEMMA MapCharge ==
  ASSUME NEW p \in Players, Money'[p] < Money[p],
         WithinExit(Money[p] - Money'[p], Money[p]),
         Money' = [Money EXCEPT ![p] = Money'[p]],
         UNCHANGED <<Phase, Ante, Stakes, Held>>
  PROVE  E!Charge(p)
BY DEF E!Charge, Phase, Ante, Stakes, Held, Money, WithinExit

-----------------------------------------------------------------------------
(* A step on one room changes the view of that room only. *)
LEMMA OneRoomView ==
  ASSUME NEW r \in Rooms,
         \A q \in Rooms : q # r =>
            room'[q] = room[q] /\ seat'[q] = seat[q] /\ vault'[q] = vault[q]
  PROVE  /\ Phase' = [Phase EXCEPT ![r] = PhaseOf(Status(r)')]
         /\ Ante' = [Ante EXCEPT ![r] = room'[r].entryFee]
         /\ Held' = [Held EXCEPT ![r] = HeldBy(r)']
         /\ Stakes' = [Stakes EXCEPT ![r] = [p \in Players |-> StakeOf(r, p)']]
<1>1. \A q \in Rooms : q # r =>
        /\ Status(q)' = Status(q)
        /\ HeldBy(q)' = HeldBy(q)
        /\ \A p \in Players : StakeOf(q, p)' = StakeOf(q, p)
  BY RoomViewFrame
<1>2. Phase' = [q \in Rooms |-> PhaseOf(Status(q)')]
  BY DEF Phase, PhaseOf
<1>3. Ante' = [q \in Rooms |-> room'[q].entryFee]
  BY DEF Ante
<1>4. Held' = [q \in Rooms |-> HeldBy(q)']
  BY DEF Held
<1>5. Stakes' = [q \in Rooms |-> [p \in Players |-> StakeOf(q, p)']]
  BY DEF Stakes
<1>6. QED BY <1>1, <1>2, <1>3, <1>4, <1>5 DEF Phase, Ante, Held, Stakes

(* The same when one record of the room changes. *)
LEMMA OneRecordView ==
  ASSUME NEW r \in Rooms, NEW p \in Players, NEW v, StakeOf(r, p)' = v,
         \A q \in Rooms, x \in Players : q # r \/ x # p => StakeOf(q, x)' = StakeOf(q, x)
  PROVE  Stakes' = [Stakes EXCEPT ![r][p] = v]
<1>1. Stakes' = [q \in Rooms |-> [x \in Players |-> StakeOf(q, x)']]
  BY DEF Stakes
<1>2. QED BY <1>1 DEF Stakes

-----------------------------------------------------------------------------
(* Instructions Escrow does not see: administration, deposits, the clock,  *)
(* a record that holds no stake, and the splitting of the pot.             *)

LEMMA AdminView ==
  ASSUME EInv, AdminStep
  PROVE  UNCHANGED view
<1> USE ConstantsAssumption
<1>1. PICK k \in Keys :
        \/ UNCHANGED <<wallet, custody, rooms>>
        \/ \E key \in Keys, amount \in Amounts : WithdrawTreasury(k, key, amount)
  BY DEF AdminStep, UpdateFee, UpdateWithdrawalFee, UpdateSettlementAuthority,
         UpdateFeeDestination, UpdatePaused, TransferAdmin, AcceptAdmin, SetConfig
<1>2. CASE UNCHANGED <<wallet, custody, rooms>>
  BY <1>2, Unseen DEF custody
<1>3. CASE \E key \in Keys, amount \in Amounts : WithdrawTreasury(k, key, amount)
  <2>1. PICK key \in Keys, amount \in Amounts :
          /\ wallet' = [wallet EXCEPT ![key] = @ + amount]
          /\ UNCHANGED <<custody, rooms>>
    BY <1>3 DEF WithdrawTreasury
  <2>2. \A p \in Players : wallet'[p] = wallet[p]
    BY <2>1 DEF EInv, IInv, TypeOK
  <2>3. QED BY <2>1, <2>2, Unseen DEF custody
<1>4. QED BY <1>1, <1>2, <1>3

LEMMA ClockView ==
  ASSUME AdvanceClock
  PROVE  UNCHANGED view
BY Unseen DEF AdvanceClock, custody

LEMMA DepositView ==
  ASSUME EInv, NEW p \in Players, NEW amount \in Amounts, Deposit(p, amount)
  PROVE  UNCHANGED view
<1>1. /\ wallet' = [wallet EXCEPT ![p] = @ - amount]
      /\ balance' = [balance EXCEPT ![p] = @ + amount]
      /\ UNCHANGED rooms
  BY DEF Deposit
<1>2. /\ wallet \in [Players \cup Keys -> Nat] /\ balance \in [Players -> Nat]
      /\ amount \in Nat
  BY ConstantsAssumption DEF EInv, IInv, TypeOK
<1>3. \A x \in Players : wallet'[x] + balance'[x] = wallet[x] + balance[x]
  BY <1>1, <1>2
<1>4. QED BY <1>1, <1>3, Unseen

LEMMA JoinRoomView ==
  ASSUME EInv, NEW p \in Players, NEW r \in Rooms, JoinRoom(p, r)
  PROVE  UNCHANGED view
<1>1. /\ Status(r) = "Open" /\ State(r, p) = "None"
      /\ room' = [room EXCEPT ![r].playerCount = @ + 1]
      /\ seat' = [seat EXCEPT ![r][p] = [state |-> "Joined", lockedAmount |-> 0, payout |-> 0]]
      /\ UNCHANGED <<wallet, balance, vault>>
  BY DEF JoinRoom, custody
<1>2. room \in [Rooms -> RoomAccount] /\ seat \in [Rooms -> [Players -> RoomPlayer]]
  BY DEF EInv, IInv, TypeOK
<1>3. \A q \in Rooms : Status(q)' = Status(q) /\ room'[q].entryFee = room[q].entryFee
  BY <1>1, <1>2 DEF Status, RoomAccount
<1>4. \A q \in Rooms, x \in Players : StakeOf(q, x)' = StakeOf(q, x)
  BY <1>1, <1>2, <1>3 DEF StakeOf, Live, State
<1>5. UNCHANGED <<Phase, Ante, Stakes, Held>>
  BY <1>1, <1>3, <1>4 DEF Phase, Ante, Stakes, Held, HeldBy
<1>6. UNCHANGED Money
  BY <1>1 DEF Money
<1>7. QED BY <1>5, <1>6 DEF view

LEMMA UnlockPrizeView ==
  ASSUME EInv, NEW k, NEW r \in Rooms, UnlockPrize(k, r)
  PROVE  UNCHANGED view
<1> DEFINE rake == Rake(r)
<1>1. /\ Status(r) = "InProgress"
      /\ room' = [room EXCEPT ![r].rakeAmount = rake,
                              ![r].prizePool = room[r].totalLocked - rake,
                              ![r].status = "Unlocked"]
      /\ UNCHANGED <<wallet, balance, seat, vault>>
  BY DEF UnlockPrize, custody
<1> HIDE DEF rake
<1>2. room \in [Rooms -> RoomAccount]
  BY DEF EInv, IInv, TypeOK
<1>3. /\ Status(r)' = "Unlocked" /\ room'[r].entryFee = room[r].entryFee
      /\ \A q \in Rooms : q # r => room'[q] = room[q]
  BY <1>1, <1>2 DEF Status, RoomAccount
<1>4. PhaseOf(Status(r)') = "playing" /\ PhaseOf(Status(r)) = "playing"
  BY <1>1, <1>3 DEF PhaseOf
<1>5. /\ HeldBy(r)' = HeldBy(r)
      /\ \A x \in Players : StakeOf(r, x)' = StakeOf(r, x)
  BY <1>1, <1>3 DEF HeldBy, StakeOf, Live, State, Status
<1>6. \A q \in Rooms : q # r =>
        room'[q] = room[q] /\ seat'[q] = seat[q] /\ vault'[q] = vault[q]
  BY <1>1, <1>3
<1>7. UNCHANGED <<Phase, Ante, Stakes, Held>>
  <2>1. /\ Phase' = [Phase EXCEPT ![r] = PhaseOf(Status(r)')]
        /\ Ante' = [Ante EXCEPT ![r] = room'[r].entryFee]
        /\ Held' = [Held EXCEPT ![r] = HeldBy(r)']
        /\ Stakes' = [Stakes EXCEPT ![r] = [x \in Players |-> StakeOf(r, x)']]
    BY <1>6, OneRoomView
  <2>2. UNCHANGED Phase
    BY <1>4, <2>1 DEF Phase
  <2>3. UNCHANGED <<Ante, Held>>
    BY <1>3, <1>5, <2>1 DEF Ante, Held
  <2>4. UNCHANGED Stakes
    BY <1>5, <2>1 DEF Stakes
  <2>5. QED BY <2>2, <2>3, <2>4
<1>8. UNCHANGED Money
  BY <1>1 DEF Money
<1>9. QED BY <1>7, <1>8 DEF view

LEMMA CloseRoomPlayerView ==
  ASSUME EInv, NEW p \in Players, NEW r \in Rooms, CloseRoomPlayer(p, r)
  PROVE  UNCHANGED view
<1>1. /\ State(r, p) \in {"Paid", "Refunded"}
      /\ seat' = [seat EXCEPT ![r][p] = NoSeat]
      /\ UNCHANGED <<wallet, balance, room, vault>>
  BY DEF CloseRoomPlayer, custody
<1>2. seat \in [Rooms -> [Players -> RoomPlayer]]
  BY DEF EInv, IInv, TypeOK
<1>3. \A q \in Rooms, x \in Players : StakeOf(q, x)' = StakeOf(q, x)
  BY <1>1, <1>2 DEF StakeOf, Live, State, Status, NoSeat
<1>4. UNCHANGED <<Phase, Ante, Stakes, Held>>
  BY <1>1, <1>3 DEF Phase, Ante, Stakes, Held, HeldBy, Status
<1>5. UNCHANGED Money
  BY <1>1 DEF Money
<1>6. QED BY <1>4, <1>5 DEF view

-----------------------------------------------------------------------------
(* Instructions that are one step of Escrow. *)

(* create_room offers a match: the vault is funded to its rent floor by    *)
(* the authority, and no record of the room exists.                        *)
LEMMA CreateRoomView ==
  ASSUME EInv, NEW k \in Keys, NEW r \in Rooms, NEW fee \in EntryFees,
         NEW n \in Capacities, CreateRoom(k, r, fee, n)
  PROVE  E!Offer(r)
<1> USE ConstantsAssumption
<1>1. /\ Status(r) = "Absent" /\ vault[r] = 0
      /\ \A p \in Players : State(r, p) = "None"
      /\ fee \in Nat /\ fee > 0
  BY DEF CreateRoom, FreshRoomId, EInv, IInv, RoomInv, VaultInv
<1>2. /\ wallet' = [wallet EXCEPT ![k] = @ - (Funded(vault[r]) - vault[r])]
      /\ vault' = [vault EXCEPT ![r] = RENT]
      /\ UNCHANGED <<balance, seat>>
  <2>1. /\ wallet' = [wallet EXCEPT ![k] = @ - (Funded(vault[r]) - vault[r])]
        /\ vault' = [vault EXCEPT ![r] = Funded(vault[r])]
        /\ UNCHANGED <<balance, seat>>
    BY DEF CreateRoom, custody
  <2>2. Funded(vault[r]) = RENT
    BY <1>1 DEF Funded
  <2>3. QED BY <2>1, <2>2
<1>3. room' = [room EXCEPT ![r] =
                [NoRoom EXCEPT !.status = "Open", !.entryFee = fee, !.maxPlayers = n,
                               !.feeBps = config.feeBps, !.createdAt = clock]]
  BY DEF CreateRoom
<1>4. /\ vault \in [Rooms -> Nat] /\ room \in [Rooms -> RoomAccount]
      /\ wallet \in [Players \cup Keys -> Nat]
  BY DEF EInv, IInv, TypeOK
<1>5. Status(r)' = "Open" /\ room'[r].entryFee = fee /\ vault'[r] = RENT
  BY <1>2, <1>3, <1>4 DEF NoRoom, Status
<1>6. HeldBy(r) = 0 /\ HeldBy(r)' = 0
  BY <1>1, <1>5 DEF HeldBy
<1>7. \A p \in Players : StakeOf(r, p) = 0 /\ StakeOf(r, p)' = 0
  BY <1>1, <1>2 DEF StakeOf, Live, State
<1>8. PhaseOf(Status(r)) = "none" /\ PhaseOf(Status(r)') = "taking"
  BY <1>1, <1>5 DEF PhaseOf
<1>9. \A q \in Rooms : q # r =>
        room'[q] = room[q] /\ seat'[q] = seat[q] /\ vault'[q] = vault[q]
  BY <1>2, <1>3, <1>4
<1>10. /\ Phase' = [Phase EXCEPT ![r] = PhaseOf(Status(r)')]
       /\ Ante' = [Ante EXCEPT ![r] = room'[r].entryFee]
       /\ Held' = [Held EXCEPT ![r] = HeldBy(r)']
       /\ Stakes' = [Stakes EXCEPT ![r] = [p \in Players |-> StakeOf(r, p)']]
  BY <1>9, OneRoomView
<1>11. Phase[r] = "none" /\ Phase' = [Phase EXCEPT ![r] = "taking"]
  BY <1>8, <1>10 DEF Phase
<1>12. Ante'[r] > 0 /\ Ante' = [Ante EXCEPT ![r] = Ante'[r]]
  BY <1>1, <1>5, <1>10 DEF Ante
<1>13. UNCHANGED Held
  BY <1>6, <1>10 DEF Held
<1>14. UNCHANGED Stakes
  <2>1. [p \in Players |-> StakeOf(r, p)'] = Stakes[r]
    BY <1>7 DEF Stakes
  <2>2. QED BY <1>10, <2>1 DEF Stakes
<1>15. UNCHANGED Money
  BY <1>2, <1>4 DEF Money
<1>16. QED BY <1>11, <1>12, <1>13, <1>14, <1>15, MapOffer

(* lock_entry_fee and enter_room stake: one entry fee goes from what the   *)
(* player has, in custody or in the wallet, to the vault.                  *)
LEMMA StakeView ==
  ASSUME EInv, NEW p \in Players, NEW r \in Rooms,
         Status(r) = "Open", State(r, p) # "Locked",
         wallet[p] + balance[p] >= room[r].entryFee,
         wallet'[p] + balance'[p] = (wallet[p] + balance[p]) - room[r].entryFee,
         \A x \in Players : x # p => wallet'[x] + balance'[x] = wallet[x] + balance[x],
         \A q \in Rooms : q # r => room'[q] = room[q],
         room'[r].status = "Open", room'[r].entryFee = room[r].entryFee,
         vault' = [vault EXCEPT ![r] = @ + room[r].entryFee],
         seat'[r][p].state = "Locked", seat'[r][p].lockedAmount = room[r].entryFee,
         \A q \in Rooms, x \in Players : q # r \/ x # p => seat'[q][x] = seat[q][x]
  PROVE  E!Stake(r, p)
<1> DEFINE fee == room[r].entryFee
<1>1. /\ vault \in [Rooms -> Nat] /\ room \in [Rooms -> RoomAccount]
      /\ wallet \in [Players \cup Keys -> Nat] /\ balance \in [Players -> Nat]
      /\ fee \in Nat /\ RENT \in Nat
  BY ConstantsAssumption DEF EInv, IInv, TypeOK, RoomAccount
<1>2. \A q \in Rooms : Status(q)' = Status(q) /\ room'[q].entryFee = room[q].entryFee
  BY DEF Status
<1>3. Phase[r] = "taking" /\ UNCHANGED <<Phase, Ante>>
  <2>1. PhaseOf(Status(r)) = "taking"
    BY DEF PhaseOf
  <2>2. UNCHANGED <<Phase, Ante>>
    BY <1>2 DEF Phase, Ante
  <2>3. QED BY <2>1, <2>2 DEF Phase
<1>4. Stakes[r][p] = 0
  BY DEF Stakes, StakeOf
<1>5. Stakes' = [Stakes EXCEPT ![r][p] = fee]
  <2>1. StakeOf(r, p)' = fee
    BY DEF StakeOf, Live, Status, State
  <2>2. \A q \in Rooms, x \in Players : q # r \/ x # p => StakeOf(q, x)' = StakeOf(q, x)
    BY <1>2 DEF StakeOf, Live, State
  <2>3. QED BY <2>1, <2>2, OneRecordView
<1>6. Held' = [Held EXCEPT ![r] = @ + fee]
  <2>1. HeldBy(r)' = HeldBy(r) + fee
    BY <1>1, <1>2 DEF HeldBy
  <2>2. \A q \in Rooms : q # r => HeldBy(q)' = HeldBy(q)
    BY <1>2 DEF HeldBy
  <2>3. Held' = [q \in Rooms |-> HeldBy(q)']
    BY DEF Held
  <2>4. QED BY <2>1, <2>2, <2>3 DEF Held
<1>7. Money[p] >= fee /\ Money' = [Money EXCEPT ![p] = @ - fee]
  BY <1>1 DEF Money
<1>8. Ante[r] = fee
  BY DEF Ante
<1>9. QED BY <1>3, <1>4, <1>5, <1>6, <1>7, <1>8, MapStake

LEMMA LockEntryFeeView ==
  ASSUME EInv, NEW p \in Players, NEW r \in Rooms, LockEntryFee(p, r)
  PROVE  E!Stake(r, p)
<1> DEFINE fee == room[r].entryFee
<1>1. /\ Status(r) = "Open" /\ State(r, p) = "Joined" /\ balance[p] >= fee
      /\ balance' = [balance EXCEPT ![p] = @ - fee]
      /\ room' = [room EXCEPT ![r].totalLocked = @ + fee, ![r].lockedCount = @ + 1]
      /\ seat' = [seat EXCEPT ![r][p].state = "Locked", ![r][p].lockedAmount = fee]
      /\ vault' = [vault EXCEPT ![r] = @ + fee]
      /\ wallet' = wallet
  BY DEF LockEntryFee, HasBalance
<1>2. /\ room \in [Rooms -> RoomAccount] /\ seat \in [Rooms -> [Players -> RoomPlayer]]
      /\ wallet \in [Players \cup Keys -> Nat] /\ balance \in [Players -> Nat]
      /\ fee \in Nat
  BY DEF EInv, IInv, TypeOK, RoomAccount
<1>3. /\ room'[r].status = "Open" /\ room'[r].entryFee = fee
      /\ \A q \in Rooms : q # r => room'[q] = room[q]
  BY <1>1, <1>2 DEF RoomAccount, Status
<1>4. /\ seat'[r][p].state = "Locked" /\ seat'[r][p].lockedAmount = fee
      /\ \A q \in Rooms, x \in Players : q # r \/ x # p => seat'[q][x] = seat[q][x]
  BY <1>1, <1>2 DEF RoomPlayer
<1>5. /\ wallet[p] + balance[p] >= fee
      /\ wallet'[p] + balance'[p] = (wallet[p] + balance[p]) - fee
      /\ \A x \in Players : x # p => wallet'[x] + balance'[x] = wallet[x] + balance[x]
  BY <1>1, <1>2
<1>6. QED BY <1>1, <1>3, <1>4, <1>5, StakeView

LEMMA EnterRoomView ==
  ASSUME EInv, NEW p \in Players, NEW r \in Rooms, EnterRoom(p, r)
  PROVE  E!Stake(r, p)
<1> DEFINE fee == room[r].entryFee
<1>1. /\ Status(r) = "Open" /\ State(r, p) = "None" /\ wallet[p] >= fee
      /\ wallet' = [wallet EXCEPT ![p] = @ - fee]
      /\ room' = [room EXCEPT ![r].playerCount = @ + 1, ![r].lockedCount = @ + 1,
                              ![r].totalLocked = @ + fee]
      /\ seat' = [seat EXCEPT ![r][p] =
                    [state |-> "Locked", lockedAmount |-> fee, payout |-> 0]]
      /\ vault' = [vault EXCEPT ![r] = @ + fee]
      /\ balance' = balance
  BY DEF EnterRoom, custody
<1>2. /\ room \in [Rooms -> RoomAccount] /\ seat \in [Rooms -> [Players -> RoomPlayer]]
      /\ wallet \in [Players \cup Keys -> Nat] /\ balance \in [Players -> Nat]
      /\ fee \in Nat
  BY DEF EInv, IInv, TypeOK, RoomAccount
<1>3. /\ room'[r].status = "Open" /\ room'[r].entryFee = fee
      /\ \A q \in Rooms : q # r => room'[q] = room[q]
  BY <1>1, <1>2 DEF RoomAccount, Status
<1>4. /\ seat'[r][p].state = "Locked" /\ seat'[r][p].lockedAmount = fee
      /\ \A q \in Rooms, x \in Players : q # r \/ x # p => seat'[q][x] = seat[q][x]
  BY <1>1, <1>2 DEF RoomPlayer
<1>5. /\ wallet[p] + balance[p] >= fee
      /\ wallet'[p] + balance'[p] = (wallet[p] + balance[p]) - fee
      /\ \A x \in Players : x # p => wallet'[x] + balance'[x] = wallet[x] + balance[x]
  BY <1>1, <1>2
<1>6. QED BY <1>1, <1>3, <1>4, <1>5, StakeView

(* start_room compares counters; they are numbers of records, so at least  *)
(* two players have a stake.                                               *)
LEMMA StartRoomView ==
  ASSUME EInv, NEW k, NEW r \in Rooms, StartRoom(k, r)
  PROVE  E!Play(r)
<1>1. /\ Status(r) = "Open" /\ room[r].lockedCount >= 2
      /\ room' = [room EXCEPT ![r].status = "InProgress"]
      /\ UNCHANGED <<wallet, balance, seat, vault>>
  BY DEF StartRoom, MIN_PLAYERS_PER_ROOM, custody
<1>2. room \in [Rooms -> RoomAccount]
  BY DEF EInv, IInv, TypeOK
<1>3. /\ Status(r)' = "InProgress" /\ room'[r].entryFee = room[r].entryFee
      /\ \A q \in Rooms : q # r => room'[q] = room[q]
  BY <1>1, <1>2 DEF Status, RoomAccount
<1>4. /\ HeldBy(r)' = HeldBy(r)
      /\ \A x \in Players : StakeOf(r, x)' = StakeOf(r, x)
  BY <1>1, <1>3 DEF HeldBy, StakeOf, Live, State, Status
<1>5. /\ Phase' = [Phase EXCEPT ![r] = PhaseOf(Status(r)')]
      /\ Ante' = [Ante EXCEPT ![r] = room'[r].entryFee]
      /\ Held' = [Held EXCEPT ![r] = HeldBy(r)']
      /\ Stakes' = [Stakes EXCEPT ![r] = [x \in Players |-> StakeOf(r, x)']]
  BY <1>1, <1>3, OneRoomView
<1>6. Phase[r] = "taking" /\ Phase' = [Phase EXCEPT ![r] = "playing"]
  <2>1. PhaseOf(Status(r)) = "taking" /\ PhaseOf(Status(r)') = "playing"
    BY <1>1, <1>3 DEF PhaseOf
  <2>2. QED BY <1>5, <2>1 DEF Phase
<1>7. UNCHANGED <<Ante, Held, Money>>
  BY <1>1, <1>3, <1>4, <1>5 DEF Ante, Held, Money
<1>8. UNCHANGED Stakes
  <2>1. [x \in Players |-> StakeOf(r, x)'] = Stakes[r]
    BY <1>4 DEF Stakes
  <2>2. QED BY <1>5, <2>1 DEF Stakes
<1>9. Cardinality({ p \in Players : Stakes[r][p] > 0 }) >= 2
  <2>1. { p \in Players : Stakes[r][p] > 0 } = LockedPlayers(r)
    BY <1>1, ViewTypes DEF Stakes, LockedPlayers, Live
  <2>2. Cardinality(LockedPlayers(r)) = room[r].lockedCount
    BY <1>1 DEF EInv, IInv, RoomInv, CounterInv
  <2>3. QED BY <1>1, <2>1, <2>2
<1>10. QED BY <1>6, <1>7, <1>8, <1>9, MapPlay

(* cancel_room voids a match that is not settled; every stake stays. *)
LEMMA CancelRoomView ==
  ASSUME EInv, NEW w, NEW r \in Rooms, CancelRoom(w, r)
  PROVE  E!CallOff(r)
<1>1. /\ Status(r) \notin {"Absent", "Settled", "Cancelled"}
      /\ room' = [room EXCEPT ![r].status = "Cancelled"]
      /\ UNCHANGED <<wallet, balance, seat, vault>>
  BY DEF CancelRoom, custody
<1>2. Status(r) \in {"Open", "InProgress", "Unlocked"}
  BY <1>1, ViewTypes DEF RoomStatus
<1>3. room \in [Rooms -> RoomAccount]
  BY DEF EInv, IInv, TypeOK
<1>4. /\ Status(r)' = "Cancelled" /\ room'[r].entryFee = room[r].entryFee
      /\ \A q \in Rooms : q # r => room'[q] = room[q]
  BY <1>1, <1>3 DEF Status, RoomAccount
<1>5. /\ HeldBy(r)' = HeldBy(r)
      /\ \A x \in Players : StakeOf(r, x)' = StakeOf(r, x)
  BY <1>1, <1>2, <1>4 DEF HeldBy, StakeOf, Live, State, Status
<1>6. /\ Phase' = [Phase EXCEPT ![r] = PhaseOf(Status(r)')]
      /\ Ante' = [Ante EXCEPT ![r] = room'[r].entryFee]
      /\ Held' = [Held EXCEPT ![r] = HeldBy(r)']
      /\ Stakes' = [Stakes EXCEPT ![r] = [x \in Players |-> StakeOf(r, x)']]
  BY <1>1, <1>4, OneRoomView
<1>7. Phase[r] \in {"taking", "playing"} /\ Phase' = [Phase EXCEPT ![r] = "void"]
  <2>1. PhaseOf(Status(r)) \in {"taking", "playing"} /\ PhaseOf(Status(r)') = "void"
    BY <1>2, <1>4 DEF PhaseOf
  <2>2. QED BY <1>6, <2>1 DEF Phase
<1>8. UNCHANGED <<Ante, Held, Money>>
  BY <1>1, <1>4, <1>5, <1>6 DEF Ante, Held, Money
<1>9. UNCHANGED Stakes
  <2>1. [x \in Players |-> StakeOf(r, x)'] = Stakes[r]
    BY <1>5 DEF Stakes
  <2>2. QED BY <1>6, <2>1 DEF Stakes
<1>10. QED BY <1>7, <1>8, <1>9, MapCallOff

(* claim_refund hands one stake back, to the custody balance. *)
LEMMA ClaimRefundView ==
  ASSUME EInv, NEW p \in Players, NEW r \in Rooms, ClaimRefund(p, r)
  PROVE  E!HandBack(r, p)
<1> DEFINE amount == seat[r][p].lockedAmount
<1>1. /\ Status(r) = "Cancelled" /\ State(r, p) = "Locked"
      /\ seat' = [seat EXCEPT ![r][p].state = "Refunded"]
      /\ balance' = [balance EXCEPT ![p] = @ + amount]
      /\ room' = [room EXCEPT ![r].totalLocked = @ - amount]
      /\ vault' = [vault EXCEPT ![r] = @ - amount]
      /\ wallet' = wallet
  BY DEF ClaimRefund, Refundable
<1>2. /\ room \in [Rooms -> RoomAccount] /\ seat \in [Rooms -> [Players -> RoomPlayer]]
      /\ wallet \in [Players \cup Keys -> Nat] /\ balance \in [Players -> Nat]
      /\ vault \in [Rooms -> Nat] /\ amount \in Nat /\ RENT \in Nat
  BY ConstantsAssumption DEF EInv, IInv, TypeOK, RoomPlayer
<1>3. \A q \in Rooms : Status(q)' = Status(q) /\ room'[q].entryFee = room[q].entryFee
  BY <1>1, <1>2 DEF Status, RoomAccount
<1>4. StakeOf(r, p) = amount /\ StakeOf(r, p) > 0
  BY <1>1, ViewTypes DEF StakeOf, Live
<1> HIDE DEF amount
<1>5. Phase[r] = "void" /\ UNCHANGED <<Phase, Ante>>
  <2>1. PhaseOf(Status(r)) = "void"
    BY <1>1 DEF PhaseOf
  <2>2. UNCHANGED <<Phase, Ante>>
    BY <1>3 DEF Phase, Ante
  <2>3. QED BY <2>1, <2>2 DEF Phase
<1>6. Stakes[r][p] = amount /\ Stakes' = [Stakes EXCEPT ![r][p] = 0]
  <2>1. StakeOf(r, p)' = 0
    BY <1>1, <1>2 DEF StakeOf, State, RoomPlayer
  <2>2. \A q \in Rooms, x \in Players : q # r \/ x # p => seat'[q][x] = seat[q][x]
    BY <1>1, <1>2
  <2>3. \A q \in Rooms, x \in Players : q # r \/ x # p => StakeOf(q, x)' = StakeOf(q, x)
    BY <1>3, <2>2 DEF StakeOf, Live, State
  <2>4. QED BY <1>4, <2>1, <2>3, OneRecordView DEF Stakes
<1>7. Held' = [Held EXCEPT ![r] = @ - amount]
  <2>1. HeldBy(r)' = HeldBy(r) - amount
    BY <1>1, <1>2, <1>3 DEF HeldBy
  <2>2. \A q \in Rooms : q # r => HeldBy(q)' = HeldBy(q)
    BY <1>1, <1>2, <1>3 DEF HeldBy
  <2>3. Held' = [q \in Rooms |-> HeldBy(q)']
    BY DEF Held
  <2>4. QED BY <2>1, <2>2, <2>3 DEF Held
<1>8. Money' = [Money EXCEPT ![p] = @ + amount]
  <2>1. /\ wallet'[p] + balance'[p] = (wallet[p] + balance[p]) + amount
        /\ \A x \in Players : x # p => wallet'[x] + balance'[x] = wallet[x] + balance[x]
    BY <1>1, <1>2
  <2>2. QED BY <2>1 DEF Money
<1>9. QED BY <1>4, <1>5, <1>6, <1>7, <1>8, MapHandBack

(* close_room forgets a room whose vault holds nothing but its rent, so no *)
(* stake is left in it.                                                    *)
LEMMA CloseRoomView ==
  ASSUME EInv, NEW r \in Rooms, CloseRoom(r)
  PROVE  E!Forget(r)
<1> USE ConstantsAssumption
<1>1. /\ Status(r) \in {"Settled", "Cancelled"} /\ vault[r] <= RENT
      /\ vault' = [vault EXCEPT ![r] = 0]
      /\ wallet' = [wallet EXCEPT ![config.settlementAuthority] = @ + vault[r]]
      /\ room' = [room EXCEPT ![r] = NoRoom]
      /\ UNCHANGED <<balance, seat>>
  BY DEF CloseRoom, VaultDrained, custody
<1>2. /\ room \in [Rooms -> RoomAccount] /\ vault \in [Rooms -> Nat] /\ RENT \in Nat
      /\ wallet \in [Players \cup Keys -> Nat] /\ config.settlementAuthority \in Keys
  BY DEF EInv, IInv, TypeOK, Config
<1>3. /\ Status(r)' = "Absent" /\ room'[r].entryFee = 0 /\ vault'[r] = 0
      /\ \A q \in Rooms : q # r =>
            room'[q] = room[q] /\ seat'[q] = seat[q] /\ vault'[q] = vault[q]
  BY <1>1, <1>2 DEF Status, NoRoom
<1>4. HeldBy(r) = 0 /\ HeldBy(r)' = 0
  BY <1>1, <1>2, <1>3 DEF HeldBy, EInv, IInv, TypeOK, RoomInv, VaultInv, Live, RoomAccount
<1>5. \A p \in Players : StakeOf(r, p) = 0 /\ StakeOf(r, p)' = 0
  <2>1. \A p \in Players : StakeOf(r, p)' = 0
    BY <1>3 DEF StakeOf, Live
  <2>2. CASE Status(r) = "Settled"
    BY <2>1, <2>2 DEF StakeOf, Live
  <2>3. CASE Status(r) = "Cancelled"
    <3> DEFINE fee == room[r].entryFee
               locked == Cardinality(LockedPlayers(r))
    <3>1. /\ fee * locked = room[r].totalLocked /\ vault[r] = RENT + room[r].totalLocked
          /\ fee > 0
      BY <2>3 DEF EInv, IInv, RoomInv, StakeInv, VaultInv, Live, FeeInv
    <3>2. fee \in Nat /\ locked \in Nat /\ room[r].totalLocked \in Nat
      BY <1>2, FiniteSeats DEF RoomAccount
    <3> HIDE DEF fee, locked
    <3>3. fee * locked = 0
      BY <1>1, <1>2, <3>1, <3>2
    <3>4. locked = 0
      BY <3>1, <3>2, <3>3
    <3>5. LockedPlayers(r) = {}
      BY <3>4, FiniteSeats, FS_EmptySet DEF locked
    <3>6. QED BY <2>1, <3>5 DEF StakeOf, LockedPlayers
  <2>4. QED BY <1>1, <2>2, <2>3
<1>6. /\ Phase' = [Phase EXCEPT ![r] = PhaseOf(Status(r)')]
      /\ Ante' = [Ante EXCEPT ![r] = room'[r].entryFee]
      /\ Held' = [Held EXCEPT ![r] = HeldBy(r)']
      /\ Stakes' = [Stakes EXCEPT ![r] = [x \in Players |-> StakeOf(r, x)']]
  BY <1>3, OneRoomView
<1>7. Phase[r] \in {"paid", "void"} /\ Phase' = [Phase EXCEPT ![r] = "none"]
  <2>1. PhaseOf(Status(r)) \in {"paid", "void"} /\ PhaseOf(Status(r)') = "none"
    BY <1>1, <1>3 DEF PhaseOf
  <2>2. QED BY <1>6, <2>1 DEF Phase
<1>8. Ante' = [Ante EXCEPT ![r] = 0]
  BY <1>3, <1>6
<1>9. Held[r] = 0 /\ UNCHANGED Held
  BY <1>4, <1>6 DEF Held
<1>10. (\A p \in Players : Stakes[r][p] = 0) /\ UNCHANGED Stakes
  <2>1. [x \in Players |-> StakeOf(r, x)'] = Stakes[r]
    BY <1>5 DEF Stakes
  <2>2. QED BY <1>5, <1>6, <2>1 DEF Stakes
<1>11. UNCHANGED Money
  BY <1>1, <1>2 DEF Money
<1>12. QED BY <1>7, <1>8, <1>9, <1>10, <1>11, MapForget

(* Both settlements pay the pot out: what the players gain is the prize,   *)
(* only players with a stake gain, and the rake is within the house's cap. *)
LEMMA SettledView ==
  ASSUME EInv, NEW r \in Rooms, Status(r) = "Unlocked",
         room' = [room EXCEPT ![r].status = "Settled"],
         vault' = [vault EXCEPT ![r] = @ - (room[r].prizePool + room[r].rakeAmount)],
         \A q \in Rooms : q # r => seat'[q] = seat[q],
         NEW gain \in [Players -> Nat],
         Total(gain) = room[r].prizePool,
         \A x \in Players : wallet'[x] + balance'[x] = (wallet[x] + balance[x]) + gain[x],
         \A x \in Players : gain[x] > 0 => State(r, x) = "Locked"
  PROVE  /\ E!PayOut(r)
         /\ Status(r)' = "Settled"
<1> USE ConstantsAssumption
<1> DEFINE prize == room[r].prizePool
           rake == room[r].rakeAmount
           pot == room[r].totalLocked
<1>1. /\ room \in [Rooms -> RoomAccount] /\ vault \in [Rooms -> Nat] /\ RENT \in Nat
      /\ wallet \in [Players \cup Keys -> Nat] /\ balance \in [Players -> Nat]
      /\ prize \in Nat /\ rake \in Nat /\ pot \in Nat /\ room[r].feeBps \in Nat
  BY DEF EInv, IInv, TypeOK, RoomAccount
<1>2. /\ vault[r] = RENT + pot /\ prize + rake = pot
      /\ rake * 10000 <= pot * room[r].feeBps /\ room[r].feeBps <= 1000
  BY DEF EInv, IInv, RoomInv, VaultInv, SplitInv, Live, BPS_DENOMINATOR, MAX_FEE_BPS
<1>3. /\ Status(r)' = "Settled" /\ room'[r].entryFee = room[r].entryFee
      /\ vault'[r] = RENT
      /\ \A q \in Rooms : q # r =>
            room'[q] = room[q] /\ seat'[q] = seat[q] /\ vault'[q] = vault[q]
  BY <1>1, <1>2 DEF Status, RoomAccount
<1>4. HeldBy(r) = pot /\ HeldBy(r)' = 0
  BY <1>1, <1>2, <1>3 DEF HeldBy
<1>5. /\ Phase' = [Phase EXCEPT ![r] = PhaseOf(Status(r)')]
      /\ Ante' = [Ante EXCEPT ![r] = room'[r].entryFee]
      /\ Held' = [Held EXCEPT ![r] = HeldBy(r)']
      /\ Stakes' = [Stakes EXCEPT ![r] = [x \in Players |-> StakeOf(r, x)']]
  BY <1>3, OneRoomView
<1>6. Phase[r] = "playing" /\ Phase' = [Phase EXCEPT ![r] = "paid"]
  <2>1. PhaseOf(Status(r)) = "playing" /\ PhaseOf(Status(r)') = "paid"
    BY <1>3 DEF PhaseOf
  <2>2. QED BY <1>5, <2>1 DEF Phase
<1>7. \A x \in Players : Money'[x] - Money[x] = gain[x]
  <2> SUFFICES ASSUME NEW x \in Players PROVE Money'[x] - Money[x] = gain[x]
    OBVIOUS
  <2>1. Money'[x] = wallet'[x] + balance'[x] /\ Money[x] = wallet[x] + balance[x]
    BY DEF Money
  <2>2. wallet[x] \in Nat /\ balance[x] \in Nat /\ gain[x] \in Nat
    BY <1>1
  <2>3. QED BY <2>1, <2>2
<1>8. \A x \in Players : gain[x] > 0 => Stakes[r][x] > 0
  BY ViewTypes DEF Stakes, Live
<1>9. Total(gain) <= Held[r] /\ WithinShare(Held[r] - Total(gain), Held[r])
  <2>1. Held[r] = pot /\ Total(gain) = prize
    BY <1>4 DEF Held
  <2>2. pot * room[r].feeBps <= pot * 1000 /\ pot * room[r].feeBps \in Nat
    <3>1. \A a, b \in Nat : b <= 1000 => a * b <= a * 1000 /\ a * b \in Nat
      OBVIOUS
    <3>2. QED BY <1>1, <1>2, <3>1
  <2> HIDE DEF prize, rake, pot
  <2>3. pot - prize = rake /\ prize <= pot
    BY <1>1, <1>2
  <2>4. rake * 10000 <= pot * 1000
    <3>1. rake * 10000 \in Nat /\ pot * 1000 \in Nat
      BY <1>1
    <3>2. QED BY <1>2, <2>2, <3>1
  <2>5. QED BY <2>1, <2>3, <2>4 DEF WithinShare, MAX_FEE_BPS
<1> DEFINE zero == [x \in Players |-> 0]
<1>10. Stakes' = [Stakes EXCEPT ![r] = zero] /\ Held' = [Held EXCEPT ![r] = 0]
  <2>1. \A x \in Players : StakeOf(r, x)' = 0
    BY <1>3 DEF StakeOf, Live
  <2>2. [x \in Players |-> StakeOf(r, x)'] = zero
    BY <2>1
  <2>3. QED BY <1>4, <1>5, <2>2
<1>11. UNCHANGED Ante
  BY <1>3, <1>5 DEF Ante
<1>12. E!PayOut(r)
  <2>1. zero = [x \in Players |-> 0]
    OBVIOUS
  <2> HIDE DEF zero
  <2>2. QED BY <1>6, <1>7, <1>8, <1>9, <1>10, <1>11, <2>1, MapPayOut
<1>13. QED BY <1>3, <1>12

LEMMA DistributeWinningsView ==
  ASSUME EInv, NEW k, NEW r \in Rooms, NEW winners \in SUBSET Players,
         NEW payouts \in [winners -> Amounts], DistributeWinnings(k, r, payouts)
  PROVE  E!PayOut(r) /\ Status(r) = "Unlocked" /\ Status(r)' = "Settled"
<1> USE ConstantsAssumption
<1> DEFINE gain == [x \in Players |-> IF x \in winners THEN payouts[x] ELSE 0]
<1>0. DOMAIN payouts = winners /\ payouts \in [winners -> Nat]
  OBVIOUS
<1>1. /\ Status(r) = "Unlocked" /\ Total(payouts) = room[r].prizePool
      /\ vault' = [vault EXCEPT ![r] = @ - (room[r].prizePool + room[r].rakeAmount)]
      /\ wallet' = [wallet EXCEPT ![config.feeDestination] = @ + room[r].rakeAmount]
      /\ room' = [room EXCEPT ![r].status = "Settled"]
      /\ \A p \in winners : State(r, p) = "Locked"
  BY <1>0 DEF DistributeWinnings, validate_payouts
<1>2. balance' = [x \in Players |-> balance[x] + (IF x \in winners THEN payouts[x] ELSE 0)]
  BY <1>0 DEF DistributeWinnings
<1>3. \A q \in Rooms : q # r => seat'[q] = seat[q]
  BY DEF DistributeWinnings, EInv, IInv, TypeOK
<1>4. /\ wallet \in [Players \cup Keys -> Nat] /\ balance \in [Players -> Nat]
      /\ config.feeDestination \in Keys
  BY DEF EInv, IInv, TypeOK, Config
<1>5. gain \in [Players -> Nat] /\ \A x \in Players : gain[x] > 0 => State(r, x) = "Locked"
  BY <1>0, <1>1
<1>6. Total(gain) = room[r].prizePool
  <2>1. Total(gain) = Total(payouts)
    BY <1>0, TotalExtend
  <2>2. QED BY <1>1, <2>1
<1>7. \A x \in Players : wallet'[x] + balance'[x] = (wallet[x] + balance[x]) + gain[x]
  <2> SUFFICES ASSUME NEW x \in Players
               PROVE  wallet'[x] + balance'[x] = (wallet[x] + balance[x]) + gain[x]
    OBVIOUS
  <2>1. wallet'[x] = wallet[x] /\ wallet[x] \in Nat /\ balance[x] \in Nat /\ gain[x] \in Nat
    BY <1>1, <1>4, <1>5
  <2>2. balance'[x] = balance[x] + gain[x]
    BY <1>2
  <2> HIDE DEF gain
  <2>3. QED BY <2>1, <2>2
<1> HIDE DEF gain
<1>8. QED BY <1>1, <1>3, <1>5, <1>6, <1>7, SettledView

LEMMA SettleToWinnerView ==
  ASSUME EInv, NEW k, NEW r \in Rooms, NEW p \in Players, SettleToWinner(k, r, p)
  PROVE  E!PayOut(r) /\ Status(r) = "Unlocked" /\ Status(r)' = "Settled"
<1> USE ConstantsAssumption
<1> DEFINE prize == room[r].prizePool
           gain == [x \in Players |-> IF x = p THEN prize ELSE 0]
<1>1. /\ Status(r) = "Unlocked" /\ State(r, p) = "Locked"
      /\ wallet' = [wallet EXCEPT ![p] = @ + prize,
                                  ![config.feeDestination] = @ + room[r].rakeAmount]
      /\ vault' = [vault EXCEPT ![r] = @ - (prize + room[r].rakeAmount)]
      /\ room' = [room EXCEPT ![r].status = "Settled"]
      /\ balance' = balance
  BY DEF SettleToWinner, custody
<1>2. \A q \in Rooms : q # r => seat'[q] = seat[q]
  BY DEF SettleToWinner, EInv, IInv, TypeOK
<1>3. /\ wallet \in [Players \cup Keys -> Nat] /\ balance \in [Players -> Nat]
      /\ config.feeDestination \in Keys /\ prize \in Nat
  BY DEF EInv, IInv, TypeOK, Config, RoomAccount
<1>4. gain \in [Players -> Nat] /\ \A x \in Players : gain[x] > 0 => State(r, x) = "Locked"
  BY <1>1, <1>3
<1>5. Total(gain) = prize
  <2> HIDE DEF prize
  <2>1. prize \in Nat
    BY <1>3
  <2>2. QED BY <2>1, TotalSingle
<1>6. \A x \in Players : wallet'[x] + balance'[x] = (wallet[x] + balance[x]) + gain[x]
  BY <1>1, <1>3
<1> HIDE DEF gain
<1>7. QED BY <1>1, <1>2, <1>4, <1>5, <1>6, SettledView

(* What a withdrawal may cost a player: the fee at the highest rate an     *)
(* admin can set, of the amount that left the custody balance.             *)
CostsAtMostTheFee(p) ==
  Money[p] - Money'[p] <= apply_bps(balance[p] - balance'[p], MAX_WITHDRAWAL_FEE_BPS)

(* The fee of a withdrawal, at any rate within the cap, is within the cap. *)
LEMMA FeeWithinCap ==
  ASSUME NEW amount \in Nat, NEW bps \in Nat, bps <= MAX_WITHDRAWAL_FEE_BPS
  PROVE  /\ apply_bps(amount, bps) \in Nat
         /\ apply_bps(amount, bps) <= amount
         /\ apply_bps(amount, bps) <= apply_bps(amount, MAX_WITHDRAWAL_FEE_BPS)
         /\ apply_bps(amount, bps) * 10000 <= amount * 200
<1>1. amount * bps \in Nat /\ amount * bps <= amount * 200
  BY DEF MAX_WITHDRAWAL_FEE_BPS
<1> DEFINE product == amount * bps
<1>2. product \in Nat /\ product <= amount * 200
  BY <1>1
<1> HIDE DEF product
<1>3. /\ product \div 10000 \in Nat
      /\ product \div 10000 <= amount
      /\ product \div 10000 <= (amount * 200) \div 10000
      /\ (product \div 10000) * 10000 <= amount * 200
  BY <1>2
<1>4. QED BY <1>3 DEF apply_bps, BPS_DENOMINATOR, MAX_WITHDRAWAL_FEE_BPS, product

(* withdraw moves the net to the wallet, so a player is charged the fee    *)
(* and nothing else; a fee that rounds to zero is not seen at all.         *)
LEMMA WithdrawView ==
  ASSUME EInv, NEW p \in Players, NEW amount \in Amounts, Withdraw(p, amount)
  PROVE  \/ UNCHANGED view
         \/ E!Charge(p) /\ CostsAtMostTheFee(p)
<1> USE ConstantsAssumption
<1> DEFINE fee == apply_bps(amount, config.withdrawalFeeBps)
<1>1. /\ balance[p] >= amount
      /\ balance' = [balance EXCEPT ![p] = @ - amount]
      /\ wallet' = [wallet EXCEPT ![p] = @ + (amount - fee)]
      /\ UNCHANGED rooms
  BY DEF Withdraw, HasBalance
<1>2. /\ wallet \in [Players \cup Keys -> Nat] /\ balance \in [Players -> Nat]
      /\ amount \in Nat /\ config.withdrawalFeeBps \in Nat
      /\ config.withdrawalFeeBps <= MAX_WITHDRAWAL_FEE_BPS
  BY DEF EInv, IInv, TypeOK, Config, ConfigInv
<1>3. /\ fee \in Nat /\ fee <= amount
      /\ fee <= apply_bps(amount, MAX_WITHDRAWAL_FEE_BPS)
      /\ fee * 10000 <= amount * 200
  BY <1>2, FeeWithinCap
<1> HIDE DEF fee
<1>4. /\ wallet'[p] + balance'[p] = (wallet[p] + balance[p]) - fee
      /\ \A x \in Players : x # p => wallet'[x] + balance'[x] = wallet[x] + balance[x]
  BY <1>1, <1>2, <1>3
<1>5. CASE fee = 0
  <2>1. \A x \in Players : wallet'[x] + balance'[x] = wallet[x] + balance[x]
    BY <1>2, <1>4, <1>5
  <2>2. QED BY <1>1, <2>1, Unseen
<1>6. CASE fee # 0
  <2>1. UNCHANGED <<Phase, Ante, Stakes, Held>>
    BY <1>1 DEF rooms, Phase, Ante, Stakes, Held, StakeOf, HeldBy, Status, State, Live
  <2>2. /\ Money'[p] = Money[p] - fee /\ Money[p] \in Nat /\ amount <= Money[p]
        /\ Money' = [Money EXCEPT ![p] = Money'[p]]
    <3>1. Money' = [x \in Players |-> wallet'[x] + balance'[x]]
      BY DEF Money
    <3>2. /\ Money[p] = wallet[p] + balance[p] /\ wallet[p] \in Nat /\ balance[p] \in Nat
      BY <1>2 DEF Money
    <3>3. Money' = [Money EXCEPT ![p] = Money'[p]]
      BY <1>4, <3>1 DEF Money
    <3>4. QED BY <1>1, <1>2, <1>4, <3>1, <3>2, <3>3
  <2>3. Money'[p] < Money[p] /\ Money[p] - Money'[p] = fee
    BY <1>3, <1>6, <2>2
  <2>4. (Money[p] - Money'[p]) * 10000 <= Money[p] * 200
    <3>1. \A a, b \in Nat : a <= b => a * 200 <= b * 200
      OBVIOUS
    <3>2. amount * 200 <= Money[p] * 200 /\ amount * 200 \in Nat /\ Money[p] * 200 \in Nat
      BY <1>2, <2>2, <3>1
    <3>3. fee * 10000 \in Nat
      BY <1>3
    <3>4. QED BY <1>3, <2>3, <3>2, <3>3
  <2>5. E!Charge(p)
    <3>1. WithinExit(Money[p] - Money'[p], Money[p])
      BY <2>4 DEF WithinExit, MAX_WITHDRAWAL_FEE_BPS
    <3>2. QED BY <2>1, <2>2, <2>3, <3>1, MapCharge
  <2>6. CostsAtMostTheFee(p)
    <3>1. balance[p] - balance'[p] = amount
      BY <1>1, <1>2
    <3>2. QED BY <1>3, <2>3, <3>1 DEF CostsAtMostTheFee
  <2>7. QED BY <2>5, <2>6
<1>7. QED BY <1>5, <1>6

-----------------------------------------------------------------------------
(* The steps of Escrow, each with what else is known of the instruction.   *)
Visible ==
  \/ \E r \in Rooms : E!Offer(r) \/ E!Play(r) \/ E!CallOff(r) \/ E!Forget(r)
  \/ \E r \in Rooms : E!PayOut(r) /\ Status(r) = "Unlocked" /\ Status(r)' = "Settled"
  \/ \E r \in Rooms, p \in Players : E!Stake(r, p) \/ E!HandBack(r, p)
  \/ \E p \in Players : E!Charge(p) /\ CostsAtMostTheFee(p)

(* Every instruction is one step of Escrow or is not seen. *)
LEMMA StepView ==
  ASSUME EInv, [Next]_vars
  PROVE  UNCHANGED view \/ Visible
<1>1. CASE AdminStep
  BY <1>1, AdminView
<1>2. CASE PlayerStep
  <2>1. PICK p \in Players :
          \/ \E amount \in Amounts : Deposit(p, amount)
          \/ \E amount \in Amounts : Withdraw(p, amount)
          \/ \E r \in Rooms : JoinRoom(p, r)
          \/ \E r \in Rooms : LockEntryFee(p, r)
          \/ \E r \in Rooms : EnterRoom(p, r)
    BY <1>2 DEF PlayerStep
  <2>2. QED BY <2>1, DepositView, WithdrawView, JoinRoomView, LockEntryFeeView, EnterRoomView
            DEF Visible
<1>3. CASE AuthorityStep
  <2>1. PICK k \in Keys, r \in Rooms :
          \/ \E fee \in EntryFees, n \in Capacities : CreateRoom(k, r, fee, n)
          \/ StartRoom(k, r)
          \/ UnlockPrize(k, r)
          \/ \E payouts \in PayoutTables : DistributeWinnings(k, r, payouts)
          \/ \E p \in Players : SettleToWinner(k, r, p)
    BY <1>3 DEF AuthorityStep
  <2>2. CASE \E payouts \in PayoutTables : DistributeWinnings(k, r, payouts)
    <3>1. PICK payouts \in PayoutTables : DistributeWinnings(k, r, payouts)
      BY <2>2
    <3>2. PICK winners \in SUBSET Players : payouts \in [winners -> Amounts]
      BY DEF PayoutTables
    <3>3. QED BY <3>1, <3>2, DistributeWinningsView DEF Visible
  <2>3. CASE \E fee \in EntryFees, n \in Capacities : CreateRoom(k, r, fee, n)
    BY <2>3, CreateRoomView DEF Visible
  <2>4. CASE StartRoom(k, r)
    BY <2>4, StartRoomView DEF Visible
  <2>5. CASE UnlockPrize(k, r)
    BY <2>5, UnlockPrizeView
  <2>6. CASE \E p \in Players : SettleToWinner(k, r, p)
    BY <2>6, SettleToWinnerView DEF Visible
  <2>7. QED BY <2>1, <2>2, <2>3, <2>4, <2>5, <2>6
<1>4. CASE PermissionlessStep
  <2>1. PICK r \in Rooms :
          \/ \E w \in Players \cup Keys : CancelRoom(w, r)
          \/ \E p \in Players : ClaimRefund(p, r)
          \/ CloseRoom(r)
          \/ \E p \in Players : CloseRoomPlayer(p, r)
    BY <1>4 DEF PermissionlessStep
  <2>2. QED BY <2>1, CancelRoomView, ClaimRefundView, CloseRoomView, CloseRoomPlayerView
            DEF Visible
<1>5. CASE AdvanceClock
  BY <1>5, ClockView
<1>6. CASE UNCHANGED vars
  BY <1>6, Unseen DEF vars, rooms
<1>7. QED BY <1>1, <1>2, <1>3, <1>4, <1>5, <1>6 DEF Next

(* What the steps of Escrow that move money say of the view. *)
LEMMA PayOutMeans ==
  ASSUME NEW r \in Rooms, E!PayOut(r)
  PROVE  /\ Phase[r] = "playing" /\ Phase' = [Phase EXCEPT ![r] = "paid"]
         /\ UNCHANGED Ante
         /\ \A p \in Players : Money'[p] - Money[p] >= 0
         /\ Stakes' = [Stakes EXCEPT ![r] = [p \in Players |-> 0]]
<1>1. /\ Phase[r] = "playing" /\ Phase' = [Phase EXCEPT ![r] = "paid"]
      /\ UNCHANGED Ante
  BY DEF E!PayOut, Phase, Ante
<1>2. Stakes' = [Stakes EXCEPT ![r] = [p \in Players |-> 0]]
  BY DEF E!PayOut, Stakes
<1>3. \A p \in Players : Money'[p] - Money[p] >= 0
  <2> DEFINE gain == [p \in Players |-> Money'[p] - Money[p]]
  <2>1. \A p \in Players : gain[p] >= 0
    BY DEF E!PayOut, Money
  <2>2. QED BY <2>1
<1>4. QED BY <1>1, <1>2, <1>3

LEMMA StakeMeans ==
  ASSUME NEW r \in Rooms, NEW p \in Players, E!Stake(r, p)
  PROVE  /\ UNCHANGED <<Phase, Ante>> /\ Stakes[r][p] = 0
         /\ Stakes' = [Stakes EXCEPT ![r][p] = Ante[r]]
         /\ Money' = [Money EXCEPT ![p] = @ - Ante[r]]
BY DEF E!Stake, Phase, Ante, Stakes, Money

LEMMA HandBackMeans ==
  ASSUME NEW r \in Rooms, NEW p \in Players, E!HandBack(r, p)
  PROVE  /\ UNCHANGED <<Phase, Ante>>
         /\ Stakes' = [Stakes EXCEPT ![r][p] = 0]
         /\ Money' = [Money EXCEPT ![p] = @ + Stakes[r][p]]
BY DEF E!HandBack, Phase, Ante, Stakes, Money

LEMMA ChargeMeans ==
  ASSUME NEW p \in Players, E!Charge(p)
  PROVE  /\ UNCHANGED <<Phase, Ante, Stakes>>
         /\ Money' = [Money EXCEPT ![p] = Money'[p]]
BY DEF E!Charge, Phase, Ante, Stakes, Money

LEMMA StageMeans ==
  ASSUME NEW r \in Rooms, E!Offer(r) \/ E!Play(r) \/ E!CallOff(r) \/ E!Forget(r)
  PROVE  UNCHANGED <<Stakes, Money>>
BY DEF E!Offer, E!Play, E!CallOff, E!Forget, Stakes, Money

(* A room is there exactly when Escrow's match is under way or decided. *)
LEMMA PhaseNone ==
  ASSUME NEW status \in RoomStatus
  PROVE  PhaseOf(status) = "none" <=> status = "Absent"
BY DEF PhaseOf, RoomStatus

(* FeeInv is a property of the view, and every step of Escrow keeps it. *)
LEMMA FeeStep ==
  ASSUME EInv, IInv', UNCHANGED view \/ Visible
  PROVE  FeeInv'
<1>1. \A r \in Rooms : Status(r) \in RoomStatus /\ Status(r)' \in RoomStatus
  BY DEF EInv, IInv, TypeOK, RoomAccount, Status
<1>2. ASSUME NEW r \in Rooms, Phase'[r] # "none" PROVE Ante'[r] > 0
  <2>1. Phase[r] # "none" => Ante[r] > 0
    BY <1>1, PhaseNone DEF EInv, FeeInv, Phase, Ante
  <2>2. CASE UNCHANGED view
    BY <1>2, <2>1, <2>2 DEF view
  <2>3. CASE \E q \in Rooms : E!Offer(q) \/ E!Play(q) \/ E!CallOff(q) \/ E!Forget(q)
    BY <1>2, <2>1, <2>3 DEF E!Offer, E!Play, E!CallOff, E!Forget, Phase, Ante
  <2>4. CASE \E q \in Rooms : E!PayOut(q)
    BY <1>2, <2>1, <2>4, PayOutMeans DEF Phase
  <2>5. CASE \/ \E q \in Rooms, p \in Players : E!Stake(q, p) \/ E!HandBack(q, p)
             \/ \E p \in Players : E!Charge(p)
    BY <1>2, <2>1, <2>5, StakeMeans, HandBackMeans, ChargeMeans
  <2>6. QED BY <2>2, <2>3, <2>4, <2>5 DEF Visible
<1>3. ASSUME NEW r \in Rooms, Status(r)' # "Absent" PROVE room'[r].entryFee > 0
  <2>1. Phase'[r] # "none"
    BY <1>1, <1>3, PhaseNone DEF Phase
  <2>2. QED BY <1>2, <2>1 DEF Ante
<1>4. QED BY <1>3 DEF FeeInv

-----------------------------------------------------------------------------
(* IInv and FeeInv hold in every reachable state. *)
LEMMA EInvInit == Init => EInv
<1>1. Init => FeeInv
  BY DEF Init, FeeInv, NoRoom, Status
<1>2. QED BY <1>1, InitInv DEF EInv

LEMMA EInvStep == EInv /\ [Next]_vars => EInv'
<1> SUFFICES ASSUME EInv, [Next]_vars PROVE EInv'
  OBVIOUS
<1>1. IInv'
  BY NextInv DEF EInv
<1>2. QED BY <1>1, StepView, FeeStep DEF EInv

(* The initial state maps to an initial state of Escrow. *)
LEMMA InitMaps == Init => E!EscrowInit
<1> SUFFICES ASSUME Init PROVE E!EscrowInit
  OBVIOUS
<1>1. \A r \in Rooms : PhaseOf(Status(r)) = "none" /\ room[r].entryFee = 0 /\ HeldBy(r) = 0
  BY DEF Init, NoRoom, Status, PhaseOf, HeldBy
<1>2. \A r \in Rooms, p \in Players : StakeOf(r, p) = 0
  BY DEF Init, NoRoom, Status, StakeOf, Live
<1>3. [p \in Players |-> wallet[p] + balance[p]] \in [Players -> Nat]
  BY ConstantsAssumption DEF Init
<1>4. [r \in Rooms |-> [p \in Players |-> StakeOf(r, p)]]
        = [r \in Rooms |-> [p \in Players |-> 0]]
  BY <1>2
<1>5. QED BY <1>1, <1>3, <1>4 DEF E!EscrowInit

(* Every step maps to a step of Escrow or to a stutter. *)
LEMMA StepMaps ==
  ASSUME EInv, [Next]_vars
  PROVE  [E!EscrowNext]_E!escrowVars
<1>1. CASE UNCHANGED view
  BY <1>1 DEF view, Phase, Ante, Stakes, Held, Money, E!escrowVars
<1>2. CASE Visible
  BY <1>2 DEF Visible, E!EscrowNext
<1>3. QED BY <1>1, <1>2, StepView

(* The arena program implements Escrow: for any players, rooms, fees and   *)
(* amounts, every instruction of programs/arena is one step of a match     *)
(* that is paid out whole or handed back stake by stake, or changes        *)
(* nothing a player can see.                                               *)
THEOREM Implementation == Spec => ImplementsEscrow
<1>1. Init => E!EscrowInit
  BY InitMaps
<1>2. Init => EInv
  BY EInvInit
<1>3. EInv /\ [Next]_vars => EInv'
  BY EInvStep
<1>4. EInv /\ [Next]_vars => [E!EscrowNext]_E!escrowVars
  BY StepMaps
<1>5. QED BY <1>1, <1>2, <1>3, <1>4, PTL DEF Spec, ImplementsEscrow, E!EscrowSpec

-----------------------------------------------------------------------------
(* What a player owns, in terms of the view. *)
StakesOf(p) == [r \in Rooms |-> Stakes[r][p]]

LEMMA EquityView ==
  ASSUME NEW p \in Players
  PROVE  /\ Equity(p) = Money[p] + Total(StakesOf(p))
         /\ Equity(p)' = Money'[p] + Total(StakesOf(p)')
<1>1. [r \in Rooms |-> IF Live(r) /\ State(r, p) = "Locked"
                       THEN seat[r][p].lockedAmount ELSE 0] = StakesOf(p)
  BY DEF StakesOf, Stakes, StakeOf
<1>2. [r \in Rooms |-> IF Live(r) /\ State(r, p) = "Locked"
                       THEN seat[r][p].lockedAmount ELSE 0]' = StakesOf(p)'
  BY DEF StakesOf, Stakes, StakeOf
<1>3. QED BY <1>1, <1>2 DEF Equity, Money

LEMMA EquityType ==
  ASSUME EInv, EInv', NEW p \in Players
  PROVE  Equity(p) \in Nat /\ Equity(p)' \in Nat
<1>1. /\ Stakes \in [Rooms -> [Players -> Nat]] /\ Money \in [Players -> Nat]
      /\ IsFiniteSet(Rooms)
  BY ViewTypes, ConstantsAssumption
<1>2. StakesOf(p) \in [Rooms -> Nat]
  BY <1>1 DEF StakesOf
<1>3. /\ seat' \in [Rooms -> [Players -> RoomPlayer]]
      /\ wallet' \in [Players \cup Keys -> Nat] /\ balance' \in [Players -> Nat]
  BY DEF EInv, IInv, TypeOK
<1>4. Money'[p] \in Nat
  BY <1>3 DEF Money
<1>5. StakesOf(p)' \in [Rooms -> Nat]
  <2>1. \A r \in Rooms : StakeOf(r, p)' \in Nat
    BY <1>3 DEF StakeOf, RoomPlayer
  <2>2. StakesOf(p)' = [r \in Rooms |-> StakeOf(r, p)']
    BY DEF StakesOf, Stakes
  <2>3. QED BY <2>1, <2>2
<1>6. Total(StakesOf(p)) \in Nat /\ Total(StakesOf(p)') \in Nat
  BY <1>1, <1>2, <1>5, TotalType
<1>7. QED BY <1>1, <1>4, <1>6, EquityView

(* A stake moves between what a player has and what is staked: nothing is  *)
(* lost on the way in or on the way back.                                  *)
LEMMA StakeKeepsEquity ==
  ASSUME EInv, EInv', NEW r \in Rooms, NEW x \in Players, NEW p \in Players,
         E!Stake(r, x) \/ E!HandBack(r, x)
  PROVE  Equity(p)' = Equity(p)
<1>1. /\ Stakes \in [Rooms -> [Players -> Nat]] /\ Money \in [Players -> Nat]
      /\ Ante \in [Rooms -> Nat] /\ IsFiniteSet(Rooms)
  BY ViewTypes, ConstantsAssumption
<1>2. StakesOf(p) \in [Rooms -> Nat] /\ Total(StakesOf(p)) \in Nat
  <2>1. StakesOf(p) \in [Rooms -> Nat]
    BY <1>1 DEF StakesOf
  <2>2. QED BY <1>1, <2>1, TotalType
<1>3. StakesOf(p)' = [q \in Rooms |-> Stakes'[q][p]]
  BY DEF StakesOf
<1>4. CASE x # p
  <2>1. Money'[p] = Money[p] /\ \A q \in Rooms : Stakes'[q][p] = Stakes[q][p]
    BY <1>1, <1>4, StakeMeans, HandBackMeans
  <2>2. StakesOf(p)' = StakesOf(p)
    BY <1>3, <2>1 DEF StakesOf
  <2>3. QED BY <2>1, <2>2, EquityView
<1>5. CASE x = p /\ E!Stake(r, x)
  <2>1. /\ Money'[p] = Money[p] - Ante[r] /\ Stakes[r][p] = 0
        /\ Stakes' = [Stakes EXCEPT ![r][p] = Ante[r]]
    BY <1>1, <1>5, StakeMeans
  <2>2. StakesOf(p)' = [StakesOf(p) EXCEPT ![r] = @ + Ante[r]]
    <3>1. \A q \in Rooms : Stakes'[q][p] = IF q = r THEN 0 + Ante[r] ELSE Stakes[q][p]
      BY <1>1, <2>1
    <3>2. QED BY <1>3, <2>1, <3>1 DEF StakesOf
  <2>3. Ante[r] \in Nat /\ Money[p] \in Nat
    BY <1>1
  <2>4. Total(StakesOf(p)') = Total(StakesOf(p)) + Ante[r]
    <3> DEFINE f == StakesOf(p)
               v == Ante[r]
    <3>1. f \in [Rooms -> Nat] /\ v \in Nat /\ IsFiniteSet(Rooms) /\ r \in Rooms
      BY <1>1, <1>2, <2>3
    <3> HIDE DEF f, v
    <3>2. Total([f EXCEPT ![r] = @ + v]) = Total(f) + v
      BY ONLY ZenonT(30), <3>1, TotalRaise
    <3>3. QED BY <2>2, <3>2 DEF f, v
  <2>5. QED BY <1>2, <2>1, <2>3, <2>4, EquityView
<1>6. CASE x = p /\ E!HandBack(r, x)
  <2>1. /\ Money'[p] = Money[p] + Stakes[r][p]
        /\ Stakes' = [Stakes EXCEPT ![r][p] = 0]
    BY <1>1, <1>6, HandBackMeans
  <2>2. Stakes[r][p] \in Nat /\ Money[p] \in Nat /\ StakesOf(p)[r] = Stakes[r][p]
    BY <1>1 DEF StakesOf
  <2>3. StakesOf(p)' = [StakesOf(p) EXCEPT ![r] = @ - Stakes[r][p]]
    <3>1. \A q \in Rooms : Stakes'[q][p] = IF q = r THEN Stakes[r][p] - Stakes[r][p]
                                                    ELSE Stakes[q][p]
      BY <1>1, <2>1, <2>2
    <3>2. QED BY <1>3, <3>1 DEF StakesOf
  <2>4. /\ Total(StakesOf(p)') = Total(StakesOf(p)) - Stakes[r][p]
        /\ Stakes[r][p] <= Total(StakesOf(p))
    <3> DEFINE f == StakesOf(p)
               v == Stakes[r][p]
    <3>1. f \in [Rooms -> Nat] /\ v \in Nat /\ v <= f[r]
      BY <1>2, <2>2
    <3> HIDE DEF f, v
    <3>2. Total([f EXCEPT ![r] = @ - v]) = Total(f) - v /\ v <= Total(f)
      BY <1>1, <3>1, TotalLower
    <3>3. QED BY <2>3, <3>2 DEF f, v
  <2>5. QED BY <1>2, <2>1, <2>2, <2>4, EquityView
<1>7. QED BY <1>4, <1>5, <1>6

(* A settlement takes a stake from a player who had one, and from nobody   *)
(* else anything.                                                          *)
LEMMA PayOutEquity ==
  ASSUME EInv, EInv', NEW r \in Rooms, NEW p \in Players, E!PayOut(r),
         Stakes[r][p] = 0
  PROVE  Equity(p)' >= Equity(p)
<1>1. /\ Stakes \in [Rooms -> [Players -> Nat]] /\ Money \in [Players -> Nat]
      /\ Money' \in [Players -> Nat]
  <2>1. Money' \in [Players -> Nat]
    BY DEF EInv, IInv, TypeOK, Money
  <2>2. QED BY <2>1, ViewTypes
<1>2. /\ Stakes' = [Stakes EXCEPT ![r] = [x \in Players |-> 0]]
      /\ Money'[p] - Money[p] >= 0
  BY PayOutMeans
<1>3. StakesOf(p)' = StakesOf(p)
  BY <1>1, <1>2 DEF StakesOf
<1>4. Total(StakesOf(p)) \in Nat
  <2>1. StakesOf(p) \in [Rooms -> Nat]
    BY <1>1 DEF StakesOf
  <2>2. QED BY <2>1, TotalType, ConstantsAssumption
<1>5. Money'[p] \in Nat /\ Money[p] \in Nat
  BY <1>1
<1>6. QED BY <1>2, <1>3, <1>4, <1>5, EquityView

(* A withdrawal costs the player who makes it at most the fee, and nobody  *)
(* else anything.                                                          *)
LEMMA ChargeEquity ==
  ASSUME EInv, EInv', NEW x \in Players, NEW p \in Players, E!Charge(x), CostsAtMostTheFee(x)
  PROVE  \/ Equity(p)' = Equity(p)
         \/ Equity(p) - Equity(p)' <= apply_bps(balance[p] - balance'[p], MAX_WITHDRAWAL_FEE_BPS)
<1>1. /\ Money \in [Players -> Nat] /\ Money' \in [Players -> Nat]
      /\ Stakes \in [Rooms -> [Players -> Nat]]
  <2>1. Money' \in [Players -> Nat]
    BY DEF EInv, IInv, TypeOK, Money
  <2>2. QED BY <2>1, ViewTypes
<1>2. StakesOf(p)' = StakesOf(p)
  BY ChargeMeans DEF StakesOf
<1>3. Total(StakesOf(p)) \in Nat
  <2>1. StakesOf(p) \in [Rooms -> Nat]
    BY <1>1 DEF StakesOf
  <2>2. QED BY <2>1, TotalType, ConstantsAssumption
<1>4. Equity(p) - Equity(p)' = Money[p] - Money'[p]
  <2>1. Money[p] \in Nat /\ Money'[p] \in Nat
    BY <1>1
  <2>2. QED BY <1>2, <1>3, <2>1, EquityView
<1>5. CASE x = p
  BY <1>4, <1>5 DEF CostsAtMostTheFee
<1>6. CASE x # p
  <2>1. Money'[p] = Money[p]
    BY <1>1, <1>6, ChargeMeans
  <2>2. QED BY <1>2, <2>1, EquityView
<1>7. QED BY <1>5, <1>6

(* What one step may cost a player. *)
LEMMA EquityStep ==
  ASSUME EInv, [Next]_vars, NEW p \in Players, Equity(p)' < Equity(p)
  PROVE  \/ \E r \in Rooms : /\ State(r, p) = "Locked"
                             /\ Status(r) = "Unlocked"
                             /\ Status(r)' = "Settled"
         \/ Equity(p) - Equity(p)' <=
              apply_bps(balance[p] - balance'[p], MAX_WITHDRAWAL_FEE_BPS)
<1>1. EInv'
  BY EInvStep
<1>2. Equity(p) \in Nat /\ Equity(p)' \in Nat
  BY <1>1, EquityType
<1>3. ASSUME UNCHANGED <<Stakes, Money>> PROVE Equity(p)' = Equity(p)
  <2>1. StakesOf(p)' = StakesOf(p)
    BY <1>3 DEF StakesOf
  <2>2. QED BY <1>3, <2>1, EquityView
<1>4. CASE UNCHANGED view
  BY <1>2, <1>3, <1>4 DEF view
<1>5. CASE \E r \in Rooms : E!Offer(r) \/ E!Play(r) \/ E!CallOff(r) \/ E!Forget(r)
  BY <1>2, <1>3, <1>5, StageMeans
<1>6. CASE \E r \in Rooms, x \in Players : E!Stake(r, x) \/ E!HandBack(r, x)
  BY <1>1, <1>2, <1>6, StakeKeepsEquity
<1>7. CASE \E r \in Rooms : E!PayOut(r) /\ Status(r) = "Unlocked" /\ Status(r)' = "Settled"
  <2>1. PICK r \in Rooms : E!PayOut(r) /\ Status(r) = "Unlocked" /\ Status(r)' = "Settled"
    BY <1>7
  <2>2. Stakes[r][p] # 0
    BY <1>1, <1>2, <2>1, PayOutEquity
  <2>3. State(r, p) = "Locked"
    BY <2>2 DEF Stakes, StakeOf
  <2>4. QED BY <2>1, <2>3
<1>8. CASE \E x \in Players : E!Charge(x) /\ CostsAtMostTheFee(x)
  BY <1>1, <1>2, <1>8, ChargeEquity
<1>9. QED BY <1>4, <1>5, <1>6, <1>7, <1>8, StepView DEF Visible

(* No instruction, whoever sends it, costs a player anything, but the      *)
(* settlement of a match the player had a stake in and the capped fee of a *)
(* withdrawal.                                                             *)
THEOREM NothingElseCosts == Spec => OnlySettlementCosts
<1>1. EInv /\ [Next]_vars =>
        [\A p \in Players : Equity(p)' < Equity(p) =>
           \/ \E r \in Rooms : /\ State(r, p) = "Locked"
                               /\ Status(r) = "Unlocked"
                               /\ Status(r)' = "Settled"
           \/ Equity(p) - Equity(p)' <=
                apply_bps(balance[p] - balance'[p], MAX_WITHDRAWAL_FEE_BPS)]_vars
  BY EquityStep
<1>2. QED BY <1>1, EInvInit, EInvStep, PTL DEF Spec, OnlySettlementCosts

=============================================================================
