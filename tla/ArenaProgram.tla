---------------------------- MODULE ArenaProgram ----------------------------
(***************************************************************************)
(* The on-chain Arena program (programs/programs/arena): custody accounts, *)
(* wagered rooms, settlement, refunds, cleanup and administration.         *)
(*                                                                         *)
(* One action per instruction.  A Solana instruction is atomic: it either  *)
(* meets every account constraint and every require! and takes effect, or  *)
(* it fails and changes nothing, so an action's guard is the conjunction   *)
(* of the constraints, the require!s and the conditions of the transfers.  *)
(* Transactions of different signers interleave freely.                    *)
(*                                                                         *)
(* Lamports are naturals: the chain's supply is below 2^64, so the checked *)
(* additions of utils.rs cannot overflow; the checked subtractions are     *)
(* kept as guards.  Lifetime statistics that no guard reads (total_wagered *)
(* and its kin) and the rent of the program's data accounts are left out.  *)
(***************************************************************************)
EXTENDS Integers, FiniteSets, Sums

CONSTANTS
  Players,              \* wallets that play
  Keys,                 \* wallets that may be admin or settlement authority
  Rooms,                \* 16-byte room ids
  EntryFees,            \* entry fees the backend may ask create_room for
  Capacities,           \* max_players values it may ask for
  FeeBps,               \* rake values an admin may try to set
  WithdrawalFeeBps,     \* withdrawal fee values an admin may try to set
  Amounts,              \* lamports a player may deposit, withdraw or be paid
  InitialLamports,      \* what every wallet holds at first
  RENT,                 \* Rent::minimum_balance(0)
  MIN_DEPOSIT_LAMPORTS,
  MIN_WITHDRAWAL_LAMPORTS,
  MIN_ENTRY_FEE_LAMPORTS,
  PERMISSIONLESS_CANCEL_DELAY,  \* PERMISSIONLESS_CANCEL_DELAY_SECONDS
  MaxTime,              \* bound on the cluster clock
  VaultsOwnedBy,        \* owner of the lamport vaults, "System" on chain
  NoKey                 \* pending_admin when there is none

BPS_DENOMINATOR == 10000
MAX_FEE_BPS == 1000
MAX_WITHDRAWAL_FEE_BPS == 200
MIN_PLAYERS_PER_ROOM == 2
MAX_WINNERS_PER_DISTRIBUTION == 8

ASSUME ConstantsAssumption ==
  /\ IsFiniteSet(Players)
  /\ IsFiniteSet(Rooms)
  /\ Players \cap Keys = {}
  /\ NoKey \notin Keys
  /\ EntryFees \subseteq Nat
  /\ Capacities \subseteq Nat
  /\ FeeBps \subseteq Nat
  /\ WithdrawalFeeBps \subseteq Nat
  /\ Amounts \subseteq Nat
  /\ InitialLamports \in Nat
  /\ RENT \in Nat \ {0}
  /\ MIN_DEPOSIT_LAMPORTS \in Nat \ {0}
  /\ MIN_WITHDRAWAL_LAMPORTS \in Nat \ {0}
  /\ MIN_ENTRY_FEE_LAMPORTS \in Nat \ {0}
  /\ PERMISSIONLESS_CANCEL_DELAY \in Nat
  /\ MaxTime \in Nat
  /\ VaultsOwnedBy \in {"System", "Program"}

VARIABLES
  config,      \* the Config account
  wallet,      \* lamports of every wallet
  hasAccount,  \* players whose PlayerAccount exists
  balance,     \* PlayerAccount.balance, 0 while there is no account
  room,        \* the Room accounts
  seat,        \* the RoomPlayer accounts
  vault,       \* lamports of the room vaults
  pool,        \* lamports of the custody vault
  treasury,    \* lamports of the rake vault
  clock        \* Clock::unix_timestamp

vars == <<config, wallet, hasAccount, balance, room, seat, vault, pool, treasury, clock>>

custody == <<hasAccount, balance, pool>>
rooms == <<room, seat, vault>>

RoomStatus == {"Absent", "Open", "InProgress", "Unlocked", "Settled", "Cancelled"}
PlayerRoomState == {"None", "Joined", "Locked", "Paid", "Refunded"}

RoomAccount ==
  [status : RoomStatus, entryFee : Nat, maxPlayers : Nat, playerCount : Nat,
   lockedCount : Nat, totalLocked : Nat, prizePool : Nat, rakeAmount : Nat,
   feeBps : Nat, createdAt : Nat]

RoomPlayer == [state : PlayerRoomState, lockedAmount : Nat, payout : Nat]

Config ==
  [admin : Keys, pendingAdmin : Keys \cup {NoKey}, settlementAuthority : Keys,
   feeDestination : Keys, feeBps : Nat, withdrawalFeeBps : Nat, paused : BOOLEAN]

NoRoom ==
  [status |-> "Absent", entryFee |-> 0, maxPlayers |-> 0, playerCount |-> 0,
   lockedCount |-> 0, totalLocked |-> 0, prizePool |-> 0, rakeAmount |-> 0,
   feeBps |-> 0, createdAt |-> 0]

NoSeat == [state |-> "None", lockedAmount |-> 0, payout |-> 0]

TypeOK ==
  /\ config \in Config
  /\ wallet \in [Players \cup Keys -> Nat]
  /\ hasAccount \subseteq Players
  /\ balance \in [Players -> Nat]
  /\ room \in [Rooms -> RoomAccount]
  /\ seat \in [Rooms -> [Players -> RoomPlayer]]
  /\ vault \in [Rooms -> Nat]
  /\ pool \in Nat
  /\ treasury \in Nat
  /\ clock \in Nat

(***************************************************************************)
(* Helpers of utils.rs.                                                    *)
(***************************************************************************)

apply_bps(amount, bps) == (amount * bps) \div BPS_DENOMINATOR

(* transfer_from_vault succeeds: a zero transfer always does, any other    *)
(* must leave the vault rent exempt.                                       *)
CanTransferFrom(lamports, amount) == amount = 0 \/ lamports - amount >= RENT

(* What the vault holds after fund_rent_exemption. *)
Funded(lamports) == IF lamports >= RENT THEN lamports ELSE RENT

Status(r) == room[r].status
State(r, p) == seat[r][p].state

(* The spendable-balance check of withdraw, join_room and lock_entry_fee. *)
HasBalance(p, amount) == balance[p] >= amount

LockedPlayers(r) == { p \in Players : State(r, p) = "Locked" }
SeatedPlayers(r) == { p \in Players : State(r, p) # "None" }

(***************************************************************************)
(* initialize ran once, at deployment: it funds both vaults to their rent  *)
(* floor and writes the configuration.                                     *)
(***************************************************************************)
Init ==
  /\ \E k, s, f \in Keys, fee \in FeeBps, wfee \in WithdrawalFeeBps :
       /\ fee <= MAX_FEE_BPS
       /\ wfee <= MAX_WITHDRAWAL_FEE_BPS
       /\ config = [admin |-> k, pendingAdmin |-> NoKey, settlementAuthority |-> s,
                    feeDestination |-> f, feeBps |-> fee, withdrawalFeeBps |-> wfee,
                    paused |-> FALSE]
  /\ wallet = [w \in Players \cup Keys |-> InitialLamports]
  /\ hasAccount = {}
  /\ balance = [p \in Players |-> 0]
  /\ room = [r \in Rooms |-> NoRoom]
  /\ seat = [r \in Rooms |-> [p \in Players |-> NoSeat]]
  /\ vault = [r \in Rooms |-> 0]
  /\ pool = RENT
  /\ treasury = RENT
  /\ clock = 0

(***************************************************************************)
(* admin.rs.  update_config changes any one field; a call that changes     *)
(* several is the same as several calls.                                   *)
(***************************************************************************)

SetConfig(k, c) ==
  /\ k = config.admin
  /\ config' = c
  /\ UNCHANGED <<wallet, custody, rooms, treasury, clock>>

UpdateFee(k, bps) ==
  bps <= MAX_FEE_BPS /\ SetConfig(k, [config EXCEPT !.feeBps = bps])

UpdateWithdrawalFee(k, bps) ==
  bps <= MAX_WITHDRAWAL_FEE_BPS /\ SetConfig(k, [config EXCEPT !.withdrawalFeeBps = bps])

UpdateSettlementAuthority(k, key) ==
  SetConfig(k, [config EXCEPT !.settlementAuthority = key])

UpdateFeeDestination(k, key) == SetConfig(k, [config EXCEPT !.feeDestination = key])

UpdatePaused(k, paused) == SetConfig(k, [config EXCEPT !.paused = paused])

TransferAdmin(k, key) == SetConfig(k, [config EXCEPT !.pendingAdmin = key])

AcceptAdmin(k) ==
  /\ config.pendingAdmin # NoKey
  /\ k = config.pendingAdmin
  /\ config' = [config EXCEPT !.admin = k, !.pendingAdmin = NoKey]
  /\ UNCHANGED <<wallet, custody, rooms, treasury, clock>>

WithdrawTreasury(k, destination, amount) ==
  /\ k = config.admin
  /\ CanTransferFrom(treasury, amount)
  /\ treasury' = treasury - amount
  /\ wallet' = [wallet EXCEPT ![destination] = @ + amount]
  /\ UNCHANGED <<config, custody, rooms, clock>>

(***************************************************************************)
(* custody.rs                                                              *)
(***************************************************************************)

Deposit(p, amount) ==
  /\ ~config.paused
  /\ amount >= MIN_DEPOSIT_LAMPORTS
  /\ wallet[p] >= amount
  /\ hasAccount' = hasAccount \cup {p}
  /\ wallet' = [wallet EXCEPT ![p] = @ - amount]
  /\ pool' = pool + amount
  /\ balance' = [balance EXCEPT ![p] = @ + amount]
  /\ UNCHANGED <<config, rooms, treasury, clock>>

(* The player receives the net, the treasury the fee; the gross figure     *)
(* leaves the balance.  Not gated on paused.                               *)
Withdraw(p, amount) ==
  LET fee == apply_bps(amount, config.withdrawalFeeBps)
      net == amount - fee
  IN /\ p \in hasAccount
     /\ amount >= MIN_WITHDRAWAL_LAMPORTS
     /\ HasBalance(p, amount)
     /\ CanTransferFrom(pool, net)
     /\ CanTransferFrom(pool - net, fee)
     /\ balance' = [balance EXCEPT ![p] = @ - amount]
     /\ wallet' = [wallet EXCEPT ![p] = @ + net]
     /\ pool' = pool - amount
     /\ treasury' = treasury + fee
     /\ UNCHANGED <<config, hasAccount, rooms, clock>>

(***************************************************************************)
(* room.rs                                                                 *)
(***************************************************************************)

(* Room ids are the game's UUID, so an id that once carried entry records  *)
(* is not offered again.                                                   *)
FreshRoomId(r) == \A p \in Players : State(r, p) = "None"

CreateRoom(k, r, entryFee, maxPlayers) ==
  /\ ~config.paused
  /\ k = config.settlementAuthority
  /\ Status(r) = "Absent"
  /\ FreshRoomId(r)
  /\ entryFee >= MIN_ENTRY_FEE_LAMPORTS
  /\ maxPlayers >= MIN_PLAYERS_PER_ROOM
  /\ clock + PERMISSIONLESS_CANCEL_DELAY <= MaxTime  \* bound: the delay can run out
  /\ wallet[k] >= Funded(vault[r]) - vault[r]
  /\ wallet' = [wallet EXCEPT ![k] = @ - (Funded(vault[r]) - vault[r])]
  /\ vault' = [vault EXCEPT ![r] = Funded(@)]
  /\ room' = [room EXCEPT ![r] =
                [NoRoom EXCEPT !.status = "Open", !.entryFee = entryFee,
                               !.maxPlayers = maxPlayers, !.feeBps = config.feeBps,
                               !.createdAt = clock]]
  /\ UNCHANGED <<config, custody, seat, treasury, clock>>

JoinRoom(p, r) ==
  /\ ~config.paused
  /\ p \in hasAccount
  /\ Status(r) = "Open"
  /\ State(r, p) = "None"
  /\ room[r].playerCount < room[r].maxPlayers
  /\ HasBalance(p, room[r].entryFee)
  /\ seat' = [seat EXCEPT ![r][p] = [state |-> "Joined", lockedAmount |-> 0, payout |-> 0]]
  /\ room' = [room EXCEPT ![r].playerCount = @ + 1]
  /\ UNCHANGED <<config, wallet, custody, vault, treasury, clock>>

LockEntryFee(p, r) ==
  LET entryFee == room[r].entryFee
  IN /\ ~config.paused
     /\ p \in hasAccount
     /\ Status(r) = "Open"
     /\ State(r, p) = "Joined"
     /\ HasBalance(p, entryFee)
     /\ CanTransferFrom(pool, entryFee)
     /\ balance' = [balance EXCEPT ![p] = @ - entryFee]
     /\ seat' = [seat EXCEPT ![r][p].state = "Locked", ![r][p].lockedAmount = entryFee]
     /\ room' = [room EXCEPT ![r].totalLocked = @ + entryFee, ![r].lockedCount = @ + 1]
     /\ pool' = pool - entryFee
     /\ vault' = [vault EXCEPT ![r] = @ + entryFee]
     /\ UNCHANGED <<config, wallet, hasAccount, treasury, clock>>

EnterRoom(p, r) ==
  LET entryFee == room[r].entryFee
  IN /\ ~config.paused
     /\ Status(r) = "Open"
     /\ State(r, p) = "None"
     /\ room[r].playerCount < room[r].maxPlayers
     /\ wallet[p] >= entryFee
     /\ wallet' = [wallet EXCEPT ![p] = @ - entryFee]
     /\ vault' = [vault EXCEPT ![r] = @ + entryFee]
     /\ seat' = [seat EXCEPT ![r][p] =
                   [state |-> "Locked", lockedAmount |-> entryFee, payout |-> 0]]
     /\ room' = [room EXCEPT ![r].playerCount = @ + 1, ![r].lockedCount = @ + 1,
                             ![r].totalLocked = @ + entryFee]
     /\ UNCHANGED <<config, custody, treasury, clock>>

StartRoom(k, r) ==
  /\ k = config.settlementAuthority
  /\ Status(r) = "Open"
  /\ room[r].lockedCount = room[r].playerCount
  /\ room[r].lockedCount >= MIN_PLAYERS_PER_ROOM
  /\ room' = [room EXCEPT ![r].status = "InProgress"]
  /\ UNCHANGED <<config, wallet, custody, seat, vault, treasury, clock>>

(***************************************************************************)
(* settle.rs                                                               *)
(***************************************************************************)

RakeAtLiveFee(r) == apply_bps(room[r].totalLocked, config.feeBps)  \* mutant: not the snapshot

(* The house's cut, at the fee the room was created with. *)
Rake(r) == apply_bps(room[r].totalLocked, room[r].feeBps)

UnlockPrize(k, r) ==
  LET rake == Rake(r)
  IN /\ k = config.settlementAuthority
     /\ Status(r) = "InProgress"
     /\ room' = [room EXCEPT ![r].rakeAmount = rake,
                             ![r].prizePool = room[r].totalLocked - rake,
                             ![r].status = "Unlocked"]
     /\ UNCHANGED <<config, wallet, custody, seat, vault, treasury, clock>>

PayoutsUnsummed(payouts, prizePool) ==  \* mutant: the sum is not compared with the pool
  /\ DOMAIN payouts # {}
  /\ \A p \in DOMAIN payouts : payouts[p] > 0 /\ payouts[p] <= prizePool

(* validate_payouts: between one and eight positive amounts that add up to *)
(* the prize pool exactly.                                                 *)
validate_payouts(payouts, prizePool) ==
  /\ DOMAIN payouts # {}
  /\ Cardinality(DOMAIN payouts) <= MAX_WINNERS_PER_DISTRIBUTION
  /\ \A p \in DOMAIN payouts : payouts[p] > 0
  /\ Total(payouts) = prizePool

(* payouts maps each winner to an amount; a function has no duplicate      *)
(* winners, which the code rejects one by one.                             *)
DistributeWinnings(k, r, payouts) ==
  LET winners == DOMAIN payouts
      prize == room[r].prizePool
      rake == room[r].rakeAmount
  IN /\ k = config.settlementAuthority
     /\ Status(r) = "Unlocked"
     /\ validate_payouts(payouts, prize)
     /\ \A p \in winners : State(r, p) = "Locked" /\ p \in hasAccount
     /\ CanTransferFrom(vault[r], prize)
     /\ CanTransferFrom(vault[r] - prize, rake)
     /\ balance' = [p \in Players |->
                      balance[p] + (IF p \in winners THEN payouts[p] ELSE 0)]
     /\ seat' = [seat EXCEPT ![r] =
                   [p \in Players |-> IF p \in winners
                                      THEN [seat[r][p] EXCEPT !.state = "Paid",
                                                              !.payout = payouts[p]]
                                      ELSE seat[r][p]]]
     /\ pool' = pool + prize
     /\ vault' = [vault EXCEPT ![r] = @ - (prize + rake)]
     /\ wallet' = [wallet EXCEPT ![config.feeDestination] = @ + rake]
     /\ room' = [room EXCEPT ![r].status = "Settled"]
     /\ UNCHANGED <<config, hasAccount, treasury, clock>>

SettleToWinner(k, r, p) ==
  LET prize == room[r].prizePool
      rake == room[r].rakeAmount
  IN /\ k = config.settlementAuthority
     /\ Status(r) = "Unlocked"
     /\ State(r, p) = "Locked"
     /\ CanTransferFrom(vault[r], prize)
     /\ CanTransferFrom(vault[r] - prize, rake)
     /\ wallet' = [wallet EXCEPT ![p] = @ + prize, ![config.feeDestination] = @ + rake]
     /\ vault' = [vault EXCEPT ![r] = @ - (prize + rake)]
     /\ seat' = [seat EXCEPT ![r][p].state = "Paid", ![r][p].payout = prize]
     /\ room' = [room EXCEPT ![r].status = "Settled"]
     /\ UNCHANGED <<config, custody, treasury, clock>>

CancelRoomAfterSettling(w, r) ==  \* mutant: a settled room may be cancelled
  /\ Status(r) \notin {"Absent", "Cancelled"}
  /\ w = config.settlementAuthority
  /\ room' = [room EXCEPT ![r].status = "Cancelled"]
  /\ UNCHANGED <<config, wallet, custody, seat, vault, treasury, clock>>

CancelRoomByAuthority(w, r) ==  \* mutant: no permissionless way out
  /\ Status(r) \notin {"Absent", "Settled", "Cancelled"}
  /\ w = config.settlementAuthority
  /\ room' = [room EXCEPT ![r].status = "Cancelled"]
  /\ UNCHANGED <<config, wallet, custody, seat, vault, treasury, clock>>

(* Anyone may cancel once the delay has passed, the authority at any time. *)
CancelRoom(w, r) ==
  /\ Status(r) \notin {"Absent", "Settled", "Cancelled"}
  /\ \/ w = config.settlementAuthority
     \/ clock >= room[r].createdAt + PERMISSIONLESS_CANCEL_DELAY
  /\ room' = [room EXCEPT ![r].status = "Cancelled"]
  /\ UNCHANGED <<config, wallet, custody, seat, vault, treasury, clock>>

RefundableWhileRunning(p, r) == State(r, p) = "Locked"  \* mutant: in any status

(* claim_refund's conditions on the room and on the entry record. *)
Refundable(p, r) == Status(r) = "Cancelled" /\ State(r, p) = "Locked"

(* Anyone may crank a refund; it credits the player's custody account,     *)
(* which the account constraints require to exist.                         *)
ClaimRefund(p, r) ==
  LET amount == seat[r][p].lockedAmount
  IN /\ Refundable(p, r)
     /\ p \in hasAccount
     /\ room[r].totalLocked >= amount
     /\ CanTransferFrom(vault[r], amount)
     /\ seat' = [seat EXCEPT ![r][p].state = "Refunded"]
     /\ balance' = [balance EXCEPT ![p] = @ + amount]
     /\ room' = [room EXCEPT ![r].totalLocked = @ - amount]
     /\ vault' = [vault EXCEPT ![r] = @ - amount]
     /\ pool' = pool + amount
     /\ UNCHANGED <<config, wallet, hasAccount, treasury, clock>>

(***************************************************************************)
(* cleanup.rs                                                              *)
(***************************************************************************)

(* The runtime lets a program take lamports only from an account it owns.  *)
MayDebitDirectly(lamports) == VaultsOwnedBy = "Program" \/ lamports = 0

VaultDrainedUnchecked(r) == TRUE  \* mutant: the status alone decides

(* Nothing but the vault's own deposit is left in it. *)
VaultDrained(r) == vault[r] <= RENT

CloseRoom(r) ==
  /\ Status(r) \in {"Settled", "Cancelled"}
  /\ VaultDrained(r)
  /\ MayDebitDirectly(vault[r])
  /\ vault' = [vault EXCEPT ![r] = 0]
  /\ wallet' = [wallet EXCEPT ![config.settlementAuthority] = @ + vault[r]]
  /\ room' = [room EXCEPT ![r] = NoRoom]
  /\ UNCHANGED <<config, custody, seat, treasury, clock>>

CloseRoomPlayer(p, r) ==
  /\ Status(r) \in {"Settled", "Cancelled"}
  /\ State(r, p) \in {"Paid", "Refunded"}
  /\ seat' = [seat EXCEPT ![r][p] = NoSeat]
  /\ UNCHANGED <<config, wallet, custody, room, vault, treasury, clock>>

(* The cluster clock moves forward, up to the bound MaxTime. *)
AdvanceClock ==
  /\ clock < MaxTime
  /\ clock' = clock + 1
  /\ UNCHANGED <<config, wallet, custody, rooms, treasury>>

PayoutTables == UNION { [winners -> Amounts] : winners \in SUBSET Players }

AdminStep ==
  \E k \in Keys :
    \/ \E bps \in FeeBps : UpdateFee(k, bps)
    \/ \E bps \in WithdrawalFeeBps : UpdateWithdrawalFee(k, bps)
    \/ \E key \in Keys : UpdateSettlementAuthority(k, key)
    \/ \E key \in Keys : UpdateFeeDestination(k, key)
    \/ \E paused \in BOOLEAN : UpdatePaused(k, paused)
    \/ \E key \in Keys : TransferAdmin(k, key)
    \/ AcceptAdmin(k)
    \/ \E key \in Keys, amount \in Amounts : WithdrawTreasury(k, key, amount)

PlayerStep ==
  \E p \in Players :
    \/ \E amount \in Amounts : Deposit(p, amount)
    \/ \E amount \in Amounts : Withdraw(p, amount)
    \/ \E r \in Rooms : JoinRoom(p, r)
    \/ \E r \in Rooms : LockEntryFee(p, r)
    \/ \E r \in Rooms : EnterRoom(p, r)

AuthorityStep ==
  \E k \in Keys, r \in Rooms :
    \/ \E fee \in EntryFees, n \in Capacities : CreateRoom(k, r, fee, n)
    \/ StartRoom(k, r)
    \/ UnlockPrize(k, r)
    \/ \E payouts \in PayoutTables : DistributeWinnings(k, r, payouts)
    \/ \E p \in Players : SettleToWinner(k, r, p)

PermissionlessStep ==
  \E r \in Rooms :
    \/ \E w \in Players \cup Keys : CancelRoom(w, r)
    \/ \E p \in Players : ClaimRefund(p, r)
    \/ CloseRoom(r)
    \/ \E p \in Players : CloseRoomPlayer(p, r)

Next == AdminStep \/ PlayerStep \/ AuthorityStep \/ PermissionlessStep \/ AdvanceClock

Spec == Init /\ [][Next]_vars

(***************************************************************************)
(* Fairness.  cancel_room and claim_refund are permissionless, so a stuck  *)
(* player (or anyone) can be relied on to send them; so can a player who   *)
(* needs a custody account be relied on to deposit, when that is possible. *)
(* Nothing is assumed of the admin or of the settlement authority.         *)
(***************************************************************************)
FairSpec ==
  /\ Spec
  /\ WF_vars(AdvanceClock)
  /\ \A r \in Rooms : WF_vars(\E w \in Players : CancelRoom(w, r))
  /\ \A r \in Rooms, p \in Players : WF_vars(ClaimRefund(p, r))
  /\ \A p \in Players : WF_vars(p \notin hasAccount /\ \E a \in Amounts : Deposit(p, a))

(***************************************************************************)
(* Safety                                                                  *)
(***************************************************************************)

Live(r) == Status(r) \in {"Open", "InProgress", "Unlocked", "Cancelled"}

(* The pool holds exactly its rent floor and the sum of all custody        *)
(* balances: every way a balance moves (deposit, withdraw with its fee,    *)
(* lock_entry_fee, distribute_winnings, claim_refund) moves the lamports   *)
(* with it, whatever order the transactions of different players land in.  *)
PoolSolvent == pool = RENT + Total(balance)

(* No lamport arithmetic leaves its type, and the pool is solvent.         *)
ArenaInv == TypeOK /\ PoolSolvent

(* A room's vault holds exactly what the room owes: its rent floor and the *)
(* stakes still escrowed, the rent floor once settled, nothing after       *)
(* close_room.                                                             *)
EscrowExact ==
  \A r \in Rooms :
    vault[r] = CASE Live(r) -> RENT + room[r].totalLocked
                 [] Status(r) = "Settled" -> RENT
                 [] OTHER -> 0

(* The room's own counter is what its entry records add up to: every       *)
(* Locked record holds one entry fee and total_locked counts each of them  *)
(* once, through joins, locks, direct entries and refunds.                 *)
StakesAddUp ==
  \A r \in Rooms : Live(r) =>
    /\ room[r].totalLocked = room[r].entryFee * Cardinality(LockedPlayers(r))
    /\ \A p \in LockedPlayers(r) : seat[r][p].lockedAmount = room[r].entryFee

(* start_room compares two counters; they mean what it takes them to mean: *)
(* the number of records, and of funded records, of the room.              *)
CountersAreSeats ==
  \A r \in Rooms : Status(r) \in {"Open", "InProgress", "Unlocked"} =>
    /\ room[r].playerCount = Cardinality(SeatedPlayers(r))
    /\ room[r].lockedCount = Cardinality(LockedPlayers(r))
    /\ Status(r) # "Open" => LockedPlayers(r) = SeatedPlayers(r)

(* Once unlocked, prize and rake are the whole pot, and the rake is within *)
(* the cap and rounded down, whatever update_config did since the room was *)
(* created.                                                                *)
PotSplit ==
  \A r \in Rooms : Status(r) = "Unlocked" =>
    /\ room[r].prizePool + room[r].rakeAmount = room[r].totalLocked
    /\ room[r].rakeAmount * BPS_DENOMINATOR <= room[r].totalLocked * room[r].feeBps
    /\ room[r].feeBps <= MAX_FEE_BPS

(* In a cancelled room every outstanding refund can be paid, in any order: *)
(* neither the room's counter nor the vault's rent floor stops a claim.    *)
RefundsPayable ==
  \A r \in Rooms, p \in Players :
    Status(r) = "Cancelled" /\ State(r, p) = "Locked" =>
      /\ room[r].totalLocked >= seat[r][p].lockedAmount
      /\ CanTransferFrom(vault[r], seat[r][p].lockedAmount)

(* No room both pays a winner and refunds an entrant. *)
PaidXorRefunded ==
  \A r \in Rooms, p, q \in Players : ~(State(r, p) = "Paid" /\ State(r, q) = "Refunded")

(* The books of a room agree with each other and with its vault at every   *)
(* point of its life, after any order of joining, paying, entering,        *)
(* cancelling and refunding: the vault holds what is owed, the counters    *)
(* and total_locked are those of the records, prize and rake are the pot   *)
(* under the fee the room was created with, and refunds can be paid.       *)
RoomBooksAgree == EscrowExact /\ StakesAddUp /\ CountersAreSeats /\ PotSplit /\ RefundsPayable

(* What a player owns: wallet, custody balance and stakes not yet decided. *)
Equity(p) ==
  wallet[p] + balance[p]
    + Total([r \in Rooms |-> IF Live(r) /\ State(r, p) = "Locked"
                             THEN seat[r][p].lockedAmount ELSE 0])

(* A player's equity falls only by a settlement of a match the player had  *)
(* a stake in, or by the capped fee of a withdrawal: no other instruction, *)
(* whoever sends it, costs a player anything.                              *)
OnlySettlementCosts ==
  [][\A p \in Players : Equity(p)' < Equity(p) =>
       \/ \E r \in Rooms : /\ State(r, p) = "Locked"
                           /\ Status(r) = "Unlocked"
                           /\ Status(r)' = "Settled"
       \/ Equity(p) - Equity(p)' <=
            apply_bps(balance[p] - balance'[p], MAX_WITHDRAWAL_FEE_BPS)]_vars

(***************************************************************************)
(* Liveness                                                                *)
(***************************************************************************)

(* A stake held by a player with a custody account comes back or is        *)
(* decided without any help from the backend: cancel_room and claim_refund *)
(* are never gated on the pause.                                           *)
StakeComesBack ==
  \A r \in Rooms, p \in Players :
    (Live(r) /\ State(r, p) = "Locked" /\ p \in hasAccount)
      ~> (State(r, p) # "Locked" \/ Status(r) = "Settled")

=============================================================================
