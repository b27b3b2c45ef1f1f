----------------------------- MODULE ArenaClient -----------------------------
(***************************************************************************)
(* What the TypeScript client sends to the arena program.  The builders    *)
(* are written by hand and the program matches accounts by position, so    *)
(* nothing but agreement between the two sides makes a call work.  Both    *)
(* are stated here: the keys and argument layout of every builder, and the *)
(* accounts and arguments of every handler.                                *)
(* An address is the seeds it is derived from; a key of the compiled       *)
(* transaction is writable or a signer when any instruction says so, and   *)
(* the fee payer is both.                                                  *)
(***************************************************************************)
EXTENDS Integers, Sequences, FiniteSets, Functions

CONSTANTS Travellers,      \* players' wallets
          RoomIds,         \* byte strings naming rooms
          RoomIdLen,       \* ROOM_ID_LEN
          MaxWinners       \* MAX_WINNERS_PER_DISTRIBUTION

ASSUME ArenaClientConstants ==
  /\ RoomIdLen \in Nat \ {0} /\ MaxWinners \in Nat \ {0}
  /\ \A r \in RoomIds : r \in Seq(0 .. 255) /\ Len(r) <= RoomIdLen

VARIABLES calling,          \* the transaction sent last
          feeDestination,   \* fee_destination of the program's config
          configured        \* the service holds a settlement authority
callVars == <<calling, feeDestination, configured>>

wallet(w) == <<"wallet", w>>
AdminWallet == wallet("admin")
Authority == wallet("authority")
SystemProgram == <<"system">>

normalizeRoomId(r) == r \o [i \in 1 .. RoomIdLen - Len(r) |-> 0]

findConfigPda == <<"config">>
findPoolPda == <<"pool">>
findTreasuryPda == <<"treasury">>
findPlayerPda(p) == <<"player", p>>
findRoomPda(r) == <<"room", normalizeRoomId(r)>>
findRoomVaultPda(r) == <<"room_vault", normalizeRoomId(r)>>
findRoomPlayerPda(room, p) == <<"room_player", room, p>>

---------------------------------------------------------------------------
(* The builders. *)

readonly(a) == [pubkey |-> a, isSigner |-> FALSE, isWritable |-> FALSE]
writable(a) == [pubkey |-> a, isSigner |-> FALSE, isWritable |-> TRUE]
signer(a) == [pubkey |-> a, isSigner |-> TRUE, isWritable |-> FALSE]
paying(a) == [pubkey |-> a, isSigner |-> TRUE, isWritable |-> TRUE]
encodeInstruction(name, keys, args) == [name |-> name, keys |-> keys, args |-> args]

createDepositInstruction(p) ==
  encodeInstruction("deposit",
    <<readonly(findConfigPda), writable(findPlayerPda(p)), writable(findPoolPda), paying(wallet(p)),
      readonly(SystemProgram)>>, <<"u64">>)

createWithdrawInstruction(p) ==
  encodeInstruction("withdraw",
    <<readonly(findConfigPda), writable(findPlayerPda(p)), writable(findPoolPda), writable(findTreasuryPda),
      paying(wallet(p)), readonly(SystemProgram)>>, <<"u64">>)

createInitializeInstruction ==
  encodeInstruction("initialize",
    <<writable(findConfigPda), writable(findPoolPda), writable(findTreasuryPda), paying(AdminWallet),
      readonly(SystemProgram)>>, <<"pubkey", "pubkey", "u16", "u16">>)

createUpdateConfigInstruction ==
  encodeInstruction("update_config", <<writable(findConfigPda), paying(AdminWallet)>>,
    <<"u16?", "u16?", "pubkey?", "pubkey?", "bool?">>)

createRoomInstruction(r) ==
  encodeInstruction("create_room",
    <<writable(findConfigPda), writable(findRoomPda(r)), writable(findRoomVaultPda(r)), paying(Authority),
      readonly(SystemProgram)>>, <<"room_id", "u64", "u16">>)

createJoinRoomInstruction(p, r) ==
  encodeInstruction("join_room",
    <<readonly(findConfigPda), writable(findRoomPda(r)), writable(findRoomPlayerPda(findRoomPda(r), p)),
      writable(findPlayerPda(p)), paying(wallet(p)), readonly(SystemProgram)>>, <<>>)

createLockEntryFeeInstruction(p, r) ==
  encodeInstruction("lock_entry_fee",
    <<readonly(findConfigPda), writable(findRoomPda(r)), writable(findRoomPlayerPda(findRoomPda(r), p)),
      writable(findPlayerPda(p)), writable(findPoolPda), writable(findRoomVaultPda(r)), signer(wallet(p)),
      readonly(SystemProgram)>>, <<>>)

createStartRoomInstruction(r) ==
  encodeInstruction("start_room",
    <<readonly(findConfigPda), writable(findRoomPda(r)), signer(Authority)>>, <<>>)

createUnlockPrizeInstruction(r) ==
  encodeInstruction("unlock_prize",
    <<readonly(findConfigPda), writable(findRoomPda(r)), signer(Authority)>>, <<>>)

\* No winner, too many, or one named twice is refused before anything is sent.
validWinners(winners) == Len(winners) \in 1 .. MaxWinners /\ IsInjective(winners)

createDistributeWinningsInstruction(r, winners) ==
  encodeInstruction("distribute_winnings",
    <<readonly(findConfigPda), writable(findRoomPda(r)), writable(findRoomVaultPda(r)), writable(findPoolPda),
      writable(findTreasuryPda), signer(Authority), readonly(SystemProgram)>>
    \o [i \in 1 .. 2 * Len(winners) |->
          IF i % 2 = 1 THEN writable(findRoomPlayerPda(findRoomPda(r), winners[(i + 1) \div 2]))
          ELSE writable(findPlayerPda(winners[i \div 2]))],
    <<"u64[]">>)

createCancelRoomInstruction(r) ==
  encodeInstruction("cancel_room",
    <<readonly(findConfigPda), writable(findRoomPda(r)), signer(Authority)>>, <<>>)

createClaimRefundInstruction(p, r, claimant) ==
  encodeInstruction("claim_refund",
    <<readonly(findConfigPda), writable(findRoomPda(r)), writable(findRoomPlayerPda(findRoomPda(r), p)),
      writable(findPlayerPda(p)), writable(findRoomVaultPda(r)), writable(findPoolPda), readonly(wallet(p)),
      paying(claimant), readonly(SystemProgram)>>, <<>>)

createWithdrawTreasuryInstruction(destination) ==
  encodeInstruction("withdraw_treasury",
    <<readonly(findConfigPda), writable(findTreasuryPda), writable(destination), signer(AdminWallet),
      readonly(SystemProgram)>>, <<"u64">>)

createEnterRoomInstruction(p, r) ==
  encodeInstruction("enter_room",
    <<readonly(findConfigPda), writable(findRoomPda(r)), writable(findRoomPlayerPda(findRoomPda(r), p)),
      writable(findRoomVaultPda(r)), signer(wallet(p)), readonly(SystemProgram)>>, <<>>)

settleWithWinnerLast(p, r, fee) ==  \* mutant: the winner's wallet after the fee's
  encodeInstruction("settle_to_winner",
    <<readonly(findConfigPda), writable(findRoomPda(r)), writable(findRoomVaultPda(r)),
      writable(findRoomPlayerPda(findRoomPda(r), p)), writable(fee), writable(wallet(p)), signer(Authority),
      readonly(SystemProgram)>>, <<>>)

createSettleToWinnerInstruction(p, r, fee) ==
  encodeInstruction("settle_to_winner",
    <<readonly(findConfigPda), writable(findRoomPda(r)), writable(findRoomVaultPda(r)),
      writable(findRoomPlayerPda(findRoomPda(r), p)), writable(wallet(p)), writable(fee), signer(Authority),
      readonly(SystemProgram)>>, <<>>)

createCloseRoomInstruction(r) ==
  encodeInstruction("close_room",
    <<readonly(findConfigPda), writable(findRoomPda(r)), writable(findRoomVaultPda(r)), writable(Authority)>>, <<>>)

createCloseRoomPlayerInstruction(p, r) ==
  encodeInstruction("close_room_player",
    <<readonly(findRoomPda(r)), writable(findRoomPlayerPda(findRoomPda(r), p)), writable(wallet(p))>>, <<>>)

\* The web client has builders of its own for the custody calls.
buildDepositInstruction(p) ==
  encodeInstruction("deposit",
    <<readonly(<<"config">>), writable(<<"player", p>>), writable(<<"pool">>), paying(wallet(p)),
      readonly(SystemProgram)>>, <<"u64">>)

buildWithdrawInstruction(p) ==
  encodeInstruction("withdraw",
    <<readonly(<<"config">>), writable(<<"player", p>>), writable(<<"pool">>), writable(<<"treasury">>),
      paying(wallet(p)), readonly(SystemProgram)>>, <<"u64">>)

---------------------------------------------------------------------------
(* Who sends what: the first signer pays. *)

send(instruction, who, about) == [instruction |-> instruction, payer |-> who, about |-> about]
Nobody == [player |-> "none", room |-> <<>>, fee |-> <<"none">>, winners |-> <<>>, claimant |-> <<"none">>]
about(p, r) == [Nobody EXCEPT !.player = p, !.room = r]

settleToWinner(p, r, fee) ==
  send(createSettleToWinnerInstruction(p, r, fee), Authority, [about(p, r) EXCEPT !.fee = fee])
createRoom(r) == send(createRoomInstruction(r), Authority, about("none", r))
startRoom(r) == send(createStartRoomInstruction(r), Authority, about("none", r))
closeRoom(r) == send(createCloseRoomInstruction(r), Authority, about("none", r))
unlockPrize(r) == send(createUnlockPrizeInstruction(r), Authority, about("none", r))
distributeWinnings(r, winners) ==
  send(createDistributeWinningsInstruction(r, winners), Authority,
       [about("none", r) EXCEPT !.winners = winners, !.fee = findTreasuryPda])
cancelRoom(r) == send(createCancelRoomInstruction(r), Authority, about("none", r))
claimRefundFor(p, r) ==
  send(createClaimRefundInstruction(p, r, Authority), Authority, [about(p, r) EXCEPT !.claimant = Authority])
withdrawTreasury(to) == send(createWithdrawTreasuryInstruction(to), AdminWallet, [Nobody EXCEPT !.fee = to])
initializeProgram == send(createInitializeInstruction, AdminWallet, Nobody)
buildEnterRoomInstruction(p, r) == send(createEnterRoomInstruction(p, r), wallet(p), about(p, r))

FeeAccounts == {AdminWallet, Authority, findTreasuryPda}
Winners == {w \in UNION {[1 .. n -> Travellers] : n \in 0 .. MaxWinners + 1} : validWinners(w)}

\* Calls the settlement authority signs; without one the service refuses them.
requireSettlementAuthority ==
  (UNION {{createRoom(r), startRoom(r), closeRoom(r), unlockPrize(r), cancelRoom(r)} : r \in RoomIds})
  \cup {settleToWinner(p, r, fee) : p \in Travellers, r \in RoomIds, fee \in FeeAccounts}
  \cup {claimRefundFor(p, r) : p \in Travellers, r \in RoomIds}
  \cup {distributeWinnings(r, w) : r \in RoomIds, w \in Winners}

OwnCalls ==
  {initializeProgram, send(createUpdateConfigInstruction, AdminWallet, Nobody), withdrawTreasury(AdminWallet)}
  \cup (UNION {{send(createDepositInstruction(p), wallet(p), about(p, <<>>)),
               send(createWithdrawInstruction(p), wallet(p), about(p, <<>>)),
               send(buildDepositInstruction(p), wallet(p), about(p, <<>>)),
               send(buildWithdrawInstruction(p), wallet(p), about(p, <<>>))} : p \in Travellers})
  \cup (UNION {{buildEnterRoomInstruction(p, r),
               send(createJoinRoomInstruction(p, r), wallet(p), about(p, r)),
               send(createLockEntryFeeInstruction(p, r), wallet(p), about(p, r)),
               send(createCloseRoomPlayerInstruction(p, r), Authority, about(p, r))}
              : p \in Travellers, r \in RoomIds})

---------------------------------------------------------------------------
(* The program: accounts by position, and the arguments of the handler. *)

account(at) == [at |-> at, mut |-> FALSE, signer |-> FALSE]
mutable(at) == [at |-> at, mut |-> TRUE, signer |-> FALSE]
Signer(at) == [at |-> at, mut |-> FALSE, signer |-> TRUE]
payer(at) == [at |-> at, mut |-> TRUE, signer |-> TRUE]

roomAt(d) == <<"room", normalizeRoomId(d.room)>>
vaultAt(d) == <<"room_vault", normalizeRoomId(d.room)>>
seatAt(d, p) == <<"room_player", roomAt(d), p>>

Initialize == <<mutable(<<"config">>), mutable(<<"pool">>), mutable(<<"treasury">>), payer(AdminWallet), account(SystemProgram)>>
UpdateConfig == <<mutable(<<"config">>), Signer(AdminWallet)>>
WithdrawTreasury(d) ==
  <<account(<<"config">>), mutable(<<"treasury">>), mutable(d.fee), Signer(AdminWallet), account(SystemProgram)>>
CloseRoom(d) == <<account(<<"config">>), mutable(roomAt(d)), mutable(vaultAt(d)), mutable(Authority)>>
CloseRoomPlayer(d) == <<account(roomAt(d)), mutable(seatAt(d, d.player)), mutable(wallet(d.player))>>
Deposit(d) ==
  <<account(<<"config">>), mutable(<<"player", d.player>>), mutable(<<"pool">>), payer(wallet(d.player)),
    account(SystemProgram)>>
Withdraw(d) ==
  <<account(<<"config">>), mutable(<<"player", d.player>>), mutable(<<"pool">>), mutable(<<"treasury">>),
    payer(wallet(d.player)), account(SystemProgram)>>
CreateRoom(d) ==
  <<mutable(<<"config">>), mutable(roomAt(d)), mutable(vaultAt(d)), payer(Authority), account(SystemProgram)>>
JoinRoom(d) ==
  <<account(<<"config">>), mutable(roomAt(d)), mutable(seatAt(d, d.player)), mutable(<<"player", d.player>>),
    payer(wallet(d.player)), account(SystemProgram)>>
LockEntryFee(d) ==
  <<account(<<"config">>), mutable(roomAt(d)), mutable(seatAt(d, d.player)), mutable(<<"player", d.player>>),
    mutable(<<"pool">>), mutable(vaultAt(d)), Signer(wallet(d.player)), account(SystemProgram)>>
StartRoom(d) == <<account(<<"config">>), mutable(roomAt(d)), Signer(Authority)>>
EnterRoom(d) ==
  <<account(<<"config">>), mutable(roomAt(d)), mutable(seatAt(d, d.player)), mutable(vaultAt(d)),
    payer(wallet(d.player)), account(SystemProgram)>>
UnlockPrize(d) == <<account(<<"config">>), mutable(roomAt(d)), Signer(Authority)>>
\* remaining_accounts: a pair for every payout.
DistributeWinnings(d) ==
  <<account(<<"config">>), mutable(roomAt(d)), mutable(vaultAt(d)), mutable(<<"pool">>), mutable(feeDestination),
    Signer(Authority), account(SystemProgram)>>
  \o [i \in 1 .. 2 * Len(d.winners) |-> IF i % 2 = 1 THEN mutable(seatAt(d, d.winners[(i + 1) \div 2]))
                                       ELSE mutable(<<"player", d.winners[i \div 2]>>)]
CancelRoom(d) == <<account(<<"config">>), mutable(roomAt(d)), Signer(Authority)>>
ClaimRefund(d) ==
  <<account(<<"config">>), mutable(roomAt(d)), mutable(seatAt(d, d.player)), mutable(<<"player", d.player>>),
    mutable(vaultAt(d)), mutable(<<"pool">>), account(wallet(d.player)), payer(d.claimant), account(SystemProgram)>>
SettleToWinner(d) ==
  <<account(<<"config">>), mutable(roomAt(d)), mutable(vaultAt(d)), mutable(seatAt(d, d.player)),
    mutable(wallet(d.player)), mutable(feeDestination), Signer(Authority), account(SystemProgram)>>

handler(name, d) ==
  CASE name = "initialize"          -> [accounts |-> Initialize, args |-> <<"pubkey", "pubkey", "u16", "u16">>]
    [] name = "update_config"       -> [accounts |-> UpdateConfig, args |-> <<"u16?", "u16?", "pubkey?", "pubkey?", "bool?">>]
    [] name = "withdraw_treasury"   -> [accounts |-> WithdrawTreasury(d), args |-> <<"u64">>]
    [] name = "deposit"             -> [accounts |-> Deposit(d), args |-> <<"u64">>]
    [] name = "withdraw"            -> [accounts |-> Withdraw(d), args |-> <<"u64">>]
    [] name = "create_room"         -> [accounts |-> CreateRoom(d), args |-> <<"room_id", "u64", "u16">>]
    [] name = "join_room"           -> [accounts |-> JoinRoom(d), args |-> <<>>]
    [] name = "enter_room"          -> [accounts |-> EnterRoom(d), args |-> <<>>]
    [] name = "lock_entry_fee"      -> [accounts |-> LockEntryFee(d), args |-> <<>>]
    [] name = "start_room"          -> [accounts |-> StartRoom(d), args |-> <<>>]
    [] name = "unlock_prize"        -> [accounts |-> UnlockPrize(d), args |-> <<>>]
    [] name = "distribute_winnings" -> [accounts |-> DistributeWinnings(d), args |-> <<"u64[]">>]
    [] name = "settle_to_winner"    -> [accounts |-> SettleToWinner(d), args |-> <<>>]
    [] name = "cancel_room"         -> [accounts |-> CancelRoom(d), args |-> <<>>]
    [] name = "claim_refund"        -> [accounts |-> ClaimRefund(d), args |-> <<>>]
    [] name = "close_room"          -> [accounts |-> CloseRoom(d), args |-> <<>>]
    [] name = "close_room_player"   -> [accounts |-> CloseRoomPlayer(d), args |-> <<>>]

---------------------------------------------------------------------------
(* A transaction as compiled and signed. *)

isWritable(tx, a) ==
  a = tx.payer \/ \E i \in DOMAIN tx.instruction.keys :
                    tx.instruction.keys[i].pubkey = a /\ tx.instruction.keys[i].isWritable
isSigner(tx, a) == a = tx.payer
missingSignatures(tx) ==
  {i \in DOMAIN tx.instruction.keys :
     tx.instruction.keys[i].isSigner /\ tx.instruction.keys[i].pubkey # tx.payer}

CallInit ==
  /\ configured \in BOOLEAN
  /\ feeDestination \in FeeAccounts
  /\ calling = initializeProgram

\* The next call, by the service or by a player's own wallet.
NextCall ==
  /\ calling' \in OwnCalls \cup (IF configured THEN requireSettlementAuthority ELSE {})
  /\ UNCHANGED <<feeDestination, configured>>

\* The admin names another fee destination; the worker's own setting stays.
FeeDestinationMoves ==
  /\ calling.instruction.name = "update_config"
  /\ feeDestination' \in FeeAccounts
  /\ UNCHANGED <<calling, configured>>

CallNext == NextCall \/ FeeDestinationMoves
CallSpec == CallInit /\ [][CallNext]_callVars

---------------------------------------------------------------------------
\* Every call the client builds is one the program takes: each handler finds,
\* at each position, the account it derives, with the privileges it asks for
\* and the arguments it decodes, and the payer's signature is all it needs.
\* A payout names its fee account itself, so of those only calls that name
\* the configured one are held to it (instructions.ts, service.ts,
\* use-custody.ts against the Accounts structs).
CallsFitProgram ==
  LET d == calling.about
      wanted == handler(calling.instruction.name, d)
      keys == calling.instruction.keys
      payout == calling.instruction.name \in {"settle_to_winner", "distribute_winnings"}
  IN  (payout => d.fee = feeDestination) =>
        /\ Len(keys) = Len(wanted.accounts)
        /\ \A i \in DOMAIN keys :
             /\ keys[i].pubkey = wanted.accounts[i].at
             /\ wanted.accounts[i].mut => isWritable(calling, keys[i].pubkey)
             /\ wanted.accounts[i].signer => isSigner(calling, keys[i].pubkey)
        /\ calling.instruction.args = wanted.args
        /\ missingSignatures(calling) = {}
=============================================================================
