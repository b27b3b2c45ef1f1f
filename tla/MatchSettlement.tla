-------------------------- MODULE MatchSettlement --------------------------
(***************************************************************************)
(* The end of one paid match: apps/worker/src/settlement/settle.ts with    *)
(* its callers (the settleFinished passes, the end-match stage of the      *)
(* cycle) against cancelGameAndRefund of packages/db/src/refund.ts with    *)
(* its callers (the cycle's failure paths, the admin route).               *)
(*                                                                         *)
(* A task's step ends at an await, so tasks interleave between their reads *)
(* and writes.  Postgres runs at read committed: a row read early in a     *)
(* transaction may have changed when it commits, except where an update    *)
(* names the version it read.  The chain is external and seen through the  *)
(* instructions the service sends; a transaction whose confirmation fails  *)
(* may still land later.  The report names one winner: a node that repeats *)
(* a report repeats it unchanged.  Postgres and Redis are assumed up; a    *)
(* task may die at any await.                                              *)
(***************************************************************************)
EXTENDS Integers, FiniteSets, Sums

CONSTANTS
  Entered,        \* players whose enter_room landed
  Winner,         \* the player at placement 1
  Fee,            \* entry fee, in lamports
  RakeBps,
  Custodians,     \* players with a custody account
  Setups,         \* the circumstances a match may be settled in
  Passes,         \* settleFinished passes that may overlap
  Cycles,         \* the worker that takes the cycle's job
  Admins,
  EndMatchAttempts,
  MaxFaults,      \* bound on failed calls to the chain
  MaxCrashes,     \* bound on tasks that die
  MaxAdmin        \* bound on admin requests

ASSUME SettlementAssumption ==
  /\ IsFiniteSet(Entered)
  /\ Fee \in Nat /\ RakeBps \in 0 .. 10000
  /\ \A u \in Setups :
       /\ Winner \in u.reported
       /\ u.escrow \in {"none", "empty", "funded"}
       /\ u.canSignOnChain \in BOOLEAN /\ u.cancelDelayOver \in BOOLEAN
       /\ u.maxMishaps \in Nat
  /\ \A x, y \in Cycles : x = y  \* the queue gives a job to one worker at a time
  /\ EndMatchAttempts \in Nat \ {0}
  /\ MaxFaults \in Nat /\ MaxCrashes \in Nat /\ MaxAdmin \in Nat

VARIABLES
  setup,     \* the circumstances of this match, fixed
  game,      \* the games row
  node,      \* how far the realtime node's report has come
  queued,    \* the game is a member of settle:pending
  chain,     \* the room, its vault and what it has paid
  inflight,  \* transactions whose fate nobody knows
  ledger,    \* pool accounts, posted legs and the reward row
  board,     \* games counted for the winner's leaderboard row
  task,      \* what every pass, job and admin request is doing
  job,       \* the cycle stage waiting in the queue
  attempts,  \* failed attempts of the end-match job
  faults, crashes, requests

vars == <<setup, game, node, queued, chain, inflight, ledger, board, task, job, attempts,
          faults, crashes, requests>>

db == <<game, ledger, board>>
bounds == <<faults, crashes, requests>>

Reported == setup.reported              \* players in the node's standings
Escrow == setup.escrow                  \* the escrow row: "none", "empty", or "funded" by entry-fee legs
canSignOnChain == setup.canSignOnChain
CancelDelayOver == setup.cancelDelayOver  \* an hour has passed: anyone may cancel the room
MaxMishaps == setup.maxMishaps          \* bound on faults and crashes together

Tasks == Passes \cup Cycles \cup Admins

GameStatus == {"PENDING", "RUNNING", "COMPLETED", "CANCELLED"}
SettlementStatus == {"NOT_REQUIRED", "PENDING", "CONFIRMED", "FAILED"}
RoomStatus == {"Open", "InProgress", "Unlocked", "Settled", "Cancelled", "Closed"}
Transactions == {"start_room", "unlock_prize", "settle_to_winner"}
Outcome == {"settled", "already-settled", "no-result", "rejected", "threw",
            "cancelled", "refused"}

PC == {"idle", "read", "result", "verify", "park", "vault", "empty", "pot", "zero", "pending",
       "start", "unlock", "pay", "fail", "reward", "escrow", "posted", "post", "count",
       "board", "finish", "done", "cancel", "commit"}

(***************************************************************************)
(* payout.ts.  The winner takes the whole prize pool.                      *)
(***************************************************************************)

splitPot(pot) ==
  LET rake == (pot * RakeBps) \div 10000 IN [prizePool |-> pot - rake, rake |-> rake]

Pot == Cardinality(Entered) * Fee

(***************************************************************************)
(* The chain, as the service's calls meet it.  vault excludes the rent.    *)
(***************************************************************************)

Accepts(c, tx) ==
  CASE tx = "start_room"       -> c.room = "Open" /\ Cardinality(Entered) >= 2
    [] tx = "unlock_prize"     -> c.room = "InProgress"
    [] tx = "settle_to_winner" -> c.room = "Unlocked" /\ Winner \in c.seats

Apply(c, tx) ==
  CASE tx = "start_room"       -> [c EXCEPT !.room = "InProgress"]
    [] tx = "unlock_prize"     -> [c EXCEPT !.room = "Unlocked"]
    [] tx = "settle_to_winner" -> [c EXCEPT !.room = "Settled", !.vault = @ - Pot,
                                            !.paid = @ + splitPot(Pot).prizePool,
                                            !.fees = @ + splitPot(Pot).rake]

(* The program error of a transaction that is not accepted. *)
ErrorOf(c, tx) ==
  IF c.room = "Closed" THEN "AccountNotInitialized"
  ELSE CASE tx = "start_room"       -> IF c.room = "Open" THEN "InvalidRoomCapacity"
                                                          ELSE "RoomNotOpen"
         [] tx = "unlock_prize"     -> "RoomNotInProgress"
         [] tx = "settle_to_winner" -> IF c.room = "Unlocked" THEN "AlreadyPaid"
                                                              ELSE "RoomAlreadySettled"

isAlreadyStartedNever(error) == FALSE  \* mutant: a started room is an error

isAlreadyStarted(error) == error \in {"RoomNotOpen"}

isAlreadyDoneOrUnlocked(error) ==  \* mutant: unlocking twice is forgiven
  error \in {"PrizeNotUnlocked", "RoomAlreadySettled", "RoomNotInProgress"}

isAlreadyDone(error) == error \in {"PrizeNotUnlocked", "RoomAlreadySettled"}

(***************************************************************************)
(* State                                                                   *)
(***************************************************************************)

Task ==
  [pc : PC, via : {"queue", "sweep", "stage", "failed", "admin"}, pot : Nat, version : Nat,
   escrow : Int, games : Nat, owed : SUBSET Entered, outcome : Outcome]

Idle ==
  [pc |-> "idle", via |-> "queue", pot |-> 0, version |-> 0, escrow |-> 0, games |-> 0,
   owed |-> {}, outcome |-> "settled"]

TypeOK ==
  /\ setup \in Setups
  /\ game \in [status : GameStatus, settlement : SettlementStatus, pot : Nat]
  /\ node \in {"playing", "written", "told"}
  /\ queued \in BOOLEAN
  /\ chain \in [room : RoomStatus, vault : Nat, seats : SUBSET Entered,
                claimed : SUBSET Entered, paid : Nat, fees : Nat]
  /\ inflight \subseteq Transactions
  /\ ledger \in [escrow : Int, version : Nat, custody : [Entered -> Nat], rake : Nat,
                 holders : SUBSET Entered, payouts : Nat, rakes : Nat,
                 refunded : SUBSET Entered, reward : BOOLEAN]
  /\ board \in Nat
  /\ task \in [Tasks -> Task]
  /\ job \in {"end-match", "archive-game", "over"}
  /\ attempts \in 0 .. EndMatchAttempts
  /\ faults \in 0 .. MaxFaults /\ crashes \in 0 .. MaxCrashes /\ requests \in 0 .. MaxAdmin

(* How a match may stand when it is played.  Entered directly, the cycle   *)
(* having stopped at close-lobby; sealed by close-lobby; sealed but for a  *)
(* start_room that failed; with a pot close-lobby could not read.          *)
Starts ==
  { [status |-> "PENDING", settlement |-> "NOT_REQUIRED", pot |-> 0, room |-> "Open", job |-> "over"],
    [status |-> "RUNNING", settlement |-> "PENDING", pot |-> Pot, room |-> "InProgress", job |-> "end-match"],
    [status |-> "RUNNING", settlement |-> "FAILED", pot |-> Pot, room |-> "Open", job |-> "end-match"],
    [status |-> "RUNNING", settlement |-> "PENDING", pot |-> 0, room |-> "Open", job |-> "end-match"] }

Init ==
  /\ setup \in Setups
  /\ \E s \in Starts :
       /\ game = [status |-> s.status, settlement |-> s.settlement, pot |-> s.pot]
       /\ job = s.job
       /\ chain = [room |-> s.room, vault |-> Pot, seats |-> Entered, claimed |-> {},
                   paid |-> 0, fees |-> 0]
  /\ node = "playing"
  /\ queued = FALSE
  /\ inflight = {}
  /\ ledger = [escrow |-> IF Escrow = "funded" THEN Pot ELSE 0, version |-> 0,
               custody |-> [p \in Entered |-> 0], rake |-> 0,
               holders |-> Custodians \cap Entered, payouts |-> 0, rakes |-> 0,
               refunded |-> {}, reward |-> FALSE]
  /\ board = 0
  /\ task = [x \in Tasks |-> Idle]
  /\ attempts = 0
  /\ faults = 0 /\ crashes = 0 /\ requests = 0

(***************************************************************************)
(* The realtime node reports (room-manager.ts): the result key first, then *)
(* the queue.  The node may die between the two.                           *)
(***************************************************************************)

result == node # "playing"  \* match:result:{gameId} is set

Report ==
  /\ node = "playing"
  /\ node' = "written"
  /\ UNCHANGED <<setup, queued, chain, inflight, db, task, job, attempts, bounds>>

Enqueue ==
  /\ node = "written"
  /\ node' = "told"
  /\ queued' = TRUE
  /\ UNCHANGED <<setup, chain, inflight, db, task, job, attempts, bounds>>

(***************************************************************************)
(* Callers of settleGame.                                                  *)
(***************************************************************************)

MayFault == faults < MaxFaults /\ faults + crashes < MaxMishaps

At(x, pc) == task[x].pc = pc
Go(x, pc) == task' = [task EXCEPT ![x].pc = pc]
Return(x, outcome) ==
  task' = [task EXCEPT ![x] = [Idle EXCEPT !.pc = "done", !.via = task[x].via, !.outcome = outcome]]

Begin(x, pc, via) ==
  /\ At(x, "idle")
  /\ task' = [task EXCEPT ![x] = [Idle EXCEPT !.pc = pc, !.via = via]]
  /\ UNCHANGED <<setup, node, queued, chain, inflight, db, job, attempts, faults, crashes>>

SettleQueued(x) ==
  /\ queued
  /\ Begin(x, "read", "queue")
  /\ UNCHANGED requests

(* The backstop of a pass.  The re-read in settleGame makes a row that     *)
(* changes after the query harmless.                                       *)
Sweep(x) ==
  /\ game.status \in {"RUNNING", "PENDING"}
  /\ game.settlement \in {"PENDING", "NOT_REQUIRED"}
  /\ result
  /\ Begin(x, "read", "sweep")
  /\ UNCHANGED requests

StartEndMatch(x) ==
  /\ job = "end-match"
  /\ Begin(x, "read", "stage")
  /\ UNCHANGED requests

(***************************************************************************)
(* settleGame, one action per await.                                       *)
(***************************************************************************)

(* What every step leaves alone that neither writes the database nor talks *)
(* to the chain.                                                           *)
Local == UNCHANGED <<setup, node, queued, chain, inflight, job, attempts, bounds>>

ReadGame(x) ==
  /\ At(x, "read")
  /\ \/ game.settlement = "CONFIRMED" /\ Return(x, "already-settled")
     \/ /\ game.settlement # "CONFIRMED"
        /\ game.status = "CANCELLED"
        /\ Return(x, "rejected")
     \/ /\ game.settlement # "CONFIRMED"
        /\ game.status # "CANCELLED"
        /\ task' = [task EXCEPT ![x].pc = "result", ![x].pot = game.pot]
  /\ UNCHANGED db /\ Local

ReadResult(x) ==
  /\ At(x, "result")
  /\ IF result THEN Go(x, "verify") ELSE Return(x, "no-result")
  /\ UNCHANGED db /\ Local

(* verifyResult.  No stage writes game_players, so the entrants are the    *)
(* reported players with an entry record on chain, and the expected node   *)
(* is the reporting one.                                                   *)
Verifies == Reported \subseteq chain.seats

Verify(x) ==
  /\ At(x, "verify")
  /\ \/ /\ Go(x, IF ~Verifies THEN "park"
                 ELSE IF task[x].pot > 0 /\ ~canSignOnChain THEN "pending" ELSE "vault")
        /\ UNCHANGED faults
     \/ /\ MayFault
        /\ faults' = faults + 1
        /\ Return(x, "threw")
  /\ UNCHANGED <<setup, node, queued, chain, inflight, db, job, attempts, crashes, requests>>

Park(x) ==
  /\ At(x, "park")
  /\ game' = [game EXCEPT !.settlement = "FAILED"]
  /\ Return(x, "rejected")
  /\ UNCHANGED <<ledger, board>> /\ Local

(* What a failed getBalance counts as: money still there for a pot on      *)
(* record, nothing there for one that has yet to be read.                  *)
FailedRead(pot) == IF pot = 0 THEN 0 ELSE -1

(* A pot on record is only checked against the vault; one that is not is   *)
(* taken from it.                                                          *)
WithBalance(t, balance) ==
  IF t.pot = 0
  THEN [t EXCEPT !.pc = IF balance > 0 THEN "pot" ELSE "zero", !.pot = balance]
  ELSE [t EXCEPT !.pc = IF balance = 0 THEN "empty" ELSE "pending"]

ReadVault(x) ==
  /\ At(x, "vault")
  /\ \/ /\ task' = [task EXCEPT ![x] = WithBalance(@, chain.vault)]
        /\ UNCHANGED faults
     \/ /\ MayFault
        /\ faults' = faults + 1
        /\ task' = [task EXCEPT ![x] = WithBalance(@, FailedRead(@.pot))]
  /\ UNCHANGED <<setup, node, queued, chain, inflight, db, job, attempts, crashes, requests>>

finishGame(status) == [game EXCEPT !.status = "COMPLETED", !.settlement = status]

VaultAlreadyEmpty(x) ==
  /\ At(x, "empty")
  /\ game' = finishGame("CONFIRMED")
  /\ Return(x, "already-settled")
  /\ UNCHANGED <<ledger, board>> /\ Local

RecordPot(x) ==
  /\ At(x, "pot")
  /\ game' = [game EXCEPT !.pot = task[x].pot]
  /\ Go(x, "pending")
  /\ UNCHANGED <<ledger, board>> /\ Local

NothingToSettle(x) ==
  /\ At(x, "zero")
  /\ game' = finishGame("NOT_REQUIRED")
  /\ Go(x, "count")
  /\ UNCHANGED <<ledger, board>> /\ Local

MarkPending(x) ==
  /\ At(x, "pending")
  /\ game' = [game EXCEPT !.settlement = "PENDING"]
  /\ Go(x, IF canSignOnChain THEN "start" ELSE "reward")
  /\ UNCHANGED <<ledger, board>> /\ Local

(* sendSigned: the transaction lands and is confirmed, or the program      *)
(* rejects it, or the call fails and the transaction may land later.       *)
Send(x, tx, tolerates, onSuccess, onError) ==
  /\ \/ /\ Accepts(chain, tx)
        /\ chain' = Apply(chain, tx)
        /\ onSuccess
        /\ UNCHANGED <<inflight, faults>>
     \/ /\ ~Accepts(chain, tx)
        /\ IF tolerates THEN onSuccess ELSE onError
        /\ UNCHANGED <<chain, inflight, faults>>
     \/ /\ MayFault
        /\ faults' = faults + 1
        /\ inflight' = inflight \cup {tx}
        /\ onError
        /\ UNCHANGED chain
  /\ UNCHANGED <<setup, node, queued, db, job, attempts, crashes, requests>>

StartRoom(x) ==
  /\ At(x, "start")
  /\ Send(x, "start_room", isAlreadyStarted(ErrorOf(chain, "start_room")),
          Go(x, "unlock"), Return(x, "threw"))

UnlockPrize(x) ==
  /\ At(x, "unlock")
  /\ Send(x, "unlock_prize", isAlreadyDone(ErrorOf(chain, "unlock_prize")),
          Go(x, "pay"), Return(x, "threw"))

(* The winner's wallet resolved when the report was verified and wallets   *)
(* are never unlinked, so it resolves here too.                            *)
SettleToWinner(x) ==
  /\ At(x, "pay")
  /\ Send(x, "settle_to_winner", isAlreadyDone(ErrorOf(chain, "settle_to_winner")),
          Go(x, "reward"), Go(x, "fail"))

RecordFailure(x) ==
  /\ At(x, "fail")
  /\ game' = [game EXCEPT !.settlement = "FAILED"]
  /\ Return(x, "threw")
  /\ UNCHANGED <<ledger, board>> /\ Local

(* The reward's unique key makes a second one a no-op; the payout and rake *)
(* columns of the game are for display.                                    *)
RecordRewards(x) ==
  /\ At(x, "reward")
  /\ ledger' = [ledger EXCEPT !.reward = TRUE]
  /\ Go(x, IF Escrow = "none" THEN "count" ELSE "escrow")
  /\ UNCHANGED <<game, board>> /\ Local

ReadEscrow(x) ==
  /\ At(x, "escrow")
  /\ task' = [task EXCEPT ![x].pc = "posted", ![x].version = ledger.version,
                          ![x].escrow = ledger.escrow]
  /\ UNCHANGED db /\ Local

AlreadyPosted(x) ==
  /\ At(x, "posted")
  /\ Go(x, IF ledger.payouts > 0 THEN "count" ELSE "post")
  /\ UNCHANGED db /\ Local

(* The legs of a settlement whose escrow was read as balance. *)
Posted(balance, pot) ==
  LET split == splitPot(pot)
      prize == IF Winner \in ledger.holders THEN split.prizePool ELSE 0
  IN [ledger EXCEPT !.escrow = balance - prize - split.rake,
                    !.version = @ + 1,
                    !.custody[Winner] = @ + prize,
                    !.rake = @ + split.rake,
                    !.payouts = @ + (IF Winner \in ledger.holders THEN 1 ELSE 0),
                    !.rakes = @ + (IF split.rake > 0 THEN 1 ELSE 0)]

(* postSettlementLedger's transaction: the version of the escrow read      *)
(* before it and the unique keys of the legs decide whether it commits.    *)
PostSettlementLedger(x) ==
  /\ At(x, "post")
  /\ IF ledger.version = task[x].version /\ ledger.payouts = 0 /\ ledger.rakes = 0
     THEN /\ ledger' = Posted(task[x].escrow, task[x].pot)
          /\ Go(x, "count")
     ELSE /\ Return(x, "threw")
          /\ UNCHANGED ledger
  /\ UNCHANGED <<game, board>> /\ Local

ReadBoard(x) ==
  /\ At(x, "count")
  /\ task' = [task EXCEPT ![x].pc = "board", ![x].games = board]
  /\ UNCHANGED db /\ Local

UpdateLeaderboard(x) ==
  /\ At(x, "board")
  /\ board' = task[x].games + 1
  /\ IF task[x].pot = 0 THEN Return(x, "settled") ELSE Go(x, "finish")
  /\ UNCHANGED <<game, ledger>> /\ Local

FinishGame(x) ==
  /\ At(x, "finish")
  /\ game' = finishGame("CONFIRMED")
  /\ Return(x, "settled")
  /\ UNCHANGED <<ledger, board>> /\ Local

(***************************************************************************)
(* cancelGameAndRefund, as one transaction that reads and then writes.     *)
(***************************************************************************)

(* Entry-fee legs credited to the escrow and not yet refunded. *)
Owed == IF Escrow = "funded" THEN Entered \ ledger.refunded ELSE {}

CancelChecks(x) ==
  /\ At(x, "cancel")
  /\ \/ /\ \/ game.status = "COMPLETED"
           \/ Escrow # "none" /\ ledger.payouts + ledger.rakes > 0
        /\ Return(x, "refused")
     \/ /\ game.status # "COMPLETED"
        /\ Escrow = "none" \/ ledger.payouts + ledger.rakes = 0
        /\ IF Cardinality(Owed) * Fee > ledger.escrow
           THEN Return(x, "threw")
           ELSE task' = [task EXCEPT ![x].pc = "commit", ![x].owed = Owed,
                                     ![x].version = ledger.version,
                                     ![x].escrow = ledger.escrow]
  /\ UNCHANGED db /\ Local

cancelRow == [game EXCEPT !.status = "CANCELLED", !.settlement = "NOT_REQUIRED"]

Refunded(t) ==
  IF t.owed = {} THEN ledger
  ELSE [ledger EXCEPT !.escrow = t.escrow - Cardinality(t.owed) * Fee,
                      !.version = @ + 1,
                      !.custody = [p \in Entered |-> @[p] + (IF p \in t.owed THEN Fee ELSE 0)],
                      !.holders = @ \cup t.owed,
                      !.refunded = @ \cup t.owed]

CancelCommitsUnversioned(x) ==  \* mutant: the escrow's version is not named
  /\ At(x, "commit")
  /\ ledger' = Refunded(task[x])
  /\ game' = cancelRow
  /\ Return(x, "cancelled")
  /\ UNCHANGED board /\ Local

CancelCommits(x) ==
  /\ At(x, "commit")
  /\ IF task[x].owed = {} \/ ledger.version = task[x].version
     THEN /\ ledger' = Refunded(task[x])
          /\ game' = cancelRow
          /\ Return(x, "cancelled")
     ELSE /\ Return(x, "threw")
          /\ UNCHANGED <<game, ledger>>
  /\ UNCHANGED board /\ Local

(***************************************************************************)
(* What a caller makes of an outcome.                                      *)
(***************************************************************************)

Done(x) == task' = [task EXCEPT ![x] = Idle]

(* Removed from the queue unless another pass may do better. *)
ConcludeQueued(x) ==
  /\ At(x, "done") /\ task[x].via = "queue"
  /\ queued' = (queued /\ task[x].outcome \in {"no-result", "threw"})
  /\ Done(x)
  /\ UNCHANGED <<setup, node, chain, inflight, db, job, attempts, bounds>>

ConcludeUnheeded(x) ==
  /\ At(x, "done") /\ task[x].via \in {"sweep", "admin", "failed"}
  /\ Done(x)
  /\ UNCHANGED db /\ Local

StageCompletes(x) ==
  /\ At(x, "done") /\ task[x].via = "stage"
  /\ \/ /\ task[x].outcome \in {"settled", "already-settled"}
        /\ job' = "archive-game"
        /\ Done(x)
     \/ /\ task[x].outcome \in {"cancelled", "refused"}
        /\ job' = "over"
        /\ Done(x)
     \/ /\ task[x].outcome = "rejected"
        /\ Go(x, "cancel")
        /\ UNCHANGED job
  /\ UNCHANGED <<setup, node, queued, chain, inflight, db, attempts, bounds>>

(* BullMQ tries again after a backoff; the last failure refunds the match. *)
StageFails(x) ==
  /\ At(x, "done") /\ task[x].via = "stage"
  /\ task[x].outcome \in {"no-result", "threw"}
  /\ attempts' = attempts + 1
  /\ IF attempts' < EndMatchAttempts
     THEN Done(x) /\ UNCHANGED job
     ELSE /\ task' = [task EXCEPT ![x] = [Idle EXCEPT !.pc = "cancel", !.via = "failed"]]
          /\ job' = "over"
  /\ UNCHANGED <<setup, node, queued, chain, inflight, db, bounds>>

(* archive-game: closing the room is best effort. *)
ArchiveGame(x) ==
  /\ At(x, "idle") /\ job = "archive-game"
  /\ job' = "over"
  /\ \/ /\ chain.room \in {"Settled", "Cancelled"} /\ chain.vault = 0
        /\ chain' = [chain EXCEPT !.room = "Closed"]
     \/ UNCHANGED chain
  /\ UNCHANGED <<setup, node, queued, inflight, db, task, attempts, bounds>>

(***************************************************************************)
(* Admin routes, failures and the rest of the chain.                       *)
(***************************************************************************)

AdminCancel(x) ==
  /\ requests < MaxAdmin
  /\ requests' = requests + 1
  /\ Begin(x, "cancel", "admin")

RetrySettlement ==
  /\ requests < MaxAdmin
  /\ requests' = requests + 1
  /\ game.settlement = "FAILED"
  /\ game' = [game EXCEPT !.settlement = "PENDING"]
  /\ UNCHANGED <<setup, node, queued, chain, inflight, ledger, board, task, job, attempts, faults, crashes>>

(* A worker dies.  A stage in hand is delivered again. *)
Crash(x) ==
  /\ crashes < MaxCrashes /\ faults + crashes < MaxMishaps
  /\ crashes' = crashes + 1
  /\ ~At(x, "idle")
  /\ Done(x)
  /\ UNCHANGED <<setup, node, queued, chain, inflight, db, job, attempts, faults, requests>>

(* A transaction given up on lands after all, or never does. *)
Land(tx) ==
  /\ tx \in inflight
  /\ inflight' = inflight \ {tx}
  /\ \/ Accepts(chain, tx) /\ chain' = Apply(chain, tx)
     \/ UNCHANGED chain
  /\ UNCHANGED <<setup, node, queued, db, task, job, attempts, bounds>>

(* cancel_room is open to anyone after an hour, then claim_refund. *)
CancelRoom ==
  /\ CancelDelayOver
  /\ chain.room \in {"Open", "InProgress", "Unlocked"}
  /\ chain' = [chain EXCEPT !.room = "Cancelled"]
  /\ UNCHANGED <<setup, node, queued, inflight, db, task, job, attempts, bounds>>

ClaimRefund(p) ==
  /\ chain.room = "Cancelled"
  /\ p \in chain.seats \ chain.claimed
  /\ chain' = [chain EXCEPT !.claimed = @ \cup {p}, !.vault = @ - Fee]
  /\ UNCHANGED <<setup, node, queued, inflight, db, task, job, attempts, bounds>>

(* The winner, once paid, takes back the rent of the entry record. *)
CloseRoomPlayer ==
  /\ chain.room = "Settled"
  /\ Winner \in chain.seats
  /\ chain' = [chain EXCEPT !.seats = @ \ {Winner}]
  /\ UNCHANGED <<setup, node, queued, inflight, db, task, job, attempts, bounds>>

SettleStep(x) ==
  \/ ReadGame(x) \/ ReadResult(x) \/ Verify(x) \/ Park(x) \/ ReadVault(x)
  \/ VaultAlreadyEmpty(x) \/ RecordPot(x) \/ NothingToSettle(x) \/ MarkPending(x)
  \/ StartRoom(x) \/ UnlockPrize(x) \/ SettleToWinner(x) \/ RecordFailure(x)
  \/ RecordRewards(x) \/ ReadEscrow(x) \/ AlreadyPosted(x) \/ PostSettlementLedger(x)
  \/ ReadBoard(x) \/ UpdateLeaderboard(x) \/ FinishGame(x)

CancelStep(x) == CancelChecks(x) \/ CancelCommits(x)

Conclude(x) == ConcludeQueued(x) \/ ConcludeUnheeded(x) \/ StageCompletes(x) \/ StageFails(x)

Environment ==
  \/ RetrySettlement \/ CancelRoom \/ CloseRoomPlayer
  \/ \E tx \in Transactions : Land(tx)
  \/ \E p \in Entered : ClaimRefund(p)
  \/ \E x \in Admins : AdminCancel(x)
  \/ \E x \in Tasks : Crash(x)

Next ==
  \/ Report \/ Enqueue
  \/ \E x \in Passes : SettleQueued(x) \/ Sweep(x)
  \/ \E x \in Cycles : StartEndMatch(x) \/ ArchiveGame(x)
  \/ \E x \in Tasks : SettleStep(x) \/ CancelStep(x) \/ Conclude(x)
  \/ Environment

Spec == Init /\ [][Next]_vars

(* The pass runs every ten seconds, the job queue delivers, tasks run on,  *)
(* and the node finishes its report.  Nothing forces a fault, a crash, an  *)
(* admin or a player.                                                      *)
Fairness ==
  /\ WF_vars(Enqueue)
  /\ \A x \in Passes : SF_vars(SettleQueued(x)) /\ SF_vars(Sweep(x))
  /\ \A x \in Cycles : WF_vars(StartEndMatch(x)) /\ WF_vars(ArchiveGame(x))
  /\ \A x \in Tasks : WF_vars(SettleStep(x) \/ CancelStep(x) \/ Conclude(x))

FairSpec == Spec /\ Fairness

(***************************************************************************)
(* Properties                                                              *)
(***************************************************************************)
(* The winner's money has left the vault for the winner's wallet. *)
Paid == chain.paid = splitPot(Pot).prizePool /\ chain.vault = 0

(* After the delay the players cancelled the room on chain, and may take   *)
(* their stakes back: settleGame cannot tell the errors and the empty      *)
(* vault this leaves from those of a payout.                               *)
TakenBack == chain.room = "Cancelled" \/ chain.claimed # {}

(* The books never run ahead of the chain: a reward row, a payout leg or a *)
(* rake leg exists only once settle_to_winner has landed, although the     *)
(* calls may fail, land late or be repeated by another pass; a room that   *)
(* was cancelled on chain is the one exception.                            *)
BooksFollowChain ==
  canSignOnChain /\ (ledger.reward \/ ledger.payouts + ledger.rakes > 0)
    => Paid \/ TakenBack

(* A settlement recorded as CONFIRMED has paid its winner, on each of the  *)
(* two ways settleGame gets there, having paid and finding the vault       *)
(* empty, with the same exception.                                         *)
ConfirmedMeansPaid == canSignOnChain /\ game.settlement = "CONFIRMED" => Paid \/ TakenBack

(* However many passes and stages settle the match at once, one of them at *)
(* most gets past unlock_prize: the once-only instruction is the lock      *)
(* under which rewards, legs and the leaderboard are written.              *)
OneSettlerRecords ==
  canSignOnChain =>
    Cardinality({ x \in Tasks :
      /\ task[x].pc \in {"pay", "fail", "reward", "escrow", "posted", "post",
                         "count", "board", "finish"}
      /\ task[x].pot > 0 }) <= 1

(* A report naming someone who never paid moves nothing on chain and is    *)
(* never recorded as a payout: verifyResult stands before every write.     *)
UnpaidReportNeverPays ==
  ~(Reported \subseteq Entered) => chain.paid = 0 /\ ~ledger.reward /\ ledger.payouts = 0

(* Once a payout leg is posted no stake is refunded, although cancelGame-  *)
(* AndRefund may have looked for one before it was.                        *)
NoRefundAfterPayout ==
  [][ledger.payouts > 0 => ledger'.refunded = ledger.refunded]_vars

(* Double entry: what the escrow lost, custody accounts and the rake       *)
(* account gained, so no settlement, refund or retry creates lamports.     *)
LedgerBalanced ==
  ledger.escrow + Total(ledger.custody) + ledger.rake
    = IF Escrow = "funded" THEN Pot ELSE 0

(* What is on record of a match is true, however passes, the stage, admins *)
(* and late transactions overlap: books and confirmations follow the       *)
(* chain, one settler records, an unpaid report moves nothing and lamports *)
(* are conserved (settleGame, cancelGameAndRefund).                        *)
SettlementInv ==
  /\ TypeOK /\ BooksFollowChain /\ ConfirmedMeansPaid
  /\ OneSettlerRecords /\ UnpaidReportNeverPays /\ LedgerBalanced

(* A match reported with an attempt of end-match to spare is paid, passes  *)
(* and stage overlapping as they please, unless a worker dies meanwhile.   *)
ReportedIsPaid == (result /\ attempts + 1 < EndMatchAttempts) ~> (Paid \/ crashes > 0)

(* A crash of the worker, twice, does not keep a reported match from       *)
(* having its prize unlocked: the queue keeps it until it is settled.      *)
ReportedIsUnlocked ==
  (result /\ attempts + 1 < EndMatchAttempts) ~> chain.room \notin {"Open", "InProgress"}

(* A report is honoured: paid when no worker dies, and through two crashes *)
(* at least as far as the unlocked prize (settleFinished, endMatch).       *)
ReportIsHonoured == ReportedIsPaid /\ ReportedIsUnlocked

(***************************************************************************)
(* What the code's comments say of it and the model refutes.               *)
(***************************************************************************)

(* settle.ts: already unlocked is not a failure, so a prize once unlocked  *)
(* is eventually paid by a retry.                                          *)
UnlockedIsPaid == chain.room = "Unlocked" ~> Paid

=============================================================================
