--------------------------- MODULE SettlementProofs ---------------------------
(***************************************************************************)
(* Proofs about MatchSettlement, for any players, fee, rake and number of  *)
(* passes, admins and faults: the inductive invariant SInv, SettlementInv, *)
(* which follows from it, and NoRefundAfterPayout.                         *)
(***************************************************************************)
EXTENDS MatchSettlement, SumsProofs

(***************************************************************************)
(* The inductive invariant.                                                *)
(***************************************************************************)

Prize == splitPot(Pot).prizePool

(* The room: its vault holds the stakes until they are paid out or taken   *)
(* back one by one.                                                        *)
ChainInv ==
  /\ chain.room \in {"Open", "InProgress", "Unlocked"} =>
       chain.vault = Pot /\ chain.paid = 0 /\ chain.claimed = {}
  /\ chain.room = "Cancelled" =>
       chain.vault = Cardinality(Entered \ chain.claimed) * Fee /\ chain.paid = 0
  /\ chain.room = "Settled" => Paid
  /\ chain.room = "Closed" => Paid \/ TakenBack

Unlocked == chain.room \notin {"Open", "InProgress"}
Concluded == Paid \/ TakenBack

(* A settlement that is past unlock_prize; past the payment too; and what  *)
(* it knows by then.                                                       *)
AfterPay == {"reward", "escrow", "posted", "post", "count", "board", "finish"}
Settling(x) == task[x].pc \in {"pay", "fail"} \cup AfterPay /\ task[x].pot > 0

SettleInv(x) ==
  /\ task[x].pc \in {"empty", "pot", "pending", "start", "unlock", "pay", "fail", "reward",
                     "escrow", "posted", "post", "finish"} => task[x].pot > 0
  /\ task[x].pc = "zero" => task[x].pot = 0
  /\ task[x].pc = "empty" => chain.vault = 0
  /\ canSignOnChain /\ Settling(x) => Unlocked
  /\ canSignOnChain /\ task[x].pc \in AfterPay /\ task[x].pot > 0 => Concluded

(* One settlement at a time, as unlock_prize happens once.                 *)
OneSettler == canSignOnChain => \A x, y \in Tasks : Settling(x) /\ Settling(y) => x = y

(* What a transaction on the ledger has read, if the escrow's version      *)
(* still is the one it read.                                               *)
LedgerTaskInv(x) ==
  task[x].pc \in {"posted", "post"} \/ (task[x].pc = "commit" /\ task[x].owed # {}) =>
    /\ task[x].version <= ledger.version
    /\ task[x].version = ledger.version =>
         /\ task[x].escrow = ledger.escrow
         /\ task[x].pc = "commit" => ledger.payouts = 0

(* A report that does not verify leads nowhere.                            *)
UnpaidInv ==
  ~(Reported \subseteq Entered) =>
    /\ inflight = {} /\ chain.paid = 0 /\ ~ledger.reward /\ ledger.payouts = 0
    /\ \A x \in Tasks : task[x].pc \in {"idle", "read", "result", "verify", "park", "done",
                                        "cancel", "commit"}

(* The stage's task, and the attempts it has left.                         *)
JobInv ==
  /\ job = "end-match" => attempts < EndMatchAttempts
  /\ \A x \in Tasks : task[x].pc # "idle" /\ task[x].via = "stage" =>
       x \in Cycles /\ job = "end-match"

SInv ==
  /\ TypeOK
  /\ ChainInv
  /\ \A x \in Tasks : SettleInv(x) /\ LedgerTaskInv(x)
  /\ OneSettler /\ UnpaidInv /\ JobInv
  /\ BooksFollowChain /\ ConfirmedMeansPaid /\ LedgerBalanced

(***************************************************************************)
(* Amounts.                                                                *)
(***************************************************************************)

LEMMA SplitType ==
  ASSUME NEW n \in Nat
  PROVE  /\ splitPot(n).prizePool \in Nat /\ splitPot(n).rake \in Nat
         /\ splitPot(n).prizePool + splitPot(n).rake = n
<1> DEFINE k == (n * RakeBps) \div 10000
<1>1. RakeBps \in Nat /\ RakeBps <= 10000
  BY SettlementAssumption
<1>2. n * RakeBps \in Nat /\ n * RakeBps <= n * 10000
  BY <1>1
<1>3. k \in Nat /\ k <= n
  BY <1>2
<1>4. splitPot(n).rake = k /\ splitPot(n).prizePool = n - k
  BY DEF splitPot
<1> HIDE DEF k
<1>5. QED BY <1>3, <1>4

LEMMA PotType == IsFiniteSet(Entered) /\ Fee \in Nat /\ Pot \in Nat
<1>1. Cardinality(Entered) \in Nat /\ Fee \in Nat /\ IsFiniteSet(Entered)
  BY SettlementAssumption, FS_CardinalityType
<1>2. QED BY <1>1 DEF Pot

(* Stakes taken back leave the vault the stakes of the others.             *)
LEMMA TakeBack ==
  ASSUME NEW S \in SUBSET Entered, NEW p \in Entered \ S
  PROVE  /\ Cardinality(Entered \ S) * Fee \in Nat
         /\ Cardinality(Entered \ (S \cup {p})) * Fee \in Nat
         /\ Cardinality(Entered \ (S \cup {p})) * Fee = Cardinality(Entered \ S) * Fee - Fee
<1> DEFINE A == Entered \ S
           n == Cardinality(Entered \ S)
           m == Cardinality(Entered \ (S \cup {p}))
<1>1. IsFiniteSet(A) /\ p \in A /\ Entered \ (S \cup {p}) = A \ {p}
  BY PotType, FS_Subset
<1>2. n \in Nat /\ m \in Nat /\ m = n - 1
  <2> HIDE DEF A
  <2>1. Cardinality(A) \in Nat /\ Cardinality(A \ {p}) \in Nat
    BY <1>1, FS_RemoveElement, FS_CardinalityType
  <2>2. Cardinality(A \ {p}) = Cardinality(A) - 1
    BY <1>1, FS_RemoveElement
  <2>3. n = Cardinality(A) /\ m = Cardinality(A \ {p})
    BY <1>1 DEF A
  <2> HIDE DEF n, m
  <2>4. QED BY <2>1, <2>2, <2>3
<1>3. Fee \in Nat
  BY PotType
<1> HIDE DEF n, m
<1>4. /\ n * Fee \in Nat /\ m * Fee \in Nat
      /\ m * Fee = n * Fee - Fee
  BY <1>2, <1>3
<1>5. QED BY <1>4 DEF n, m

LEMMA AllStakes == Cardinality(Entered \ {}) * Fee = Pot
<1>1. Entered \ {} = Entered
  OBVIOUS
<1>2. QED BY <1>1 DEF Pot

(***************************************************************************)
(* The chain.  It moves by an accepted instruction, by players who cancel  *)
(* or close, and by archive-game.                                          *)
(***************************************************************************)

Cancels ==
  /\ chain.room \in {"Open", "InProgress", "Unlocked"}
  /\ chain' = [chain EXCEPT !.room = "Cancelled"]

Claims(p) ==
  /\ chain.room = "Cancelled" /\ p \in chain.seats \ chain.claimed
  /\ chain' = [chain EXCEPT !.claimed = @ \cup {p}, !.vault = @ - Fee]

Leaves == chain.room = "Settled" /\ chain' = [chain EXCEPT !.seats = @ \ {Winner}]

Closes ==
  /\ chain.room \in {"Settled", "Cancelled"} /\ chain.vault = 0
  /\ chain' = [chain EXCEPT !.room = "Closed"]

ChainMoves ==
  \/ UNCHANGED chain
  \/ \E tx \in Transactions : Accepts(chain, tx) /\ chain' = Apply(chain, tx)
  \/ Cancels \/ Leaves \/ Closes
  \/ \E p \in Entered : Claims(p)

ChainType ==
  chain \in [room : RoomStatus, vault : Nat, seats : SUBSET Entered,
             claimed : SUBSET Entered, paid : Nat, fees : Nat]

(* What no step of the chain undoes: an unlocked prize, an empty vault, a  *)
(* prize paid or stakes taken back.                                        *)
LEMMA ChainStep ==
  ASSUME ChainType, ChainInv, ChainMoves
  PROVE  /\ ChainType' /\ ChainInv'
         /\ Unlocked => Unlocked'
         /\ chain.vault = 0 => chain'.vault = 0
         /\ Concluded => Concluded'
         /\ chain'.seats \subseteq chain.seats
<1> DEFINE Good == /\ ChainType' /\ ChainInv'
                   /\ Unlocked => Unlocked'
                   /\ chain.vault = 0 => chain'.vault = 0
                   /\ Concluded => Concluded'
                   /\ chain'.seats \subseteq chain.seats
<1>p. /\ Pot \in Nat /\ Prize \in Nat /\ splitPot(Pot).rake \in Nat
      /\ Prize + splitPot(Pot).rake = Pot
  BY PotType, SplitType DEF Prize
<1>1. CASE UNCHANGED chain
  BY <1>1 DEF ChainType, ChainInv, Unlocked, Concluded, Paid, TakenBack
<1>2. CASE Accepts(chain, "start_room") /\ chain' = Apply(chain, "start_room")
  <2>1. chain.room = "Open" /\ chain' = [chain EXCEPT !.room = "InProgress"]
    BY <1>2 DEF Accepts, Apply
  <2>2. QED BY <2>1, <1>p
            DEF ChainType, RoomStatus, ChainInv, Unlocked, Concluded, Paid, TakenBack
<1>3. CASE Accepts(chain, "unlock_prize") /\ chain' = Apply(chain, "unlock_prize")
  <2>1. chain.room = "InProgress" /\ chain' = [chain EXCEPT !.room = "Unlocked"]
    BY <1>3 DEF Accepts, Apply
  <2>2. QED BY <2>1, <1>p
            DEF ChainType, RoomStatus, ChainInv, Unlocked, Concluded, Paid, TakenBack
<1>4. CASE Accepts(chain, "settle_to_winner") /\ chain' = Apply(chain, "settle_to_winner")
  <2> DEFINE v == chain.vault - Pot
             a == chain.paid + Prize
             f == chain.fees + splitPot(Pot).rake
  <2>1. /\ chain.room = "Unlocked"
        /\ chain' = [chain EXCEPT !.room = "Settled", !.vault = v, !.paid = a, !.fees = f]
    BY <1>4 DEF Accepts, Apply, Prize
  <2>2. chain.vault = Pot /\ chain.paid = 0 /\ chain.claimed = {}
    BY <2>1 DEF ChainInv
  <2>3. v = 0 /\ a = Prize /\ a \in Nat /\ f \in Nat
    BY <2>2, <1>p DEF ChainType
  <2> HIDE DEF v, a, f
  <2>4. ChainType'
    BY <2>1, <2>3 DEF ChainType, RoomStatus
  <2>5. /\ chain'.room = "Settled" /\ chain'.vault = 0 /\ chain'.paid = Prize
        /\ chain'.seats = chain.seats
    BY <2>1, <2>3 DEF ChainType
  <2>6. QED BY <2>4, <2>5 DEF ChainInv, Unlocked, Concluded, Paid, TakenBack, Prize
<1>5. CASE Cancels
  <2>1. Cardinality(Entered \ {}) * Fee = Pot
    BY AllStakes
  <2>2. QED BY <1>5, <2>1, <1>p
            DEF Cancels, ChainType, RoomStatus, ChainInv, Unlocked, Concluded, Paid, TakenBack
<1>6. CASE Leaves
  BY <1>6 DEF Leaves, ChainType, RoomStatus, ChainInv, Unlocked, Concluded, Paid, TakenBack
<1>7. CASE Closes
  <2>1. CASE chain.claimed = {} /\ chain.room = "Cancelled"
    <3>1. Pot = 0 /\ chain.paid = 0
      BY <1>7, <2>1, AllStakes DEF Closes, ChainInv
    <3>2. Paid
      BY <3>1, <1>7, <1>p DEF Paid, Closes, Prize
    <3>3. QED BY <3>2, <1>7
              DEF Closes, ChainType, RoomStatus, ChainInv, Unlocked, Concluded, Paid, TakenBack
  <2>2. CASE chain.claimed # {} \/ chain.room = "Settled"
    BY <2>2, <1>7
       DEF Closes, ChainType, RoomStatus, ChainInv, Unlocked, Concluded, Paid, TakenBack
  <2>3. QED BY <1>7, <2>1, <2>2 DEF Closes
<1>8. ASSUME NEW p \in Entered, Claims(p) PROVE Good
  <2> DEFINE S == chain.claimed
             n == Cardinality(Entered \ S) * Fee
             m == Cardinality(Entered \ (S \cup {p})) * Fee
             v == chain.vault - Fee
  <2>1. /\ chain.room = "Cancelled" /\ p \notin S /\ S \subseteq Entered
        /\ chain' = [chain EXCEPT !.claimed = S \cup {p}, !.vault = v]
        /\ chain.vault = n /\ chain.paid = 0
    BY <1>8 DEF Claims, ChainType, ChainInv
  <2>2. n \in Nat /\ m \in Nat /\ m = n - Fee /\ Fee \in Nat
    BY <2>1, TakeBack, PotType
  <2> HIDE DEF n, m
  <2>3. v \in Nat /\ v = m /\ (chain.vault = 0 => v = 0)
    BY <2>1, <2>2
  <2> HIDE DEF v, S
  <2>4. /\ chain'.room = "Cancelled" /\ chain'.claimed = S \cup {p} /\ chain'.vault = v
        /\ chain'.paid = 0 /\ chain'.seats = chain.seats /\ chain'.fees = chain.fees
        /\ ChainType'
    BY <2>1, <2>3 DEF ChainType, RoomStatus
  <2>5. ChainInv'
    BY <2>3, <2>4 DEF ChainInv, m
  <2>6. QED BY <2>1, <2>3, <2>4, <2>5 DEF Unlocked, Concluded, Paid, TakenBack
<1>9. QED
  BY <1>1, <1>2, <1>3, <1>4, <1>5, <1>6, <1>7, <1>8 DEF ChainMoves, Transactions

(***************************************************************************)
(* The ledger.                                                             *)
(***************************************************************************)

LedgerType ==
  ledger \in [escrow : Int, version : Nat, custody : [Entered -> Nat], rake : Nat,
              holders : SUBSET Entered, payouts : Nat, rakes : Nat,
              refunded : SUBSET Entered, reward : BOOLEAN]

Sum == ledger.escrow + Total(ledger.custody) + ledger.rake

(* A settlement moves the winner's prize and the rake out of the escrow.   *)
LEMMA PostedMoves ==
  ASSUME LedgerType, NEW pot \in Nat, ledger' = Posted(ledger.escrow, pot)
  PROVE  /\ LedgerType' /\ Sum' = Sum
         /\ ledger'.version = ledger.version + 1
         /\ ledger'.refunded = ledger.refunded /\ ledger'.reward = ledger.reward
<1> DEFINE paid == Winner \in ledger.holders
           prize == IF paid THEN splitPot(pot).prizePool ELSE 0
           rake == splitPot(pot).rake
           e == ledger.escrow - prize - rake
           v == ledger.version + 1
           c == [ledger.custody EXCEPT ![Winner] = @ + prize]
           k == ledger.rake + rake
           n == ledger.payouts + (IF paid THEN 1 ELSE 0)
           m == ledger.rakes + (IF rake > 0 THEN 1 ELSE 0)
<1>1. prize \in Nat /\ rake \in Nat /\ paid \in BOOLEAN
  BY SplitType
<1>2. /\ ledger.custody \in [Entered -> Nat] /\ ledger.holders \subseteq Entered
      /\ ledger.escrow \in Int /\ ledger.version \in Nat /\ ledger.rake \in Nat
      /\ ledger.payouts \in Nat /\ ledger.rakes \in Nat
  BY DEF LedgerType
<1>3. Total(c) = Total(ledger.custody) + prize
  <2>1. CASE paid
    <3>1. Winner \in Entered /\ IsFiniteSet(Entered)
      BY <2>1, <1>2, PotType
    <3> HIDE DEF prize
    <3>2. QED BY <3>1, <1>1, <1>2, TotalRaise
  <2>2. CASE ~paid
    <3>1. prize = 0
      BY <2>2
    <3>2. c = ledger.custody
      BY <1>2, <3>1
    <3>3. Total(ledger.custody) \in Nat
      BY <1>2, PotType, TotalType
    <3>4. QED BY <3>1, <3>2, <3>3
  <2>3. QED BY <2>1, <2>2
<1>4. Total(ledger.custody) \in Nat
  BY <1>2, PotType, TotalType
<1>5. ledger' = [ledger EXCEPT !.escrow = e, !.version = v, !.custody = c, !.rake = k,
                               !.payouts = n, !.rakes = m]
  BY DEF Posted, LedgerType
<1>6. e \in Int /\ v \in Nat /\ k \in Nat /\ n \in Nat /\ m \in Nat
  <2> HIDE DEF prize, rake, paid
  <2>1. QED BY <1>1, <1>2
<1>7. c \in [Entered -> Nat]
  <2> DEFINE f == ledger.custody
  <2>1. f \in [Entered -> Nat] /\ prize \in Nat
    BY <1>1, <1>2
  <2> HIDE DEF prize, f
  <2>2. \A p \in Entered : f[p] + prize \in Nat
    BY <2>1
  <2>3. [f EXCEPT ![Winner] = @ + prize] \in [Entered -> Nat]
    BY <2>1, <2>2
  <2>4. QED BY <2>3 DEF f
<1>8. e + (Total(ledger.custody) + prize) + k = ledger.escrow + Total(ledger.custody) + ledger.rake
  <2> HIDE DEF prize, rake
  <2>1. QED BY <1>1, <1>2, <1>4
<1> HIDE DEF e, v, c, k, n, m, prize, rake, paid
<1>9. /\ ledger'.escrow = e /\ ledger'.version = v /\ ledger'.custody = c /\ ledger'.rake = k
      /\ ledger'.refunded = ledger.refunded /\ ledger'.reward = ledger.reward
      /\ LedgerType'
  BY ZenonT(30), <1>5, <1>6, <1>7 DEF LedgerType
<1>10. Sum' = Sum
  BY <1>3, <1>8, <1>9 DEF Sum
<1>11. QED BY <1>9, <1>10 DEF v

(* A refund moves every stake still owed back to its player.               *)
LEMMA RefundedMoves ==
  ASSUME LedgerType, NEW t, t.owed \subseteq Entered, t.owed # {}, t.escrow = ledger.escrow,
         ledger' = Refunded(t)
  PROVE  /\ LedgerType' /\ Sum' = Sum
         /\ ledger'.version = ledger.version + 1
         /\ ledger'.payouts = ledger.payouts /\ ledger'.rakes = ledger.rakes
         /\ ledger'.reward = ledger.reward
<1> DEFINE S == t.owed
           total == Cardinality(S) * Fee
           share == [p \in Entered |-> IF p \in S THEN Fee ELSE 0]
           e == ledger.escrow - total
           v == ledger.version + 1
           c == [p \in Entered |-> ledger.custody[p] + (IF p \in S THEN Fee ELSE 0)]
           h == ledger.holders \cup S
           r == ledger.refunded \cup S
<1>1. /\ ledger.custody \in [Entered -> Nat] /\ ledger.holders \subseteq Entered
      /\ ledger.refunded \subseteq Entered
      /\ ledger.escrow \in Int /\ ledger.version \in Nat /\ ledger.rake \in Nat
  BY DEF LedgerType
<1>2. IsFiniteSet(Entered) /\ IsFiniteSet(S) /\ Cardinality(S) \in Nat /\ Fee \in Nat
  BY PotType, FS_Subset, FS_CardinalityType
<1>3. total \in Nat
  BY <1>2
<1>4. share \in [Entered -> Nat] /\ c \in [Entered -> Nat]
      /\ \A p \in Entered : c[p] = ledger.custody[p] + share[p]
  BY <1>1, <1>2
<1>5. Total(share) = total
  BY <1>2, TotalShares
<1>6. Total(c) = Total(ledger.custody) + total
  <2> HIDE DEF share, c, total
  <2>1. Total(c) = Total(ledger.custody) + Total(share)
    BY <1>1, <1>2, <1>4, TotalAdd
  <2>2. QED BY <2>1, <1>5
<1>7. Total(ledger.custody) \in Nat
  BY <1>1, <1>2, TotalType
<1>8. ledger' = [ledger EXCEPT !.escrow = e, !.version = v, !.custody = c, !.holders = h,
                               !.refunded = r]
  BY DEF Refunded, LedgerType
<1>9. /\ e \in Int /\ v \in Nat /\ h \subseteq Entered /\ r \subseteq Entered
      /\ e + (Total(ledger.custody) + total) + ledger.rake
           = ledger.escrow + Total(ledger.custody) + ledger.rake
  <2> HIDE DEF total
  <2>1. QED BY <1>1, <1>3, <1>7
<1> HIDE DEF e, v, c, h, r, total
<1>10. /\ ledger'.escrow = e /\ ledger'.version = v /\ ledger'.custody = c
       /\ ledger'.rake = ledger.rake /\ ledger'.payouts = ledger.payouts
       /\ ledger'.rakes = ledger.rakes /\ ledger'.reward = ledger.reward
       /\ LedgerType'
  BY ZenonT(30), <1>4, <1>8, <1>9 DEF LedgerType
<1>11. Sum' = Sum
  BY <1>6, <1>9, <1>10 DEF Sum
<1>12. QED BY <1>10, <1>11 DEF v

(***************************************************************************)
(* How a task moves.                                                       *)
(***************************************************************************)

Vias == {"queue", "sweep", "stage", "failed", "admin"}

LEMMA IdleType == Idle \in Task
  BY DEF Idle, Task, PC, Outcome

LEMMA TaskParts ==
  ASSUME TypeOK, NEW x \in Tasks
  PROVE  /\ task[x] \in Task /\ task[x].pc \in PC /\ task[x].via \in Vias
         /\ task[x].pot \in Nat /\ task[x].version \in Nat /\ task[x].escrow \in Int
         /\ task[x].games \in Nat /\ task[x].owed \subseteq Entered
         /\ task[x].outcome \in Outcome
BY DEF TypeOK, Task, Vias

Others(x) == \A y \in Tasks \ {x} : task'[y] = task[y]

(* On to the next await.                                                   *)
LEMMA GoMoves ==
  ASSUME TypeOK, NEW x \in Tasks, NEW pc \in PC, Go(x, pc)
  PROVE  /\ task' \in [Tasks -> Task] /\ Others(x) /\ task'[x].pc = pc
         /\ task'[x].via = task[x].via /\ task'[x].pot = task[x].pot
         /\ task'[x].version = task[x].version /\ task'[x].escrow = task[x].escrow
         /\ task'[x].owed = task[x].owed
BY DEF TypeOK, Go, Task, Others

(* An outcome, with nothing kept but the caller.                           *)
LEMMA ReturnMoves ==
  ASSUME TypeOK, NEW x \in Tasks, NEW outcome \in Outcome, Return(x, outcome)
  PROVE  /\ task' \in [Tasks -> Task] /\ Others(x) /\ task'[x].pc = "done"
         /\ task'[x].via = task[x].via /\ task'[x].owed = {}
<1> DEFINE via == task[x].via
           t == [Idle EXCEPT !.pc = "done", !.via = via, !.outcome = outcome]
<1>1. via \in Vias /\ Idle \in Task /\ task' = [task EXCEPT ![x] = t]
  BY TaskParts, IdleType DEF Return
<1>2. t.pc = "done" /\ t.via = via /\ t.owed = {}
  BY DEF Idle
<1>3. t \in Task
  <2> HIDE DEF via
  <2>1. QED BY <1>1 DEF Task, PC, Vias
<1> HIDE DEF t, via
<1>4. QED BY <1>1, <1>2, <1>3 DEF TypeOK, Others, via

LEMMA DoneMoves ==
  ASSUME TypeOK, NEW x \in Tasks, Done(x)
  PROVE  task' \in [Tasks -> Task] /\ Others(x) /\ task'[x].pc = "idle"
BY IdleType DEF TypeOK, Done, Others, Idle

Begun(pc, via) == [Idle EXCEPT !.pc = pc, !.via = via]

LEMMA BeginMoves ==
  ASSUME TypeOK, NEW x \in Tasks, NEW pc \in PC, NEW via \in Vias,
         task' = [task EXCEPT ![x] = Begun(pc, via)]
  PROVE  task' \in [Tasks -> Task] /\ Others(x) /\ task'[x].pc = pc /\ task'[x].via = via
<1> DEFINE t == Begun(pc, via)
<1>1. t \in Task /\ t.pc = pc /\ t.via = via
  BY IdleType DEF Task, Vias, Idle, Begun
<1> HIDE DEF t
<1>2. task' = [task EXCEPT ![x] = t]
  BY DEF t
<1>3. QED BY <1>1, <1>2 DEF TypeOK, Others

(* A task that keeps what it has just read.                                *)
LEMMA ReadMoves ==
  ASSUME TypeOK, NEW x \in Tasks, NEW t \in Task, task' = [task EXCEPT ![x] = t]
  PROVE  task' \in [Tasks -> Task] /\ Others(x) /\ task'[x] = t
BY DEF TypeOK, Others

(* The read of the vault.                                                  *)
LEMMA VaultMoves ==
  ASSUME TypeOK, NEW x \in Tasks, NEW balance \in Int,
         balance < 0 => task[x].pot # 0,
         task' = [task EXCEPT ![x] = WithBalance(task[x], balance)]
  PROVE  /\ task' \in [Tasks -> Task] /\ Others(x) /\ task'[x].via = task[x].via
         /\ \/ task'[x].pc = "pot" /\ task'[x].pot > 0
            \/ task'[x].pc = "zero" /\ task'[x].pot = 0
            \/ task'[x].pc = "empty" /\ task'[x].pot > 0 /\ balance = 0
            \/ task'[x].pc = "pending" /\ task'[x].pot > 0
<1>1. task[x] \in Task /\ task[x].pot \in Nat
  BY TaskParts
<1>2. CASE task[x].pot = 0
  <2> DEFINE pc == IF balance > 0 THEN "pot" ELSE "zero"
             t == [task[x] EXCEPT !.pc = pc, !.pot = balance]
  <2>1. task' = [task EXCEPT ![x] = t] /\ pc \in PC /\ balance \in Nat
    BY <1>2 DEF WithBalance, PC
  <2>2. (pc = "pot" /\ balance > 0) \/ (pc = "zero" /\ balance = 0)
    BY <2>1
  <2> HIDE DEF pc
  <2>3. t \in Task /\ t.pc = pc /\ t.pot = balance /\ t.via = task[x].via
    BY <1>1, <2>1 DEF Task
  <2> HIDE DEF t
  <2>4. QED BY <2>1, <2>2, <2>3 DEF TypeOK, Others
<1>3. CASE task[x].pot # 0
  <2> DEFINE pc == IF balance = 0 THEN "empty" ELSE "pending"
             t == [task[x] EXCEPT !.pc = pc]
  <2>1. task' = [task EXCEPT ![x] = t] /\ pc \in PC
    BY <1>3 DEF WithBalance, PC
  <2>2. (pc = "empty" /\ balance = 0) \/ pc = "pending"
    OBVIOUS
  <2> HIDE DEF pc
  <2>3. t \in Task /\ t.pc = pc /\ t.pot = task[x].pot /\ t.via = task[x].via
    BY <1>1, <2>1 DEF Task
  <2> HIDE DEF t
  <2>4. QED BY <1>1, <1>3, <2>1, <2>2, <2>3 DEF TypeOK, Others
<1>4. QED BY <1>2, <1>3

(***************************************************************************)
(* Every step by what it does to the chain and to the ledger.              *)
(***************************************************************************)

LEMMA ChainMovesStep ==
  ASSUME TypeOK, [Next]_vars
  PROVE  setup' = setup /\ ChainMoves
<1> USE DEF ChainMoves, Local
<1>1. ASSUME NEW x \in Tasks, SettleStep(x) PROVE setup' = setup /\ ChainMoves
  <2>1. CASE StartRoom(x) \/ UnlockPrize(x) \/ SettleToWinner(x)
    BY <2>1 DEF StartRoom, UnlockPrize, SettleToWinner, Send, Transactions
  <2>2. CASE ~(StartRoom(x) \/ UnlockPrize(x) \/ SettleToWinner(x))
    BY <1>1, <2>2 DEF SettleStep, ReadGame, ReadResult, Verify, Park, ReadVault, VaultAlreadyEmpty,
                      RecordPot, NothingToSettle, MarkPending, RecordFailure, RecordRewards,
                      ReadEscrow, AlreadyPosted, PostSettlementLedger, ReadBoard,
                      UpdateLeaderboard, FinishGame
  <2>3. QED BY <2>1, <2>2
<1>2. ASSUME NEW x \in Tasks, CancelStep(x) \/ Conclude(x) PROVE setup' = setup /\ ChainMoves
  BY <1>2 DEF CancelStep, CancelChecks, CancelCommits, Conclude, ConcludeQueued, ConcludeUnheeded,
              StageCompletes, StageFails
<1>3. ASSUME NEW x \in Cycles, StartEndMatch(x) \/ ArchiveGame(x)
      PROVE  setup' = setup /\ ChainMoves
  BY <1>3 DEF StartEndMatch, Begin, ArchiveGame, Closes
<1>4. ASSUME NEW x \in Passes, SettleQueued(x) \/ Sweep(x) PROVE setup' = setup /\ ChainMoves
  BY <1>4 DEF SettleQueued, Sweep, Begin
<1>5. CASE Report \/ Enqueue
  BY <1>5 DEF Report, Enqueue
<1>6. CASE Environment
  <2>1. CASE CancelRoom
    BY <2>1 DEF CancelRoom, Cancels
  <2>2. CASE CloseRoomPlayer
    BY <2>2 DEF CloseRoomPlayer, Leaves
  <2>3. ASSUME NEW p \in Entered, ClaimRefund(p) PROVE setup' = setup /\ ChainMoves
    BY <2>3 DEF ClaimRefund, Claims
  <2>4. ASSUME NEW tx \in Transactions, Land(tx) PROVE setup' = setup /\ ChainMoves
    BY <2>4 DEF Land
  <2>5. CASE RetrySettlement \/ (\E x \in Admins : AdminCancel(x)) \/ (\E x \in Tasks : Crash(x))
    BY <2>5 DEF RetrySettlement, AdminCancel, Begin, Crash
  <2>6. QED BY <1>6, <2>1, <2>2, <2>3, <2>4, <2>5 DEF Environment
<1>7. CASE UNCHANGED vars
  BY <1>7 DEF vars
<1>8. QED BY <1>1, <1>2, <1>3, <1>4, <1>5, <1>6, <1>7 DEF Next

(* A settlement that may write the books: nothing but a payment, or stakes *)
(* taken back, leads to it.                                                *)
Writing(x) == task[x].pc \in {"reward", "post"}

Written == ledger.reward \/ ledger.payouts + ledger.rakes > 0

(* No step loses a lamport of the books, every change of the escrow names  *)
(* a new version, and nothing is refunded once a payout is posted.         *)
LEMMA LedgerStep ==
  ASSUME SInv, [Next]_vars
  PROVE  /\ LedgerType' /\ Sum' = Sum
         /\ ledger.version <= ledger'.version
         /\ ledger'.version = ledger.version =>
              ledger'.escrow = ledger.escrow /\ ledger'.payouts = ledger.payouts
         /\ Written' => Written \/ \E x \in Tasks : Writing(x)
         /\ ledger'.reward => ledger.reward \/ \E x \in Tasks : Writing(x)
         /\ ledger'.payouts > 0 => ledger.payouts > 0 \/ \E x \in Tasks : Writing(x)
         /\ ledger.payouts > 0 => ledger'.refunded = ledger.refunded
<1> DEFINE Good ==
      /\ LedgerType' /\ Sum' = Sum
      /\ ledger.version <= ledger'.version
      /\ ledger'.version = ledger.version =>
           ledger'.escrow = ledger.escrow /\ ledger'.payouts = ledger.payouts
      /\ Written' => Written \/ \E x \in Tasks : Writing(x)
      /\ ledger'.reward => ledger.reward \/ \E x \in Tasks : Writing(x)
      /\ ledger'.payouts > 0 => ledger.payouts > 0 \/ \E x \in Tasks : Writing(x)
      /\ ledger.payouts > 0 => ledger'.refunded = ledger.refunded
<1>t. TypeOK /\ LedgerType /\ ledger.version \in Nat
  BY DEF SInv, TypeOK, LedgerType
<1>0. ASSUME UNCHANGED ledger PROVE Good
  BY <1>0, <1>t DEF LedgerType, Sum, Written
<1>1. ASSUME NEW x \in Tasks, RecordRewards(x) PROVE Good
  <2>1. /\ ledger' = [ledger EXCEPT !.reward = TRUE] /\ Writing(x)
    BY <1>1 DEF RecordRewards, Writing, At
  <2>2. /\ LedgerType' /\ ledger'.version = ledger.version /\ ledger'.escrow = ledger.escrow
        /\ ledger'.custody = ledger.custody /\ ledger'.rake = ledger.rake
        /\ ledger'.payouts = ledger.payouts /\ ledger'.refunded = ledger.refunded
    BY <2>1, <1>t DEF LedgerType
  <2>3. Sum' = Sum
    BY <2>2 DEF Sum
  <2>4. QED BY <2>1, <2>2, <2>3, <1>t
<1>2. ASSUME NEW x \in Tasks, PostSettlementLedger(x) PROVE Good
  <2> DEFINE pot == task[x].pot
  <2>1. pot \in Nat /\ Writing(x)
    BY <1>2, <1>t, TaskParts DEF PostSettlementLedger, At, Writing
  <2>2. CASE ledger' = Posted(task[x].escrow, pot) /\ ledger.version = task[x].version
    <3>1. task[x].escrow = ledger.escrow
      BY <1>2, <2>2 DEF SInv, LedgerTaskInv, PostSettlementLedger, At
    <3>2. ledger' = Posted(ledger.escrow, pot)
      BY <2>2, <3>1
    <3> HIDE DEF pot
    <3>3. /\ LedgerType' /\ Sum' = Sum /\ ledger'.version = ledger.version + 1
          /\ ledger'.refunded = ledger.refunded
      BY <2>1, <3>2, <1>t, PostedMoves
    <3>4. QED BY <2>1, <3>3, <1>t
  <2>3. CASE UNCHANGED ledger
    BY <2>3, <1>0
  <2>4. QED BY <1>2, <2>2, <2>3 DEF PostSettlementLedger
<1>3. ASSUME NEW x \in Tasks, CancelCommits(x) PROVE Good
  <2> DEFINE t == task[x]
  <2>1. t.owed \subseteq Entered
    BY <1>t, TaskParts
  <2>2. CASE t.owed # {} /\ ledger.version = t.version /\ ledger' = Refunded(t)
    <3>1. t.escrow = ledger.escrow /\ ledger.payouts = 0
      BY <1>3, <2>2 DEF SInv, LedgerTaskInv, CancelCommits, At
    <3> HIDE DEF t
    <3>2. /\ LedgerType' /\ Sum' = Sum /\ ledger'.version = ledger.version + 1
          /\ ledger'.payouts = ledger.payouts /\ ledger'.rakes = ledger.rakes
          /\ ledger'.reward = ledger.reward
      BY <2>1, <2>2, <3>1, <1>t, RefundedMoves
    <3>3. QED BY <3>1, <3>2, <1>t DEF Written
  <2>3. CASE UNCHANGED ledger
    BY <2>3, <1>0
  <2>4. QED BY <1>3, <2>2, <2>3 DEF CancelCommits, Refunded
<1>4. ASSUME ~\E x \in Tasks : RecordRewards(x) \/ PostSettlementLedger(x) \/ CancelCommits(x)
      PROVE  UNCHANGED ledger
  <2> USE DEF Local, db
  <2>1. ASSUME NEW x \in Tasks, SettleStep(x) PROVE UNCHANGED ledger
    BY <1>4, <2>1 DEF SettleStep, ReadGame, ReadResult, Verify, Park, ReadVault, VaultAlreadyEmpty,
                      RecordPot, NothingToSettle, MarkPending, StartRoom, UnlockPrize,
                      SettleToWinner, Send, RecordFailure, ReadEscrow, AlreadyPosted, ReadBoard,
                      UpdateLeaderboard, FinishGame
  <2>2. ASSUME NEW x \in Tasks, CancelStep(x) \/ Conclude(x) PROVE UNCHANGED ledger
    BY <1>4, <2>2 DEF CancelStep, CancelChecks, Conclude, ConcludeQueued, ConcludeUnheeded,
                      StageCompletes, StageFails
  <2>3. ASSUME NEW x \in Cycles, StartEndMatch(x) \/ ArchiveGame(x) PROVE UNCHANGED ledger
    BY <2>3 DEF StartEndMatch, Begin, ArchiveGame
  <2>4. ASSUME NEW x \in Passes, SettleQueued(x) \/ Sweep(x) PROVE UNCHANGED ledger
    BY <2>4 DEF SettleQueued, Sweep, Begin
  <2>5. CASE Environment
    BY <2>5 DEF Environment, RetrySettlement, CancelRoom, CloseRoomPlayer, Land, ClaimRefund,
                AdminCancel, Begin, Crash
  <2>6. CASE Report \/ Enqueue \/ UNCHANGED vars
    BY <2>6 DEF Report, Enqueue, vars
  <2>7. QED BY <2>1, <2>2, <2>3, <2>4, <2>5, <2>6 DEF Next
<1>5. QED BY <1>0, <1>1, <1>2, <1>3, <1>4

(***************************************************************************)
(* Tasks.                                                                  *)
(***************************************************************************)

Unverified == {"idle", "read", "result", "verify", "park", "done", "cancel", "commit"}

(* A step of a task that keeps its invariants, gets past unlock_prize only *)
(* with the room still locked, and past verifyResult only with a report    *)
(* that verifies.                                                          *)
Moved(x) ==
  /\ task' \in [Tasks -> Task] /\ Others(x)
  /\ SettleInv(x)' /\ LedgerTaskInv(x)'
  /\ canSignOnChain /\ Settling(x)' => Settling(x) \/ ~Unlocked
  /\ ~(Reported \subseteq Entered) => task'[x].pc \in Unverified

(* What the chain and the ledger leave to the tasks.                       *)
Steady ==
  /\ setup' = setup
  /\ Unlocked => Unlocked'
  /\ Concluded => Concluded'
  /\ chain.vault = 0 => chain'.vault = 0
  /\ ledger.version <= ledger'.version
  /\ ledger'.version = ledger.version =>
       ledger'.escrow = ledger.escrow /\ ledger'.payouts = ledger.payouts

LEMMA TaskKeeps ==
  ASSUME SInv, Steady, LedgerType', NEW y \in Tasks, task'[y] = task[y]
  PROVE  /\ SettleInv(y)' /\ LedgerTaskInv(y)'
         /\ Settling(y)' = Settling(y)
<1>1. SettleInv(y) /\ LedgerTaskInv(y)
  BY DEF SInv
<1>2. SettleInv(y)' /\ Settling(y)' = Settling(y)
  BY <1>1 DEF SettleInv, Settling, Steady, canSignOnChain
<1>3. task[y].version \in Nat /\ ledger.version \in Nat /\ ledger'.version \in Nat
  BY TaskParts DEF SInv, TypeOK, LedgerType
<1>4. LedgerTaskInv(y)'
  <2>1. ASSUME task[y].version <= ledger.version
        PROVE  /\ task[y].version <= ledger'.version
               /\ task[y].version = ledger'.version =>
                    ledger'.version = ledger.version /\ task[y].version = ledger.version
    BY <2>1, <1>3 DEF Steady
  <2>2. QED BY <1>1, <2>1 DEF LedgerTaskInv, Steady
<1>5. QED BY <1>2, <1>4

(* A task that gives up, returns or has not verified anything yet.         *)
LEMMA Backs ==
  ASSUME task' \in [Tasks -> Task], NEW x \in Tasks, Others(x),
         task'[x].pc \in Unverified \ {"commit"}
  PROVE  Moved(x)
BY DEF Moved, Unverified, SettleInv, LedgerTaskInv, Settling, AfterPay

(* A task that goes on, with its pot and what it has read of the ledger.   *)
LEMMA Goes ==
  ASSUME SInv, Steady, LedgerType', NEW x \in Tasks, NEW pc \in PC, Go(x, pc), Reported \subseteq Entered,
         pc \notin {"empty", "zero", "commit", "posted"},
         pc = "post" => task[x].pc = "posted",
         pc \in {"pot", "pending", "start", "unlock", "pay", "fail", "reward", "escrow", "post",
                 "finish"} => task[x].pot > 0,
         canSignOnChain /\ pc \in {"pay", "fail"} =>
           Unlocked' /\ (Settling(x) \/ ~Unlocked),
         canSignOnChain /\ pc \in AfterPay /\ task[x].pot > 0 =>
           Settling(x) /\ (task[x].pc \in AfterPay \/ Concluded')
  PROVE  Moved(x)
<1>1. SettleInv(x) /\ LedgerTaskInv(x) /\ TypeOK
  BY DEF SInv
<1>2. /\ task' \in [Tasks -> Task] /\ Others(x) /\ task'[x].pc = pc
      /\ task'[x].pot = task[x].pot /\ task'[x].version = task[x].version
      /\ task'[x].escrow = task[x].escrow
  BY <1>1, GoMoves
<1>3. SettleInv(x)'
  BY <1>1, <1>2 DEF SettleInv, Settling, Steady, canSignOnChain, AfterPay
<1>4. LedgerTaskInv(x)'
  <2>1. CASE pc # "post"
    BY <1>2, <2>1 DEF LedgerTaskInv
  <2>2. CASE pc = "post"
    <3>1. task[x].version \in Nat /\ ledger.version \in Nat /\ ledger'.version \in Nat
      BY <1>1, TaskParts DEF TypeOK, LedgerType
    <3>2. task[x].version <= ledger.version
      BY <1>1, <2>2 DEF LedgerTaskInv
    <3>3. /\ task[x].version <= ledger'.version
          /\ task[x].version = ledger'.version =>
               ledger'.version = ledger.version /\ task[x].version = ledger.version
      BY <3>1, <3>2 DEF Steady
    <3>4. QED BY <1>1, <1>2, <2>2, <3>3 DEF LedgerTaskInv, Steady
  <2>3. QED BY <2>1, <2>2
<1>5. canSignOnChain /\ Settling(x)' => Settling(x) \/ ~Unlocked
  BY <1>2 DEF Settling, AfterPay
<1>6. QED BY <1>2, <1>3, <1>4, <1>5 DEF Moved

LEMMA SettleMoves ==
  ASSUME SInv, Steady, LedgerType', NEW x \in Tasks, SettleStep(x)
  PROVE  Moved(x)
<1>t. TypeOK /\ SettleInv(x) /\ LedgerTaskInv(x) /\ ChainInv
  BY DEF SInv
<1>u. task[x].pc \notin Unverified => Reported \subseteq Entered
  BY DEF SInv, UnpaidInv, Unverified
<1>r. ASSUME NEW outcome \in Outcome, Return(x, outcome) PROVE Moved(x)
  BY <1>r, <1>t, ReturnMoves, Backs DEF Unverified
<1>g. ASSUME NEW pc \in Unverified \ {"commit"}, Go(x, pc) PROVE Moved(x)
  BY <1>g, <1>t, GoMoves, Backs DEF Unverified, PC
<1>1. CASE ReadGame(x)
  <2>1. CASE \E outcome \in Outcome : Return(x, outcome)
    BY <2>1, <1>r
  <2>2. CASE task' = [task EXCEPT ![x].pc = "result", ![x].pot = game.pot]
    <3> DEFINE n == game.pot
               t == [task[x] EXCEPT !.pc = "result", !.pot = n]
    <3>1. task' = [task EXCEPT ![x] = t]
      BY <2>2, <1>t DEF TypeOK
    <3>2. n \in Nat /\ task[x] \in Task
      BY <1>t, TaskParts DEF TypeOK
    <3> HIDE DEF n
    <3>3. t \in Task /\ t.pc = "result"
      BY <3>2 DEF Task, PC
    <3> HIDE DEF t
    <3>4. task' \in [Tasks -> Task] /\ Others(x) /\ task'[x].pc = "result"
      BY <3>1, <3>3, <1>t, ReadMoves
    <3>5. QED BY <3>4, Backs DEF Unverified
  <2>3. QED BY <1>1, <2>1, <2>2 DEF ReadGame, Outcome
<1>2. CASE ReadResult(x)
  BY <1>2, <1>r, <1>g DEF ReadResult, Outcome, Unverified
<1>3. CASE Verify(x)
  <2>1. CASE Go(x, "park") \/ Return(x, "threw")
    BY <2>1, <1>r, <1>g DEF Unverified, Outcome
  <2>2. CASE Verifies /\ (Go(x, "vault") \/ (task[x].pot > 0 /\ ~canSignOnChain /\ Go(x, "pending")))
    <3>1. Reported \subseteq Entered
      BY <2>2, <1>t DEF Verifies, TypeOK
    <3>2. QED BY <2>2, <3>1, Goes DEF PC, AfterPay
  <2>3. QED BY <1>3, <2>1, <2>2 DEF Verify
<1>4. CASE Park(x) \/ VaultAlreadyEmpty(x) \/ RecordFailure(x) \/ FinishGame(x)
  BY <1>4, <1>r DEF Park, VaultAlreadyEmpty, RecordFailure, FinishGame, Outcome
<1>5. CASE ReadVault(x)
  <2>1. task[x].pc = "vault" /\ Reported \subseteq Entered
    BY <1>5, <1>u DEF ReadVault, At, Unverified
  <2>2. PICK balance \in Int :
          /\ task' = [task EXCEPT ![x] = WithBalance(task[x], balance)]
          /\ balance < 0 => task[x].pot # 0
          /\ balance = 0 /\ task[x].pot # 0 => chain.vault = 0
    <3> DEFINE Read(b) == /\ task' = [task EXCEPT ![x] = WithBalance(task[x], b)]
                          /\ b < 0 => task[x].pot # 0
                          /\ b = 0 /\ task[x].pot # 0 => chain.vault = 0
               failed == FailedRead(task[x].pot)
    <3>1. chain.vault \in Nat /\ task[x].pot \in Nat /\ failed \in Int
          /\ (failed < 0 => task[x].pot # 0) /\ (task[x].pot # 0 => failed # 0)
      BY <1>t, TaskParts DEF TypeOK, FailedRead
    <3>2. CASE task' = [task EXCEPT ![x] = WithBalance(task[x], chain.vault)]
      <4>1. Read(chain.vault) /\ chain.vault \in Int
        BY <3>1, <3>2
      <4>2. QED BY <4>1
    <3>3. CASE task' = [task EXCEPT ![x] = WithBalance(task[x], failed)]
      <4>1. Read(failed)
        BY <3>1, <3>3
      <4> HIDE DEF Read, failed
      <4>2. \E b \in Int : Read(b)
        BY <3>1, <4>1
      <4>3. QED BY <4>2 DEF Read
    <3>4. QED BY <1>5, <3>2, <3>3 DEF ReadVault
  <2>3. /\ task' \in [Tasks -> Task] /\ Others(x)
        /\ \/ task'[x].pc = "pot" /\ task'[x].pot > 0
           \/ task'[x].pc = "zero" /\ task'[x].pot = 0
           \/ task'[x].pc = "empty" /\ task'[x].pot > 0 /\ balance = 0
           \/ task'[x].pc = "pending" /\ task'[x].pot > 0
    BY <2>2, <1>t, VaultMoves
  <2>4. task'[x].pc = "empty" => chain'.vault = 0
    <3>1. task'[x].pc = "empty" => task[x].pot # 0
      BY <2>2, <1>t DEF WithBalance, TypeOK, Task
    <3>2. QED BY <2>2, <2>3, <3>1 DEF Steady
  <2>5. QED BY <2>1, <2>3, <2>4 DEF Moved, SettleInv, LedgerTaskInv, Settling, AfterPay
<1>6. CASE RecordPot(x)
  BY <1>6, <1>t, <1>u, Goes DEF RecordPot, At, SettleInv, Unverified, PC, AfterPay
<1>7. CASE NothingToSettle(x)
  <2>1. task[x].pc = "zero" /\ Go(x, "count") /\ Reported \subseteq Entered
    BY <1>7, <1>u DEF NothingToSettle, At, Unverified
  <2>2. task[x].pot = 0
    BY <2>1, <1>t DEF SettleInv
  <2>3. QED BY <2>1, <2>2, Goes DEF PC, AfterPay
<1>8. CASE MarkPending(x)
  <2>1. task[x].pc = "pending" /\ Reported \subseteq Entered /\ task[x].pot > 0
    BY <1>8, <1>t, <1>u DEF MarkPending, At, Unverified, SettleInv
  <2>2. (canSignOnChain /\ Go(x, "start")) \/ (~canSignOnChain /\ Go(x, "reward"))
    BY <1>8 DEF MarkPending
  <2>3. QED BY <2>1, <2>2, Goes DEF PC, AfterPay
<1>9. CASE StartRoom(x)
  <2>1. task[x].pc = "start" /\ Reported \subseteq Entered /\ task[x].pot > 0
    BY <1>9, <1>t, <1>u DEF StartRoom, At, Unverified, SettleInv
  <2>2. Go(x, "unlock") \/ Return(x, "threw")
    BY <1>9 DEF StartRoom, Send
  <2>3. QED BY <2>1, <2>2, <1>r, Goes DEF PC, AfterPay, Outcome
<1>10. CASE UnlockPrize(x)
  <2>1. task[x].pc = "unlock" /\ Reported \subseteq Entered /\ task[x].pot > 0
    BY <1>10, <1>t, <1>u DEF UnlockPrize, At, Unverified, SettleInv
  <2>2. ~isAlreadyDone(ErrorOf(chain, "unlock_prize"))
    BY DEF isAlreadyDone, ErrorOf
  <2>3. \/ Return(x, "threw")
        \/ /\ Go(x, "pay") /\ chain.room = "InProgress"
           /\ chain' = [chain EXCEPT !.room = "Unlocked"]
    BY <1>10, <2>2 DEF UnlockPrize, Send, Accepts, Apply
  <2>4. chain' = [chain EXCEPT !.room = "Unlocked"] => Unlocked'
    BY <1>t DEF Unlocked, TypeOK
  <2>5. chain.room = "InProgress" => ~Unlocked
    BY DEF Unlocked
  <2>6. QED BY <2>1, <2>3, <2>4, <2>5, <1>r, Goes DEF PC, AfterPay, Outcome
<1>11. CASE SettleToWinner(x)
  <2>1. task[x].pc = "pay" /\ Reported \subseteq Entered /\ task[x].pot > 0
    BY <1>11, <1>t, <1>u DEF SettleToWinner, At, Unverified, SettleInv
  <2>2. Settling(x) /\ (canSignOnChain => Unlocked /\ Unlocked')
    BY <2>1, <1>t DEF Settling, SettleInv, Steady
  <2>3. CASE Go(x, "fail")
    BY <2>1, <2>2, <2>3, Goes DEF PC, AfterPay
  <2>4. CASE Go(x, "reward") /\ (canSignOnChain => Concluded')
    BY <2>1, <2>2, <2>4, Goes DEF PC, AfterPay
  <2>5. Accepts(chain, "settle_to_winner") /\ chain' = Apply(chain, "settle_to_winner")
          => Concluded'
    <3>1. SUFFICES ASSUME Accepts(chain, "settle_to_winner"),
                          chain' = Apply(chain, "settle_to_winner")
                   PROVE  Concluded'
      OBVIOUS
    <3>2. ChainType /\ ChainMoves
      BY <3>1, <1>t DEF ChainType, TypeOK, ChainMoves, Transactions
    <3>3. ChainType' /\ ChainInv'
      BY <3>2, <1>t, ChainStep
    <3>4. chain'.room = "Settled"
      BY <3>1, <3>2 DEF Apply, ChainType
    <3>5. QED BY <3>3, <3>4 DEF ChainInv, Concluded
  <2>6. isAlreadyDone(ErrorOf(chain, "settle_to_winner")) /\ canSignOnChain => Concluded
    <3>1. ASSUME isAlreadyDone(ErrorOf(chain, "settle_to_winner"))
          PROVE  chain.room \notin {"Closed", "Unlocked"}
      BY <3>1 DEF isAlreadyDone, ErrorOf
    <3>2. canSignOnChain => chain.room \in {"Unlocked", "Settled", "Cancelled", "Closed"}
      BY <2>2, <1>t DEF Unlocked, TypeOK, RoomStatus
    <3>3. QED BY <3>1, <3>2, <1>t DEF ChainInv, Concluded, TakenBack
  <2>7. Concluded => Concluded'
    BY DEF Steady
  <2>8. QED BY <1>11, <2>3, <2>4, <2>5, <2>6, <2>7 DEF SettleToWinner, Send
<1>12. CASE RecordRewards(x)
  <2>1. task[x].pc = "reward" /\ Reported \subseteq Entered /\ task[x].pot > 0
    BY <1>12, <1>t, <1>u DEF RecordRewards, At, Unverified, SettleInv
  <2>2. Go(x, "count") \/ Go(x, "escrow")
    BY <1>12 DEF RecordRewards
  <2>3. QED BY <2>1, <2>2, Goes DEF PC, AfterPay, Settling
<1>13. CASE ReadEscrow(x)
  <2> DEFINE v == ledger.version
             e == ledger.escrow
             t == [task[x] EXCEPT !.pc = "posted", !.version = v, !.escrow = e]
  <2>1. /\ task[x].pc = "escrow" /\ Reported \subseteq Entered /\ task[x].pot > 0
        /\ UNCHANGED ledger
    BY <1>13, <1>t, <1>u DEF ReadEscrow, At, Unverified, SettleInv, db
  <2>2. task' = [task EXCEPT ![x] = t] /\ v \in Nat /\ e \in Int /\ task[x] \in Task
    BY <1>13, <1>t, TaskParts DEF ReadEscrow, TypeOK
  <2>3. /\ task' \in [Tasks -> Task] /\ Others(x) /\ task'[x].pc = "posted"
        /\ task'[x].pot = task[x].pot /\ task'[x].version = v /\ task'[x].escrow = e
    <3> HIDE DEF v, e
    <3>1. /\ t \in Task /\ t.pc = "posted" /\ t.pot = task[x].pot /\ t.version = v
          /\ t.escrow = e
      BY <2>2 DEF Task, PC
    <3> HIDE DEF t
    <3>2. QED BY <2>2, <3>1, <1>t, ReadMoves
  <2>4. LedgerTaskInv(x)'
    BY <2>1, <2>2, <2>3 DEF LedgerTaskInv
  <2>5. SettleInv(x)' /\ Settling(x)
    BY <2>1, <2>3, <1>t DEF SettleInv, Settling, AfterPay, Steady, canSignOnChain
  <2>6. QED BY <2>1, <2>3, <2>4, <2>5 DEF Moved
<1>14. CASE AlreadyPosted(x)
  <2>1. task[x].pc = "posted" /\ Reported \subseteq Entered /\ task[x].pot > 0
    BY <1>14, <1>t, <1>u DEF AlreadyPosted, At, Unverified, SettleInv
  <2>2. Go(x, "count") \/ Go(x, "post")
    BY <1>14 DEF AlreadyPosted
  <2>3. QED BY <2>1, <2>2, Goes DEF PC, AfterPay, Settling
<1>15. CASE PostSettlementLedger(x)
  <2>1. task[x].pc = "post" /\ Reported \subseteq Entered /\ task[x].pot > 0
    BY <1>15, <1>t, <1>u DEF PostSettlementLedger, At, Unverified, SettleInv
  <2>2. Go(x, "count") \/ Return(x, "threw")
    BY <1>15 DEF PostSettlementLedger
  <2>3. QED BY <2>1, <2>2, <1>r, Goes DEF PC, AfterPay, Settling, Outcome
<1>16. CASE ReadBoard(x)
  <2> DEFINE t == [task[x] EXCEPT !.pc = "board", !.games = board]
  <2>1. task[x].pc = "count" /\ Reported \subseteq Entered
    BY <1>16, <1>u DEF ReadBoard, At, Unverified
  <2>2. task' = [task EXCEPT ![x] = t] /\ board \in Nat /\ task[x] \in Task
    BY <1>16, <1>t, TaskParts DEF ReadBoard, TypeOK
  <2>3. /\ task' \in [Tasks -> Task] /\ Others(x) /\ task'[x].pc = "board"
        /\ task'[x].pot = task[x].pot
    <3>1. t \in Task /\ t.pc = "board" /\ t.pot = task[x].pot
      BY <2>2 DEF Task, PC
    <3> HIDE DEF t
    <3>2. QED BY <2>2, <3>1, <1>t, ReadMoves
  <2>4. SettleInv(x)' /\ (Settling(x)' => Settling(x))
    BY <2>1, <2>3, <1>t DEF SettleInv, Settling, AfterPay, Steady, canSignOnChain
  <2>5. LedgerTaskInv(x)'
    BY <2>3 DEF LedgerTaskInv
  <2>6. QED BY <2>1, <2>3, <2>4, <2>5 DEF Moved
<1>17. CASE UpdateLeaderboard(x)
  <2>1. task[x].pc = "board" /\ Reported \subseteq Entered /\ task[x].pot \in Nat
    BY <1>17, <1>t, <1>u, TaskParts DEF UpdateLeaderboard, At, Unverified
  <2>2. Return(x, "settled") \/ (task[x].pot > 0 /\ Go(x, "finish"))
    BY <1>17, <2>1 DEF UpdateLeaderboard
  <2>3. QED BY <2>1, <2>2, <1>r, Goes DEF PC, AfterPay, Settling, Outcome
<1>18. QED
  BY <1>1, <1>2, <1>3, <1>4, <1>5, <1>6, <1>7, <1>8, <1>9, <1>10, <1>11, <1>12, <1>13, <1>14,
     <1>15, <1>16, <1>17 DEF SettleStep

LEMMA CancelMoves ==
  ASSUME SInv, Steady, LedgerType', NEW x \in Tasks, CancelStep(x)
  PROVE  Moved(x)
<1>t. TypeOK
  BY DEF SInv
<1>r. ASSUME NEW outcome \in Outcome, Return(x, outcome) PROVE Moved(x)
  BY <1>r, <1>t, ReturnMoves, Backs DEF Unverified
<1>1. CASE CancelCommits(x)
  BY <1>1, <1>r DEF CancelCommits, Outcome
<1>2. CASE CancelChecks(x) /\ \E outcome \in Outcome : Return(x, outcome)
  BY <1>2, <1>r
<1>3. CASE /\ Escrow = "none" \/ ledger.payouts + ledger.rakes = 0
           /\ task' = [task EXCEPT ![x].pc = "commit", ![x].owed = Owed,
                                   ![x].version = ledger.version, ![x].escrow = ledger.escrow]
           /\ UNCHANGED ledger
  <2> DEFINE v == ledger.version
             e == ledger.escrow
             o == Owed
             t == [task[x] EXCEPT !.pc = "commit", !.owed = o, !.version = v, !.escrow = e]
  <2>1. task' = [task EXCEPT ![x] = t]
    BY <1>3, <1>t DEF TypeOK
  <2>p. o \subseteq Entered /\ v \in Nat /\ e \in Int /\ task[x] \in Task
    BY <1>t, TaskParts DEF TypeOK, Owed
  <2>2. /\ task' \in [Tasks -> Task] /\ Others(x) /\ task'[x].pc = "commit"
        /\ task'[x].version = v /\ task'[x].escrow = e /\ task'[x].owed = o
    <3> HIDE DEF v, e, o
    <3>1. t \in Task /\ t.pc = "commit" /\ t.version = v /\ t.escrow = e /\ t.owed = o
      BY <2>p DEF Task, PC
    <3> HIDE DEF t
    <3>2. QED BY <2>1, <3>1, <1>t, ReadMoves
  <2>3. Owed # {} => ledger.payouts = 0
    BY <1>3, <1>t DEF Owed, TypeOK
  <2>4. LedgerTaskInv(x)'
    BY <1>3, <2>p, <2>2, <2>3 DEF LedgerTaskInv
  <2>5. QED BY <2>2, <2>4 DEF Moved, SettleInv, Settling, AfterPay, Unverified
<1>4. QED BY <1>1, <1>2, <1>3 DEF CancelStep, CancelChecks, Outcome, db

LEMMA ConcludeMoves ==
  ASSUME SInv, Steady, LedgerType', NEW x \in Tasks, Conclude(x)
  PROVE  Moved(x)
<1>t. TypeOK
  BY DEF SInv
<1>1. CASE Done(x)
  BY <1>1, <1>t, DoneMoves, Backs DEF Unverified
<1>2. CASE Go(x, "cancel")
  BY <1>2, <1>t, GoMoves, Backs DEF Unverified, PC
<1>3. CASE task' = [task EXCEPT ![x] = [Idle EXCEPT !.pc = "cancel", !.via = "failed"]]
  <2>1. /\ task' = [task EXCEPT ![x] = Begun("cancel", "failed")]
        /\ "cancel" \in PC /\ "failed" \in Vias
    BY <1>3 DEF Begun, PC, Vias
  <2>2. task' \in [Tasks -> Task] /\ Others(x) /\ task'[x].pc = "cancel"
    BY <2>1, <1>t, BeginMoves
  <2>3. QED BY <2>2, Backs DEF Unverified
<1>4. QED
  BY <1>1, <1>2, <1>3 DEF Conclude, ConcludeQueued, ConcludeUnheeded, StageCompletes, StageFails

LEMMA BeginsMoves ==
  ASSUME SInv, Steady, LedgerType', NEW x \in Tasks, NEW pc \in {"read", "cancel"}, NEW via \in Vias,
         Begin(x, pc, via)
  PROVE  Moved(x)
<1>1. task' = [task EXCEPT ![x] = Begun(pc, via)] /\ TypeOK /\ pc \in PC
  BY DEF SInv, Begin, Begun, PC
<1>2. task' \in [Tasks -> Task] /\ Others(x) /\ task'[x].pc \in {"read", "cancel"}
  BY <1>1, BeginMoves
<1>3. QED BY <1>2, Backs DEF Unverified

(* Every step moves one task at most.                                      *)
LEMMA TaskStep ==
  ASSUME SInv, Steady, LedgerType', [Next]_vars
  PROVE  UNCHANGED task \/ \E x \in Tasks : Moved(x)
<1> DEFINE Good == UNCHANGED task \/ \E x \in Tasks : Moved(x)
<1>1. ASSUME NEW x \in Tasks, SettleStep(x) \/ CancelStep(x) \/ Conclude(x) PROVE Good
  BY <1>1, SettleMoves, CancelMoves, ConcludeMoves
<1>2. ASSUME NEW x \in Passes, SettleQueued(x) \/ Sweep(x) PROVE Good
  BY <1>2, BeginsMoves DEF SettleQueued, Sweep, Tasks, Vias
<1>3. ASSUME NEW x \in Cycles, StartEndMatch(x) \/ ArchiveGame(x) PROVE Good
  BY <1>3, BeginsMoves DEF StartEndMatch, ArchiveGame, Tasks, Vias
<1>4. ASSUME NEW x \in Admins, AdminCancel(x) PROVE Good
  BY <1>4, BeginsMoves DEF AdminCancel, Tasks, Vias
<1>5. ASSUME NEW x \in Tasks, Crash(x) PROVE Good
  <2>1. task' \in [Tasks -> Task] /\ Others(x) /\ task'[x].pc = "idle"
    BY <1>5, DoneMoves DEF Crash, SInv
  <2>2. QED BY <2>1, Backs DEF Unverified
<1>6. ASSUME RetrySettlement \/ CancelRoom \/ CloseRoomPlayer PROVE Good
  BY <1>6 DEF RetrySettlement, CancelRoom, CloseRoomPlayer
<1>6l. ASSUME NEW tx \in Transactions, Land(tx) PROVE Good
  BY <1>6l DEF Land
<1>6c. ASSUME NEW p \in Entered, ClaimRefund(p) PROVE Good
  BY <1>6c DEF ClaimRefund
<1>7. CASE Report \/ Enqueue \/ UNCHANGED vars
  BY <1>7 DEF Report, Enqueue, vars
<1>8. QED BY <1>1, <1>2, <1>3, <1>4, <1>5, <1>6, <1>6l, <1>6c, <1>7 DEF Next, Environment

(* So the settlements keep what they know, and stay one.                   *)
LEMMA TasksStep ==
  ASSUME SInv, Steady, LedgerType', [Next]_vars
  PROVE  /\ task' \in [Tasks -> Task]
         /\ \A x \in Tasks : SettleInv(x)' /\ LedgerTaskInv(x)'
         /\ OneSettler'
         /\ ~(Reported \subseteq Entered)' => \A x \in Tasks : task'[x].pc \in Unverified
<1>t. /\ task \in [Tasks -> Task] /\ OneSettler
      /\ \A x \in Tasks : canSignOnChain /\ Settling(x) => Unlocked
  BY DEF SInv, TypeOK, SettleInv
<1>s. canSignOnChain' = canSignOnChain /\ Reported' = Reported
  BY DEF Steady, canSignOnChain, Reported
<1>p. ~(Reported \subseteq Entered) => \A x \in Tasks : task[x].pc \in Unverified
  BY DEF SInv, UnpaidInv, Unverified
<1>1. CASE UNCHANGED task
  <2>1. \A x \in Tasks : SettleInv(x)' /\ LedgerTaskInv(x)' /\ Settling(x)' = Settling(x)
    BY <1>1, TaskKeeps
  <2>2. QED BY <1>t, <1>s, <1>p, <1>1, <2>1 DEF OneSettler
<1>2. ASSUME NEW x \in Tasks, Moved(x)
      PROVE  /\ task' \in [Tasks -> Task]
             /\ \A y \in Tasks : SettleInv(y)' /\ LedgerTaskInv(y)'
             /\ OneSettler'
             /\ ~(Reported \subseteq Entered)' => \A y \in Tasks : task'[y].pc \in Unverified
  <2>1. ASSUME NEW y \in Tasks \ {x}
        PROVE  SettleInv(y)' /\ LedgerTaskInv(y)' /\ Settling(y)' = Settling(y)
               /\ task'[y] = task[y]
    BY <1>2, TaskKeeps DEF Moved, Others
  <2>2. OneSettler'
    <3>1. SUFFICES ASSUME canSignOnChain, NEW y \in Tasks, NEW z \in Tasks,
                          Settling(y)', Settling(z)'
                   PROVE  y = z
      BY <1>s DEF OneSettler
    <3>2. Settling(x)' => Settling(x) \/ ~Unlocked
      BY <1>2, <3>1 DEF Moved
    <3>3. \A w \in Tasks : Settling(w) => Unlocked
      BY <3>1, <1>t
    <3>4. \A w \in Tasks \ {x} : Settling(w)' => Settling(w)
      BY <2>1
    <3>5. \A v, w \in Tasks : Settling(v) /\ Settling(w) => v = w
      BY <1>t, <3>1 DEF OneSettler
    <3>6. QED BY <3>1, <3>2, <3>3, <3>4, <3>5
  <2>3. QED BY <1>2, <2>1, <2>2, <1>s, <1>p DEF Moved
<1>3. QED BY <1>1, <1>2, TaskStep

(***************************************************************************)
(* The stage's job and its attempts.                                       *)
(***************************************************************************)

(* Until it is done, a settlement or a refund keeps its caller.            *)
LEMMA ViaKept ==
  ASSUME TypeOK, NEW x \in Tasks, SettleStep(x) \/ CancelStep(x)
  PROVE  /\ task[x].pc # "idle" /\ Others(x) /\ task'[x].via = task[x].via
         /\ UNCHANGED <<job, attempts>>
<1> DEFINE Good == Others(x) /\ task'[x].via = task[x].via
<1>t. task \in [Tasks -> Task] /\ task[x] \in Task
  BY TaskParts DEF TypeOK
<1>1. /\ task[x].pc # "idle"
      /\ UNCHANGED <<job, attempts>>
  BY DEF SettleStep, CancelStep, At, Local, ReadGame, ReadResult, Verify, Park, ReadVault,
         VaultAlreadyEmpty, RecordPot, NothingToSettle, MarkPending, StartRoom, UnlockPrize,
         SettleToWinner, Send, RecordFailure, RecordRewards, ReadEscrow, AlreadyPosted,
         PostSettlementLedger, ReadBoard, UpdateLeaderboard, FinishGame, CancelChecks, CancelCommits
<1> SUFFICES Good
  BY <1>1
<1>2. ASSUME NEW outcome, Return(x, outcome) PROVE Good
  <2>1. task'[x] = [Idle EXCEPT !.pc = "done", !.via = task[x].via, !.outcome = outcome]
        /\ Others(x)
    BY <1>2, <1>t DEF Return, Others
  <2>2. QED BY <2>1 DEF Idle
<1>3. ASSUME NEW pc, Go(x, pc) PROVE Good
  BY <1>3, <1>t DEF Go, Others, Task
<1>4. CASE ReadGame(x)
  <2>1. CASE task' = [task EXCEPT ![x].pc = "result", ![x].pot = game.pot]
    BY <2>1, <1>t DEF Others, Task
  <2>2. QED BY <1>4, <2>1, <1>2 DEF ReadGame
<1>5. CASE ReadVault(x)
  <2>1. ASSUME NEW balance, task' = [task EXCEPT ![x] = WithBalance(task[x], balance)]
        PROVE  Good
    BY <2>1, <1>t DEF WithBalance, Others, Task
  <2>2. QED BY <1>5, <2>1 DEF ReadVault
<1>6. CASE ReadEscrow(x)
  BY <1>6, <1>t DEF ReadEscrow, Others, Task
<1>7. CASE ReadBoard(x)
  BY <1>7, <1>t DEF ReadBoard, Others, Task
<1>8. CASE CancelChecks(x)
  <2>1. CASE task' = [task EXCEPT ![x].pc = "commit", ![x].owed = Owed,
                                  ![x].version = ledger.version, ![x].escrow = ledger.escrow]
    BY <2>1, <1>t DEF Others, Task
  <2>2. QED BY <1>8, <2>1, <1>2 DEF CancelChecks
<1>9. CASE \/ ReadResult(x) \/ Verify(x) \/ Park(x) \/ VaultAlreadyEmpty(x) \/ RecordPot(x)
           \/ NothingToSettle(x) \/ MarkPending(x) \/ RecordFailure(x) \/ RecordRewards(x)
  BY <1>9, <1>2, <1>3 DEF ReadResult, Verify, Park, VaultAlreadyEmpty, RecordPot,
                          NothingToSettle, MarkPending, RecordFailure, RecordRewards
<1>10. CASE StartRoom(x) \/ UnlockPrize(x) \/ SettleToWinner(x)
  BY <1>10, <1>2, <1>3 DEF StartRoom, UnlockPrize, SettleToWinner, Send
<1>11. CASE AlreadyPosted(x) \/ PostSettlementLedger(x) \/ UpdateLeaderboard(x) \/ FinishGame(x)
            \/ CancelCommits(x)
  BY <1>11, <1>2, <1>3 DEF AlreadyPosted, PostSettlementLedger, UpdateLeaderboard, FinishGame,
                           CancelCommits
<1>12. QED
  BY <1>4, <1>5, <1>6, <1>7, <1>8, <1>9, <1>10, <1>11 DEF SettleStep, CancelStep

InStage(x) == task[x].pc # "idle" /\ task[x].via = "stage"

LEMMA JobStep ==
  ASSUME SInv, [Next]_vars
  PROVE  JobInv' /\ job' \in {"end-match", "archive-game", "over"}
                 /\ attempts' \in 0 .. EndMatchAttempts
<1> DEFINE Good == /\ JobInv' /\ job' \in {"end-match", "archive-game", "over"}
                   /\ attempts' \in 0 .. EndMatchAttempts
<1>t. /\ TypeOK /\ EndMatchAttempts \in Nat /\ attempts \in Nat
      /\ \A x, y \in Cycles : x = y
  BY SMTT(30), SettlementAssumption DEF SInv, TypeOK
<1>j. /\ job \in {"end-match", "archive-game", "over"} /\ attempts \in 0 .. EndMatchAttempts
      /\ job = "end-match" => attempts < EndMatchAttempts
      /\ \A x \in Tasks : InStage(x) => x \in Cycles /\ job = "end-match"
  BY DEF SInv, TypeOK, JobInv, InStage
<1>0. ASSUME NEW x \in Tasks, Others(x), UNCHANGED <<job, attempts>>,
             InStage(x)' => x \in Cycles /\ job = "end-match"
      PROVE  Good
  <2>1. \A y \in Tasks : InStage(y)' => y \in Cycles /\ job = "end-match"
    BY <1>0, <1>j DEF Others, InStage
  <2>2. QED BY <1>0, <2>1, <1>j DEF JobInv, InStage
<1>i. ASSUME UNCHANGED <<task, attempts>>, job' = job \/ (job # "end-match" /\ job' = "over")
      PROVE  Good
  BY <1>i, <1>j DEF JobInv, InStage
<1>1. ASSUME NEW x \in Tasks, SettleStep(x) \/ CancelStep(x) PROVE Good
  <2>1. InStage(x)' => InStage(x)
    BY <1>1, <1>t, ViaKept DEF InStage
  <2>2. QED BY <1>1, <1>t, <1>j, <1>0, <2>1, ViaKept
<1>2. ASSUME NEW x \in Tasks, Done(x), UNCHANGED <<job, attempts>> PROVE Good
  <2>1. Others(x) /\ ~InStage(x)'
    BY <1>2, <1>t, DoneMoves DEF InStage
  <2>2. QED BY <1>2, <2>1, <1>0
<1>3. ASSUME NEW x \in Tasks, StageCompletes(x) PROVE Good
  <2>1. InStage(x) /\ x \in Cycles /\ job = "end-match" /\ UNCHANGED attempts
    BY <1>3, <1>j DEF StageCompletes, At, InStage
  <2>2. CASE Go(x, "cancel") /\ UNCHANGED job
    BY <2>1, <2>2, <1>t, <1>0, GoMoves DEF PC
  <2>3. CASE Done(x) /\ job' \in {"archive-game", "over"}
    <3>1. \A y \in Tasks : ~InStage(y)'
      BY <2>1, <2>3, <1>t, <1>j, DoneMoves DEF InStage, Others
    <3>2. QED BY <2>1, <2>3, <3>1, <1>j DEF JobInv, InStage
  <2>4. QED BY <1>3, <2>2, <2>3 DEF StageCompletes
<1>4. ASSUME NEW x \in Tasks, StageFails(x) PROVE Good
  <2>1. InStage(x) /\ x \in Cycles /\ job = "end-match" /\ attempts < EndMatchAttempts
        /\ attempts' = attempts + 1
    BY <1>4, <1>j DEF StageFails, At, InStage
  <2>2. attempts' \in 0 .. EndMatchAttempts
    BY <2>1, <1>t
  <2>3. \A y \in Tasks \ {x} : ~InStage(y)
    BY <2>1, <1>t, <1>j
  <2>4. CASE Done(x) /\ UNCHANGED job /\ attempts' < EndMatchAttempts
    <3>1. \A y \in Tasks : ~InStage(y)'
      BY <2>3, <2>4, <1>t, DoneMoves DEF InStage, Others
    <3>2. QED BY <2>2, <2>4, <3>1, <1>j DEF JobInv, InStage
  <2>5. CASE /\ task' = [task EXCEPT ![x] = [Idle EXCEPT !.pc = "cancel", !.via = "failed"]]
             /\ job' = "over"
    <3>1. \A y \in Tasks : ~InStage(y)'
      <4>1. /\ task' = [task EXCEPT ![x] = Begun("cancel", "failed")]
            /\ "cancel" \in PC /\ "failed" \in Vias
        BY <2>5 DEF Begun, PC, Vias
      <4>2. Others(x) /\ task'[x].via = "failed"
        BY <4>1, <1>t, BeginMoves
      <4>3. QED BY <2>3, <4>2 DEF InStage, Others
    <3>2. QED BY <2>2, <2>5, <3>1 DEF JobInv, InStage
  <2>6. QED BY <1>4, <2>4, <2>5 DEF StageFails
<1>5. ASSUME NEW x \in Tasks, Conclude(x) PROVE Good
  BY <1>5, <1>2, <1>3, <1>4 DEF Conclude, ConcludeQueued, ConcludeUnheeded, Local
<1>6. ASSUME NEW x \in Tasks, NEW pc \in {"read", "cancel"}, NEW via \in Vias, Begin(x, pc, via),
             via = "stage" => x \in Cycles /\ job = "end-match"
      PROVE  Good
  <2>1. Others(x) /\ task'[x].via = via /\ UNCHANGED <<job, attempts>>
    <3>1. task' = [task EXCEPT ![x] = Begun(pc, via)] /\ pc \in PC
      BY <1>6 DEF Begin, Begun, PC
    <3>2. Others(x) /\ task'[x].via = via
      BY <3>1, <1>t, BeginMoves
    <3>3. QED BY <3>2, <1>6 DEF Begin
  <2>2. InStage(x)' => x \in Cycles /\ job = "end-match"
    BY <1>6, <2>1 DEF InStage
  <2>3. QED BY <2>1, <2>2, <1>0
<1>7. ASSUME NEW x \in Passes, SettleQueued(x) \/ Sweep(x) PROVE Good
  BY <1>7, <1>6 DEF SettleQueued, Sweep, Tasks, Vias
<1>8. ASSUME NEW x \in Cycles, StartEndMatch(x) \/ ArchiveGame(x) PROVE Good
  BY <1>8, <1>6, <1>i DEF StartEndMatch, ArchiveGame, Tasks, Vias
<1>9. ASSUME NEW x \in Admins, AdminCancel(x) PROVE Good
  BY <1>9, <1>6 DEF AdminCancel, Tasks, Vias
<1>10. ASSUME NEW x \in Tasks, Crash(x) PROVE Good
  BY <1>10, <1>2 DEF Crash
<1>11. ASSUME RetrySettlement \/ CancelRoom \/ CloseRoomPlayer PROVE Good
  BY <1>11, <1>i DEF RetrySettlement, CancelRoom, CloseRoomPlayer
<1>11l. ASSUME NEW tx \in Transactions, Land(tx) PROVE Good
  BY <1>11l, <1>i DEF Land
<1>11c. ASSUME NEW p \in Entered, ClaimRefund(p) PROVE Good
  BY <1>11c, <1>i DEF ClaimRefund
<1>12. CASE Report \/ Enqueue \/ UNCHANGED vars
  BY <1>12, <1>i DEF Report, Enqueue, vars
<1>13. QED
  BY <1>1, <1>5, <1>7, <1>8, <1>9, <1>10, <1>11, <1>11l, <1>11c, <1>12 DEF Next, Environment

(***************************************************************************)
(* The rest of the state.                                                  *)
(***************************************************************************)

(* What a report that does not verify may do: nothing to the chain.        *)
LEMMA UnpaidStep ==
  ASSUME SInv, [Next]_vars, ~(Reported \subseteq Entered)
  PROVE  inflight' = {} /\ chain'.paid = 0 /\ ~ledger'.reward /\ ledger'.payouts = 0
<1>t. /\ TypeOK /\ ChainType /\ LedgerType' /\ inflight = {} /\ chain.paid = 0
      /\ \A x \in Tasks : task[x].pc \in Unverified
      /\ ~ledger.reward /\ ledger.payouts = 0
  BY LedgerStep DEF SInv, UnpaidInv, Unverified, TypeOK, ChainType
<1> DEFINE Good == inflight' = {} /\ chain'.paid = 0
<1>1. ASSUME NEW x \in Tasks, SettleStep(x) PROVE Good
  <2>1. ~(StartRoom(x) \/ UnlockPrize(x) \/ SettleToWinner(x))
    BY <1>t DEF StartRoom, UnlockPrize, SettleToWinner, At, Unverified
  <2>2. UNCHANGED <<inflight, chain>>
    BY <1>1, <2>1 DEF SettleStep, Local, ReadGame, ReadResult, Verify, Park, ReadVault,
                      VaultAlreadyEmpty, RecordPot, NothingToSettle, MarkPending, RecordFailure,
                      RecordRewards, ReadEscrow, AlreadyPosted, PostSettlementLedger, ReadBoard,
                      UpdateLeaderboard, FinishGame
  <2>3. QED BY <2>2, <1>t
<1>2. ASSUME NEW x \in Tasks, CancelStep(x) \/ Conclude(x) \/ Crash(x) PROVE Good
  BY <1>2, <1>t DEF CancelStep, CancelChecks, CancelCommits, Local, Conclude, ConcludeQueued,
                    ConcludeUnheeded, StageCompletes, StageFails, Crash
<1>3. ASSUME NEW x \in Tasks, SettleQueued(x) \/ Sweep(x) \/ StartEndMatch(x) \/ AdminCancel(x)
      PROVE  Good
  BY <1>3, <1>t DEF SettleQueued, Sweep, StartEndMatch, AdminCancel, Begin
<1>4. ASSUME NEW x \in Cycles, ArchiveGame(x) PROVE Good
  BY <1>4, <1>t DEF ArchiveGame, ChainType
<1>5. ASSUME RetrySettlement \/ CancelRoom \/ CloseRoomPlayer PROVE Good
  BY <1>5, <1>t DEF RetrySettlement, CancelRoom, CloseRoomPlayer, ChainType
<1>5l. ASSUME NEW tx \in Transactions, Land(tx) PROVE Good
  BY <1>5l, <1>t DEF Land, ChainType
<1>5c. ASSUME NEW p \in Entered, ClaimRefund(p) PROVE Good
  BY <1>5c, <1>t DEF ClaimRefund, ChainType
<1>6. ASSUME Report \/ Enqueue \/ UNCHANGED vars PROVE Good
  BY <1>6, <1>t DEF Report, Enqueue, vars
<1>7. Good
  BY <1>1, <1>2, <1>3, <1>4, <1>5, <1>5l, <1>5c, <1>6 DEF Next, Environment, Tasks
<1>8. \A x \in Tasks : ~Writing(x)
  BY <1>t DEF Writing, Unverified
<1>9. ~ledger'.reward /\ ~(ledger'.payouts > 0)
  BY <1>8, <1>t, LedgerStep
<1>10. QED BY <1>7, <1>9, <1>t DEF LedgerType

(* A vault found empty has been paid out or taken back.                    *)
LEMMA EmptyVault ==
  ASSUME TypeOK, ChainInv, chain.vault = 0
  PROVE  Concluded
<1>1. CASE chain.room \in {"Open", "InProgress", "Unlocked"}
  <2>1. Pot = 0 /\ chain.paid = 0
    BY <1>1 DEF ChainInv
  <2>2. Prize \in Nat /\ splitPot(Pot).rake \in Nat /\ Prize + splitPot(Pot).rake = Pot
    BY PotType, SplitType DEF Prize
  <2>3. Prize = 0
    BY <2>1, <2>2
  <2>4. QED BY <2>1, <2>3 DEF Concluded, Paid, Prize
<1>2. CASE chain.room \notin {"Open", "InProgress", "Unlocked"}
  BY <1>2 DEF ChainInv, Concluded, TakenBack, TypeOK, RoomStatus
<1>3. QED BY <1>1, <1>2

(* The row of the game is confirmed by a settlement that has paid, or that *)
(* found the vault empty.                                                  *)
LEMMA GameStep ==
  ASSUME SInv, [Next]_vars
  PROVE  /\ game' \in [status : GameStatus, settlement : SettlementStatus, pot : Nat]
         /\ canSignOnChain /\ game'.settlement = "CONFIRMED" => Concluded
<1> DEFINE Good == /\ game' \in [status : GameStatus, settlement : SettlementStatus, pot : Nat]
                   /\ canSignOnChain /\ game'.settlement = "CONFIRMED" => Concluded
<1>t. /\ TypeOK /\ ChainInv
      /\ game \in [status : GameStatus, settlement : SettlementStatus, pot : Nat]
      /\ canSignOnChain /\ game.settlement = "CONFIRMED" => Concluded
  BY DEF SInv, TypeOK, ConfirmedMeansPaid, Concluded
<1>0. ASSUME UNCHANGED game PROVE Good
  BY <1>0, <1>t
<1>1. ASSUME NEW x \in Tasks, VaultAlreadyEmpty(x) PROVE Good
  <2>1. chain.vault = 0 /\ game' = finishGame("CONFIRMED")
    BY <1>1 DEF VaultAlreadyEmpty, At, SInv, SettleInv
  <2>2. QED BY <2>1, <1>t, EmptyVault DEF finishGame, GameStatus, SettlementStatus
<1>2. ASSUME NEW x \in Tasks, FinishGame(x) PROVE Good
  <2>1. (canSignOnChain => Concluded) /\ game' = finishGame("CONFIRMED")
    BY <1>2 DEF FinishGame, At, SInv, SettleInv, AfterPay
  <2>2. QED BY <2>1, <1>t DEF finishGame, GameStatus, SettlementStatus
<1>3. ASSUME NEW x \in Tasks, RecordPot(x) PROVE Good
  BY <1>3, <1>t, TaskParts DEF RecordPot
<1>4. ASSUME NEW x \in Tasks, Park(x) \/ RecordFailure(x) \/ MarkPending(x) \/ NothingToSettle(x)
      PROVE  Good
  BY <1>4, <1>t DEF Park, RecordFailure, MarkPending, NothingToSettle, finishGame, GameStatus,
                    SettlementStatus
<1>5. ASSUME NEW x \in Tasks, CancelCommits(x) PROVE Good
  BY <1>5, <1>t DEF CancelCommits, cancelRow, GameStatus, SettlementStatus
<1>6. CASE RetrySettlement
  BY <1>6, <1>t DEF RetrySettlement, GameStatus, SettlementStatus
<1>7. ASSUME NEW x \in Tasks, SettleStep(x),
             ~(\/ VaultAlreadyEmpty(x) \/ FinishGame(x) \/ RecordPot(x) \/ Park(x)
               \/ RecordFailure(x) \/ MarkPending(x) \/ NothingToSettle(x))
      PROVE  Good
  <2>1. UNCHANGED game
    BY <1>7 DEF SettleStep, db, ReadGame, ReadResult, Verify, ReadVault, StartRoom, UnlockPrize,
                SettleToWinner, Send, RecordRewards, ReadEscrow, AlreadyPosted,
                PostSettlementLedger, ReadBoard, UpdateLeaderboard
  <2>2. QED BY <2>1, <1>0
<1>8. ASSUME NEW x \in Tasks,
             CancelChecks(x) \/ Conclude(x) \/ Crash(x) \/ SettleQueued(x) \/ Sweep(x)
               \/ StartEndMatch(x) \/ AdminCancel(x) \/ ArchiveGame(x)
      PROVE  Good
  BY <1>8, <1>0 DEF CancelChecks, Conclude, ConcludeQueued, ConcludeUnheeded, StageCompletes,
                    StageFails, Crash, SettleQueued, Sweep, StartEndMatch, AdminCancel, Begin,
                    ArchiveGame, db
<1>9. ASSUME CancelRoom \/ CloseRoomPlayer PROVE Good
  BY <1>9, <1>0 DEF CancelRoom, CloseRoomPlayer, db
<1>9l. ASSUME NEW tx \in Transactions, Land(tx) PROVE Good
  BY <1>9l, <1>0 DEF Land, db
<1>9c. ASSUME NEW p \in Entered, ClaimRefund(p) PROVE Good
  BY <1>9c, <1>0 DEF ClaimRefund, db
<1>10. CASE Report \/ Enqueue \/ UNCHANGED vars
  BY <1>10, <1>0 DEF Report, Enqueue, db, vars
<1>11. QED
  BY <1>1, <1>2, <1>3, <1>4, <1>5, <1>6, <1>7, <1>8, <1>9, <1>9l, <1>9c, <1>10
     DEF Next, Environment, CancelStep, Tasks

(* The report, the queue, the board and the counters.                      *)
LEMMA RestStep ==
  ASSUME SInv, [Next]_vars
  PROVE  /\ node' \in {"playing", "written", "told"} /\ queued' \in BOOLEAN
         /\ inflight' \subseteq Transactions /\ board' \in Nat
         /\ faults' \in 0 .. MaxFaults /\ crashes' \in 0 .. MaxCrashes
         /\ requests' \in 0 .. MaxAdmin
<1> DEFINE Good == /\ node' \in {"playing", "written", "told"} /\ queued' \in BOOLEAN
                   /\ inflight' \subseteq Transactions /\ board' \in Nat
                   /\ faults' \in 0 .. MaxFaults /\ crashes' \in 0 .. MaxCrashes
                   /\ requests' \in 0 .. MaxAdmin
<1>t. /\ TypeOK /\ node \in {"playing", "written", "told"} /\ queued \in BOOLEAN
      /\ inflight \subseteq Transactions /\ board \in Nat
      /\ faults \in 0 .. MaxFaults /\ crashes \in 0 .. MaxCrashes /\ requests \in 0 .. MaxAdmin
      /\ MaxFaults \in Nat /\ MaxCrashes \in Nat /\ MaxAdmin \in Nat
  BY SMTT(30), SettlementAssumption DEF SInv, TypeOK
<1>1. ASSUME NEW x \in Tasks, Verify(x) \/ ReadVault(x) PROVE Good
  <2>1. faults' = faults \/ (faults < MaxFaults /\ faults' = faults + 1)
    BY <1>1 DEF Verify, ReadVault, MayFault
  <2>2. UNCHANGED <<node, queued, inflight, board, crashes, requests>>
    BY <1>1 DEF Verify, ReadVault, db
  <2>3. faults' \in 0 .. MaxFaults
    BY <2>1, <1>t
  <2>4. QED BY <2>2, <2>3, <1>t
<1>2. ASSUME NEW x \in Tasks, StartRoom(x) \/ UnlockPrize(x) \/ SettleToWinner(x) PROVE Good
  <2>1. faults' = faults \/ (faults < MaxFaults /\ faults' = faults + 1)
    BY <1>2 DEF StartRoom, UnlockPrize, SettleToWinner, Send, MayFault
  <2>2. UNCHANGED <<node, queued, board, crashes, requests>>
    BY <1>2 DEF StartRoom, UnlockPrize, SettleToWinner, Send, db
  <2>3. inflight' = inflight \/ \E tx \in Transactions : inflight' = inflight \cup {tx}
    BY <1>2 DEF StartRoom, UnlockPrize, SettleToWinner, Send, Transactions
  <2>4. faults' \in 0 .. MaxFaults
    BY <2>1, <1>t
  <2>5. QED BY <2>2, <2>3, <2>4, <1>t
<1>3. ASSUME NEW x \in Tasks, UpdateLeaderboard(x) PROVE Good
  <2>1. board' = task[x].games + 1 /\ task[x].games \in Nat
    BY <1>3, <1>t, TaskParts DEF UpdateLeaderboard
  <2>2. QED BY <1>3, <2>1, <1>t DEF UpdateLeaderboard, Local, bounds
<1>4. ASSUME NEW x \in Tasks, SettleStep(x),
             ~(\/ Verify(x) \/ ReadVault(x) \/ StartRoom(x) \/ UnlockPrize(x) \/ SettleToWinner(x)
               \/ UpdateLeaderboard(x))
      PROVE  Good
  <2>1. UNCHANGED <<node, queued, inflight, board, faults, crashes, requests>>
    BY <1>4 DEF SettleStep, Local, db, bounds, ReadGame, ReadResult, Park, VaultAlreadyEmpty,
                RecordPot, NothingToSettle, MarkPending, RecordFailure, RecordRewards, ReadEscrow,
                AlreadyPosted, PostSettlementLedger, ReadBoard, FinishGame
  <2>2. QED BY <2>1, <1>t
<1>5. ASSUME NEW x \in Tasks, CancelStep(x) \/ Conclude(x) \/ SettleQueued(x) \/ Sweep(x)
                                \/ StartEndMatch(x) \/ ArchiveGame(x)
      PROVE  Good
  <2>1. UNCHANGED <<node, inflight, board, faults, crashes, requests>>
    BY <1>5 DEF CancelStep, CancelChecks, CancelCommits, Conclude, ConcludeQueued,
                ConcludeUnheeded, StageCompletes, StageFails, Local, db, bounds, SettleQueued,
                Sweep, StartEndMatch, Begin, ArchiveGame
  <2>2. queued' \in BOOLEAN
    BY <1>5, <1>t DEF CancelStep, CancelChecks, CancelCommits, Conclude, ConcludeQueued,
                ConcludeUnheeded, StageCompletes, StageFails, Local, SettleQueued,
                Sweep, StartEndMatch, Begin, ArchiveGame
  <2>3. QED BY <2>1, <2>2, <1>t
<1>6. ASSUME NEW x \in Tasks, AdminCancel(x) \/ Crash(x) PROVE Good
  <2>1. /\ UNCHANGED <<node, queued, inflight, board, faults>>
        /\ crashes' = crashes \/ (crashes < MaxCrashes /\ crashes' = crashes + 1)
        /\ requests' = requests \/ (requests < MaxAdmin /\ requests' = requests + 1)
    BY <1>6 DEF AdminCancel, Begin, Crash, db
  <2>2. crashes' \in 0 .. MaxCrashes /\ requests' \in 0 .. MaxAdmin
    BY <2>1, <1>t
  <2>3. QED BY <2>1, <2>2, <1>t
<1>7. CASE RetrySettlement
  BY <1>7, <1>t DEF RetrySettlement
<1>8. ASSUME CancelRoom \/ CloseRoomPlayer PROVE Good
  BY <1>8, <1>t DEF CancelRoom, CloseRoomPlayer, db, bounds
<1>8l. ASSUME NEW tx \in Transactions, Land(tx) PROVE Good
  BY <1>8l, <1>t DEF Land, db, bounds
<1>8c. ASSUME NEW p \in Entered, ClaimRefund(p) PROVE Good
  BY <1>8c, <1>t DEF ClaimRefund, db, bounds
<1>9. CASE Report \/ Enqueue \/ UNCHANGED vars
  BY <1>9, <1>t DEF Report, Enqueue, db, bounds, vars
<1>10. QED
  BY <1>1, <1>2, <1>3, <1>4, <1>5, <1>6, <1>7, <1>8, <1>8l, <1>8c, <1>9
     DEF Next, Environment, Tasks

(***************************************************************************)
(* The theorems.                                                           *)
(***************************************************************************)

LEMMA SInvInit == Init => SInv
<1> SUFFICES ASSUME Init PROVE SInv
  OBVIOUS
<1> DEFINE zero == [p \in Entered |-> 0]
<1>1. /\ Pot \in Nat /\ Total(zero) = 0 /\ EndMatchAttempts \in Nat \ {0}
      /\ MaxFaults \in Nat /\ MaxCrashes \in Nat /\ MaxAdmin \in Nat
  BY PotType, TotalZero, SettlementAssumption
<1>2. PICK s \in Starts :
        /\ game = [status |-> s.status, settlement |-> s.settlement, pot |-> s.pot]
        /\ job = s.job
        /\ chain = [room |-> s.room, vault |-> Pot, seats |-> Entered, claimed |-> {},
                    paid |-> 0, fees |-> 0]
  BY DEF Init
<1>3. /\ s.status \in GameStatus /\ s.settlement \in SettlementStatus \ {"CONFIRMED"}
      /\ s.pot \in Nat /\ s.room \in {"Open", "InProgress"} /\ s.job \in {"over", "end-match"}
  BY <1>1 DEF Starts, GameStatus, SettlementStatus
<1>4. /\ setup \in Setups
      /\ ledger = [escrow |-> IF Escrow = "funded" THEN Pot ELSE 0, version |-> 0,
                   custody |-> zero, rake |-> 0, holders |-> Custodians \cap Entered,
                   payouts |-> 0, rakes |-> 0, refunded |-> {}, reward |-> FALSE]
      /\ node = "playing" /\ queued = FALSE /\ inflight = {} /\ board = 0
      /\ task = [x \in Tasks |-> Idle]
      /\ attempts = 0 /\ faults = 0 /\ crashes = 0 /\ requests = 0
  BY DEF Init
<1>5. zero \in [Entered -> Nat]
  OBVIOUS
<1>6. \A x \in Tasks : task[x].pc = "idle"
  BY <1>4 DEF Idle
<1> HIDE DEF zero
<1>7. TypeOK
  <2>1. task \in [Tasks -> Task]
    BY <1>4, IdleType
  <2>2. /\ chain \in [room : RoomStatus, vault : Nat, seats : SUBSET Entered,
                      claimed : SUBSET Entered, paid : Nat, fees : Nat]
        /\ game \in [status : GameStatus, settlement : SettlementStatus, pot : Nat]
        /\ job \in {"end-match", "archive-game", "over"}
    BY <1>1, <1>2, <1>3 DEF RoomStatus
  <2>3. LedgerType
    BY <1>1, <1>4, <1>5 DEF LedgerType
  <2>4. /\ attempts \in 0 .. EndMatchAttempts /\ faults \in 0 .. MaxFaults
        /\ crashes \in 0 .. MaxCrashes /\ requests \in 0 .. MaxAdmin /\ board \in Nat
    BY <1>1, <1>4
  <2>5. /\ setup \in Setups /\ node \in {"playing", "written", "told"} /\ queued \in BOOLEAN
        /\ inflight \subseteq Transactions
    BY <1>4
  <2>6. QED BY <2>1, <2>2, <2>3, <2>4, <2>5 DEF TypeOK, LedgerType
<1>8. ChainInv
  BY <1>2, <1>3 DEF ChainInv
<1>9. \A x \in Tasks : SettleInv(x) /\ LedgerTaskInv(x) /\ ~Settling(x)
  BY <1>6 DEF SettleInv, LedgerTaskInv, Settling, AfterPay
<1>10. OneSettler /\ UnpaidInv /\ JobInv
  BY <1>1, <1>2, <1>4, <1>6, <1>9 DEF OneSettler, UnpaidInv, JobInv
<1>11. ConfirmedMeansPaid
  BY <1>2, <1>3 DEF ConfirmedMeansPaid
<1>12. BooksFollowChain
  BY <1>4 DEF BooksFollowChain
<1>13. LedgerBalanced
  BY <1>1, <1>4 DEF LedgerBalanced
<1>14. QED BY <1>7, <1>8, <1>9, <1>10, <1>11, <1>12, <1>13 DEF SInv

LEMMA SInvStep == SInv /\ [Next]_vars => SInv'
<1> SUFFICES ASSUME SInv, [Next]_vars PROVE SInv'
  OBVIOUS
<1>t. TypeOK /\ ChainType /\ ChainInv /\ LedgerType
  BY DEF SInv, TypeOK, ChainType, LedgerType
<1>1. setup' = setup /\ ChainMoves
  BY <1>t, ChainMovesStep
<1>2. /\ ChainType' /\ ChainInv' /\ (Unlocked => Unlocked')
      /\ (chain.vault = 0 => chain'.vault = 0) /\ (Concluded => Concluded')
  BY <1>t, <1>1, ChainStep
<1>3. /\ LedgerType' /\ Sum' = Sum
      /\ Written' => Written \/ \E x \in Tasks : Writing(x)
  BY LedgerStep
<1>4. Steady
  BY <1>1, <1>2, LedgerStep DEF Steady
<1>5. /\ task' \in [Tasks -> Task]
      /\ \A x \in Tasks : SettleInv(x)' /\ LedgerTaskInv(x)'
      /\ OneSettler'
      /\ ~(Reported \subseteq Entered)' => \A x \in Tasks : task'[x].pc \in Unverified
  BY <1>3, <1>4, TasksStep
<1>6. /\ JobInv' /\ job' \in {"end-match", "archive-game", "over"}
      /\ attempts' \in 0 .. EndMatchAttempts
  BY JobStep
<1>7. /\ game' \in [status : GameStatus, settlement : SettlementStatus, pot : Nat]
      /\ canSignOnChain /\ game'.settlement = "CONFIRMED" => Concluded
  BY GameStep
<1>8. TypeOK'
  <2>1. setup' \in Setups
    BY <1>1, <1>t DEF TypeOK
  <2>2. QED BY <2>1, <1>2, <1>3, <1>5, <1>6, <1>7, RestStep DEF TypeOK, ChainType, LedgerType
<1>9. UnpaidInv'
  <2>1. Reported' = Reported
    BY <1>1 DEF Reported
  <2>2. QED BY <2>1, <1>5, UnpaidStep DEF UnpaidInv, Unverified
<1>10. BooksFollowChain'
  <2>1. canSignOnChain /\ Written => Concluded
    BY DEF SInv, BooksFollowChain, Written, Concluded
  <2>2. \A x \in Tasks : canSignOnChain /\ Writing(x) => Concluded
    BY DEF SInv, SettleInv, Writing, AfterPay
  <2>3. canSignOnChain' /\ Written' => Concluded'
    BY <2>1, <2>2, <1>1, <1>2, <1>3 DEF canSignOnChain
  <2>4. QED BY <2>3 DEF BooksFollowChain, Written, Concluded
<1>11. ConfirmedMeansPaid'
  <2>1. canSignOnChain' /\ game'.settlement = "CONFIRMED" => Concluded'
    BY <1>1, <1>2, <1>7 DEF canSignOnChain
  <2>2. QED BY <2>1 DEF ConfirmedMeansPaid, Concluded
<1>12. LedgerBalanced'
  BY <1>1, <1>3 DEF SInv, LedgerBalanced, Sum, Escrow
<1>13. QED
  BY <1>2, <1>5, <1>6, <1>8, <1>9, <1>10, <1>11, <1>12 DEF SInv

(* What is on record of a match follows from what the tasks know.          *)
LEMMA SInvMeans == SInv => SettlementInv
<1> SUFFICES ASSUME SInv PROVE SettlementInv
  OBVIOUS
<1>1. OneSettlerRecords
  <2> DEFINE S == { x \in Tasks :
                      /\ task[x].pc \in {"pay", "fail", "reward", "escrow", "posted", "post",
                                         "count", "board", "finish"}
                      /\ task[x].pot > 0 }
  <2>1. SUFFICES ASSUME canSignOnChain PROVE Cardinality(S) <= 1
    BY DEF OneSettlerRecords
  <2>2. \A x, y \in S : x = y
    BY <2>1 DEF SInv, OneSettler, Settling, AfterPay
  <2> HIDE DEF S
  <2>3. CASE S = {}
    BY <2>3, FS_EmptySet
  <2>4. CASE \E x \in S : TRUE
    <3>1. PICK x \in S : TRUE
      BY <2>4
    <3>2. S = {x}
      BY <2>2, <3>1
    <3>3. QED BY <3>2, FS_Singleton
  <2>5. QED BY <2>3, <2>4
<1>2. UnpaidReportNeverPays
  BY DEF SInv, UnpaidInv, UnpaidReportNeverPays
<1>3. QED BY <1>1, <1>2 DEF SInv, SettlementInv

(* However passes, the stage, admins, crashes and late transactions        *)
(* overlap, books and confirmations follow the chain, one settler records, *)
(* an unpaid report moves nothing and the ledger keeps its lamports        *)
(* (settleGame and cancelGameAndRefund).                                   *)
THEOREM SettlementIsSafe == Spec => []SettlementInv
<1>1. Init => SInv
  BY SInvInit
<1>2. SInv /\ [Next]_vars => SInv'
  BY SInvStep
<1>3. SInv => SettlementInv
  BY SInvMeans
<1>4. QED BY <1>1, <1>2, <1>3, PTL DEF Spec

(* Once a payout leg is posted no stake is refunded: the cancellation that *)
(* looked for a leg before it was posted names the version of the escrow   *)
(* it read, and the posting moved it (cancelGameAndRefund, refund.ts).     *)
THEOREM PaidIsNotRefunded == Spec => NoRefundAfterPayout
<1>1. Init => SInv
  BY SInvInit
<1>2. SInv /\ [Next]_vars => SInv'
  BY SInvStep
<1>3. SInv /\ [Next]_vars => [ledger.payouts > 0 => ledger'.refunded = ledger.refunded]_vars
  BY LedgerStep
<1>4. QED BY <1>1, <1>2, <1>3, PTL DEF Spec, NoRefundAfterPayout

=============================================================================
