---------------------------- MODULE CustodyProofs ----------------------------
(***************************************************************************)
(* Proofs about the books.  CustodyFunds, for any intents, amounts, tiers, *)
(* tasks and transactions: the inductive invariant CInv, and CustodyInv,   *)
(* which follows from it.  BackOffice, for any administrators, keys and    *)
(* amounts: the inductive invariant OfficeInv, and AdjustmentsHold; and    *)
(* for any rows, dates and page size: PagesInv, and PagesComplete, which   *)
(* follows from it.                                                        *)
(***************************************************************************)
EXTENDS CustodyFunds, BackOffice, SumsProofs, SequenceTheorems

(***************************************************************************)
(* The inductive invariant: what is known of a row and its entry, and what *)
(* a task may still rely on, across its awaits, of what it has read.       *)
(***************************************************************************)

Known(i) == row[i].status # "none"

(* Rows.  A row never changes its lamports, an entry is posted for them,   *)
(* and a signature stands on one row of its table.                         *)
RowInv(i) ==
  /\ Known(i) <=> row[i].lamports > 0
  /\ ~Known(i) => row[i].sig = None
  /\ posted[i] # 0 =>
       /\ Known(i)
       /\ i \in Deposits => posted[i] >= row[i].lamports
       /\ i \in Withdrawals => posted[i] = row[i].lamports
  /\ row[i].status = "CONFIRMED" => row[i].sig \in chain.landed /\ posted[i] # 0
  /\ row[i].sig # None => \A j \in SameTable(i) \ {i} : row[j].sig # row[i].sig

(* Which operation a task can be in the middle of. *)
OpInv(x) ==
  /\ task[x].pc \in {"row", "duplicate", "chain", "read", "mark"} =>
       task[x].op \in {"deposit", "withdrawal"}
  /\ task[x].pc = "submit" => task[x].op = "withdrawal"
  /\ task[x].pc = "fail" => task[x].op \in {"deposit", "withdrawal", "expire"}
  /\ task[x].pc \in {"free", "freed"} => task[x].op \in {"withdrawal", "refused", "expire"}
  /\ task[x].pc \in {"release", "unlock"} => task[x].op \in Confirming
  /\ task[x].pc = "commit" => task[x].op \in {"deposit", "withdrawal", "open", "stake", "unstake"}

(* A confirmation whose entry has been posted.                             *)
Paying(x) ==
  \/ task[x].pc = "mark"
  \/ task[x].pc \in {"free", "freed"} /\ task[x].op = "withdrawal"

(* A confirmation, and how far it has got: once the chain has been asked,  *)
(* the transaction is known to fit the row, which stays true.              *)
ConfirmInv(x) ==
  task[x].pc # "idle" /\ task[x].op \in Confirming =>
    LET i == task[x].id
        s == task[x].sig
    IN /\ i \in Intents /\ s \in Signatures /\ Known(i)
       /\ task[x].op = "deposit" <=> i \in Deposits
       /\ task[x].pc \in {"read", "commit"} => s \in chain.landed /\ Verified(i, s)
       /\ task[x].pc = "commit" => task[x].amount = Lamports(i, s)
       /\ Paying(x) => s \in chain.landed /\ posted[i] # 0

ExpireInv(x) ==
  task[x].pc # "idle" /\ task[x].op = "expire" =>
    /\ task[x].id \in Withdrawals /\ Known(task[x].id)
    /\ \A w \in task[x].todo : Known(w)

(* A transaction that has read the account: if the version it read still   *)
(* stands, so does all else it read, but for a reservation given back.     *)
CommitInv(x) ==
  task[x].pc = "commit" =>
    LET id == task[x].id
        fits == freed = {} => spendable(account) >= task[x].amount
    IN /\ task[x].seen.version <= account.version
       /\ VersionHolds(x) =>
            /\ task[x].seen.balance = account.balance
            /\ freed = {} => task[x].seen.reserved = account.reserved
       /\ task[x].op = "open" =>
            /\ id \in Withdrawals /\ task[x].amount >= MinLamports
            /\ VersionHolds(x) => ~Known(id) /\ fits
       /\ task[x].op \in {"stake", "unstake"} =>
            id \in Tiers /\ task[x].amount = entryFeeLamports[id]
       /\ task[x].op = "stake" /\ VersionHolds(x) => id \notin stakes /\ fits
       /\ task[x].op = "unstake" /\ VersionHolds(x) => id \in stakes

TaskInv(x) == OpInv(x) /\ ConfirmInv(x) /\ ExpireInv(x) /\ CommitInv(x)

CInv ==
  /\ TypeOK
  /\ \A i \in Intents : RowInv(i)
  /\ \A x \in Tasks : TaskInv(x)
  /\ BooksMatchLegs
  /\ ReservedIsCommitted

(***************************************************************************)
(* Types.                                                                  *)
(***************************************************************************)

(* The fee of a withdrawal is a whole number of lamports, within it.       *)
LEMMA FeeType ==
  ASSUME NEW gross \in Nat
  PROVE  fee(gross) \in Nat /\ fee(0) = 0
<1>1. gross * FeeBps \in Nat /\ 0 * FeeBps = 0
  BY CustodyAssumption
<1>2. QED BY <1>1 DEF fee

LEMMA IdleType == Idle \in Task
  BY CustodyAssumption DEF Idle, Task, Nothing, Account, PC, Op

LEMMA TaskParts ==
  ASSUME TypeOK, NEW x \in Tasks
  PROVE  /\ task[x].amount \in Nat /\ task[x].seen \in Account
         /\ task[x].seen.reserved \in Nat /\ task[x].seen.balance \in Nat
         /\ task[x].seen.version \in Nat
         /\ task[x].todo \subseteq Withdrawals /\ task[x].pc \in PC /\ task[x].op \in Op
         /\ task[x].id \in Intents \cup Tiers \cup {None} /\ task[x].sig \in Signatures \cup {None}
<1>1. task[x] \in Task
  BY DEF TypeOK
<1>2. task[x].seen \in Account
  BY <1>1 DEF Task
<1>3. QED BY <1>1, <1>2 DEF Task, Account

(* A step that changes one task only.                                      *)
Becomes(x, t) == task' = [task EXCEPT ![x] = t]

LEMMA BecomesType ==
  ASSUME TypeOK, NEW x \in Tasks, NEW t \in Task, Becomes(x, t)
  PROVE  task' \in [Tasks -> Task]
BY DEF TypeOK, Becomes

(* The task of a confirmation while it reads and writes the books.         *)
LEMMA ConfirmingTask ==
  ASSUME TypeOK, NEW x \in Tasks, NEW a \in Nat, NEW pc \in PC, NEW op \in Op
  PROVE  /\ [task[x] EXCEPT !.pc = pc, !.seen = account] \in Task
         /\ [task[x] EXCEPT !.pc = pc, !.seen = account, !.amount = a] \in Task
         /\ [task[x] EXCEPT !.pc = pc, !.op = op] \in Task
BY DEF TypeOK, Task

(* The writes of the account, each under a new version but the last.       *)
Reserves(n) == account' = [account EXCEPT !.reserved = n, !.version = @ + 1]
Pays(n) == account' = [account EXCEPT !.balance = n, !.version = @ + 1]
Frees(n) == account' = [account EXCEPT !.reserved = n]

LEMMA AccountStep ==
  ASSUME TypeOK, NEW n \in Nat
  PROVE  /\ Reserves(n) => /\ account' \in Account
                           /\ account'.balance = account.balance /\ account'.reserved = n
                           /\ account'.version = account.version + 1
         /\ Pays(n) => /\ account' \in Account
                       /\ account'.balance = n /\ account'.reserved = account.reserved
                       /\ account'.version = account.version + 1
         /\ Frees(n) => /\ account' \in Account
                        /\ account'.balance = account.balance /\ account'.reserved = n
                        /\ account'.version = account.version
<1> DEFINE v == account.version + 1
<1>1. v \in Nat /\ account \in Account
  BY DEF TypeOK, Account
<1> HIDE DEF v
<1>2. /\ [account EXCEPT !.reserved = n] \in Account
      /\ [account EXCEPT !.reserved = n, !.version = v] \in Account
      /\ [account EXCEPT !.balance = n, !.version = v] \in Account
  BY <1>1 DEF Account
<1>3. Reserves(n) => /\ account' \in Account
                     /\ account'.balance = account.balance /\ account'.reserved = n
                     /\ account'.version = account.version + 1
  BY <1>1, <1>2 DEF v, Reserves, Account
<1>4. Pays(n) => /\ account' \in Account
                 /\ account'.balance = n /\ account'.reserved = account.reserved
                 /\ account'.version = account.version + 1
  BY <1>1, <1>2 DEF v, Pays, Account
<1>5. Frees(n) => /\ account' \in Account
                  /\ account'.balance = account.balance /\ account'.reserved = n
                  /\ account'.version = account.version
  BY <1>1, <1>2 DEF Frees, Account
<1>6. QED BY <1>3, <1>4, <1>5

(* A task that moves its pc stays a task.                                  *)
LEMMA GoType ==
  ASSUME TypeOK, NEW x \in Tasks, NEW pc \in PC, Go(x, pc)
  PROVE  task' \in [Tasks -> Task]
BY DEF TypeOK, Go, Task

LEMMA FinishType ==
  ASSUME TypeOK, NEW x \in Tasks, Finish(x)
  PROVE  task' \in [Tasks -> Task]
BY IdleType DEF TypeOK, Finish

LEMMA BeginType ==
  ASSUME TypeOK, NEW x \in Tasks, NEW op \in Op, NEW id \in Intents \cup Tiers, NEW a \in Nat,
         BeginTransaction(x, op, id, a)
  PROVE  TypeOK'
<1>1. [Idle EXCEPT !.pc = "commit", !.op = op, !.id = id, !.amount = a, !.seen = account] \in Task
  BY IdleType DEF Task, TypeOK, PC
<1>2. task' \in [Tasks -> Task]
  BY <1>1 DEF TypeOK, BeginTransaction
<1>3. QED BY <1>2, CustodyAssumption DEF TypeOK, BeginTransaction, Request, books

LEMMA ConfirmType ==
  ASSUME TypeOK, NEW x \in Tasks, NEW i \in Intents, NEW s \in Signatures, Confirm(x, i, s),
         requests' \in 0 .. MaxRequests
  PROVE  TypeOK'
<1>1. [Idle EXCEPT !.pc = "row", !.id = i, !.sig = s,
                   !.op = IF i \in Deposits THEN "deposit" ELSE "withdrawal"] \in Task
  BY IdleType DEF Task, PC, Op
<1>2. task' \in [Tasks -> Task]
  BY <1>1 DEF TypeOK, Confirm
<1>3. lock' \in [Intents -> Tasks \cup {None, Orphan}]
  BY DEF TypeOK, Confirm
<1>4. QED BY <1>2, <1>3 DEF TypeOK, Confirm, books

LEMMA ExpireNextType ==
  ASSUME TypeOK, NEW x \in Tasks, NEW left \in SUBSET Withdrawals, ExpireNext(x, left)
  PROVE  task' \in [Tasks -> Task]
<1>1. CASE left = {}
  BY <1>1, FinishType DEF ExpireNext
<1>2. CASE left # {}
  <2>1. PICK w \in left :
          task' = [task EXCEPT ![x] = [Idle EXCEPT !.pc = "fail", !.op = "expire", !.id = w,
                                                   !.todo = left \ {w}]]
    BY <1>2 DEF ExpireNext
  <2>2. [Idle EXCEPT !.pc = "fail", !.op = "expire", !.id = w, !.todo = left \ {w}] \in Task
    BY IdleType DEF Task, PC, Op, Intents
  <2>3. QED BY <2>1, <2>2 DEF TypeOK
<1>3. QED BY <1>1, <1>2

LEMMA UpdateType ==
  ASSUME TypeOK, NEW i \in Intents, NEW s \in Signatures \cup {None}, NEW status,
         status = "CONFIRMED" \/ (status = "SUBMITTED" /\ i \in Withdrawals), Update(i, status, s)
  PROVE  /\ row' \in [Intents -> Row]
         /\ \A d \in Deposits : row'[d].status \in DepositStatus \cup {"none"}
         /\ \A w \in Withdrawals : row'[w].status \in WithdrawalStatus \cup {"none"}
BY CustodyAssumption DEF TypeOK, Update, Row, DepositStatus, WithdrawalStatus, Intents

(* What the invariant says of the rows and task of a step, and of amounts. *)
LEMMA LamportsType ==
  ASSUME CInv, NEW x \in Tasks, task[x].pc \in {"read", "commit"}, task[x].op \in Confirming
  PROVE  Lamports(task[x].id, task[x].sig) \in Nat \ {0}
<1> DEFINE i == task[x].id
           s == task[x].sig
<1>1. i \in Intents /\ s \in Signatures /\ Known(i) /\ Verified(i, s)
  BY DEF CInv, TaskInv, ConfirmInv
<1>2. row[i].lamports \in Nat \ {0}
  BY <1>1 DEF CInv, RowInv, TypeOK, Row
<1>3. i \in Deposits => Transaction[s].pool \in Nat \ {0}
  BY <1>1, CustodyAssumption DEF Verified, verifyDeposit
<1>4. QED BY <1>2, <1>3 DEF Lamports

(* Every step keeps the types. *)
LEMMA TypeStep ==
  ASSUME CInv, [Next]_vars
  PROVE  TypeOK'
<1> USE DEF books, bounds, Local
<1>t. TypeOK
  BY DEF CInv
<1>1. ASSUME NEW s \in Signatures, Land(s) PROVE TypeOK'
  BY <1>1, <1>t, CustodyAssumption DEF TypeOK, Land
<1>2. ASSUME NEW d \in Deposits, NEW a \in Amounts, createDepositIntent(d, a) PROVE TypeOK'
  <2>1. [status |-> "PENDING", lamports |-> a, sig |-> None] \in Row
    BY CustodyAssumption DEF Row, DepositStatus
  <2>2. QED BY <1>2, <2>1, <1>t, CustodyAssumption
            DEF TypeOK, createDepositIntent, Request, DepositStatus, Intents
<1>3. ASSUME NEW x \in Tasks, NEW w \in Withdrawals, NEW a \in Amounts,
             createWithdrawalIntent(x, w, a)
      PROVE  TypeOK'
  BY <1>3, <1>t, BeginType, CustodyAssumption DEF createWithdrawalIntent, Op, Intents
<1>4. ASSUME NEW x \in Tasks, NEW t \in Tiers, reserveEntryFee(x, t) \/ releaseEntryFee(x, t)
      PROVE  TypeOK'
  <2>1. entryFeeLamports[t] \in Nat
    BY CustodyAssumption
  <2>2. QED BY <1>4, <2>1, <1>t, BeginType DEF reserveEntryFee, releaseEntryFee, Op
<1>5. ASSUME NEW x \in Tasks, NEW i \in Intents, NEW s \in Signatures, ClientConfirms(x, i, s)
      PROVE  TypeOK'
  BY <1>5, <1>t, ConfirmType, CustodyAssumption DEF ClientConfirms, Request, TypeOK
<1>6. ASSUME NEW x \in Tasks, NEW i \in Intents, Recover(x, i) PROVE TypeOK'
  <2>1. row[i].sig \in Signatures
    BY <1>6, <1>t DEF Recover, Unconfirmed, TypeOK, Row
  <2>2. requests' \in 0 .. MaxRequests
    BY <1>6, <1>t DEF Recover, TypeOK
  <2>3. QED BY <1>6, <2>1, <2>2, <1>t, ConfirmType DEF Recover
<1>7. ASSUME NEW x \in Tasks, NEW d \in Deposits, expireStaleDeposits(x, d) PROVE TypeOK'
  BY <1>7, <1>t, CustodyAssumption DEF expireStaleDeposits, TypeOK, Row, DepositStatus, Intents
<1>8. ASSUME NEW x \in Tasks, expireStaleWithdrawals(x) PROVE TypeOK'
  <2>1. PICK old \in SUBSET Stale : ExpireNext(x, old)
    BY <1>8 DEF expireStaleWithdrawals
  <2>2. task' \in [Tasks -> Task]
    BY <2>1, <1>t, ExpireNextType DEF Stale
  <2>3. QED BY <1>8, <2>2, <1>t DEF expireStaleWithdrawals, TypeOK
<1>9. ASSUME NEW x \in Tasks, Step(x) PROVE TypeOK'
  <2>1. CASE CommitIntent(x)
    <3> DEFINE n == task[x].seen.reserved + task[x].amount
    <3>0. n \in Nat /\ Reserves(n)
      BY <2>1, <1>t, TaskParts DEF CommitIntent, Reserves
    <3>1. account' \in Account
      BY <3>0, <1>t, AccountStep
    <3>2. task[x].id \in Withdrawals /\ task[x].amount \in Nat
      BY <2>1, <1>t DEF CommitIntent, CInv, TaskInv, CommitInv, TypeOK, Task, At
    <3>3. [status |-> IF task[x].amount >= ReviewThreshold THEN "PENDING_REVIEW" ELSE "APPROVED",
           lamports |-> task[x].amount, sig |-> None] \in Row
      BY <3>2 DEF Row, WithdrawalStatus
    <3>4. row' \in [Intents -> Row]
      BY <2>1, <3>3, <1>t DEF CommitIntent, TypeOK
    <3>5. /\ \A d \in Deposits : row'[d].status \in DepositStatus \cup {"none"}
          /\ \A w \in Withdrawals : row'[w].status \in WithdrawalStatus \cup {"none"}
      BY <2>1, <3>2, <1>t, CustodyAssumption DEF CommitIntent, TypeOK, Intents, WithdrawalStatus
    <3>6. task' \in [Tasks -> Task]
      BY <2>1, <1>t, FinishType DEF CommitIntent
    <3>7. QED BY <2>1, <3>1, <3>4, <3>5, <3>6, <1>t DEF CommitIntent, TypeOK
  <2>2. CASE CommitStake(x)
    <3> DEFINE n == task[x].seen.reserved + task[x].amount
    <3>0. n \in Nat /\ Reserves(n)
      BY <2>2, <1>t, TaskParts DEF CommitStake, Reserves
    <3>1. account' \in Account
      BY <3>0, <1>t, AccountStep
    <3>2. task[x].id \in Tiers
      BY <2>2 DEF CommitStake, CInv, TaskInv, CommitInv, At
    <3>3. task' \in [Tasks -> Task]
      BY <2>2, <1>t, FinishType DEF CommitStake
    <3>4. QED BY <2>2, <3>1, <3>2, <3>3, <1>t DEF CommitStake, TypeOK
  <2>3. CASE CommitRelease(x)
    <3> DEFINE n == Less(task[x].seen.reserved, task[x].amount)
    <3>0. n \in Nat /\ Reserves(n)
      BY <2>3, <1>t, TaskParts DEF CommitRelease, Reserves, Less
    <3>1. account' \in Account
      BY <3>0, <1>t, AccountStep
    <3>2. task' \in [Tasks -> Task]
      BY <2>3, <1>t, FinishType DEF CommitRelease
    <3>3. QED BY <2>3, <3>1, <3>2, <1>t DEF CommitRelease, TypeOK
  <2>4. CASE ReadRow(x) \/ ReadDuplicate(x) \/ getParsedTransaction(x) \/ Rollback(x)
             \/ AlreadyPosted(x) \/ CompareToken(x)
    <3>1. task' \in [Tasks -> Task]
      BY <2>4, <1>t, GoType, FinishType
         DEF ReadRow, ReadDuplicate, getParsedTransaction, Rollback, AlreadyPosted, AfterPost,
             CompareToken, PC
    <3>2. QED BY <2>4, <3>1, <1>t
              DEF ReadRow, ReadDuplicate, getParsedTransaction, Rollback, AlreadyPosted,
                  CompareToken, TypeOK
  <2>5. CASE MarkSubmitted(x) \/ MarkConfirmed(x)
    <3>1. /\ task[x].id \in Intents
          /\ task[x].sig \in Signatures
          /\ task[x].pc = "submit" => task[x].id \in Withdrawals
      BY <2>5 DEF MarkSubmitted, MarkConfirmed, At, CInv, TaskInv, OpInv, ConfirmInv, Confirming,
                  Intents
    <3>2. task' \in [Tasks -> Task]
      BY <2>5, <1>t, GoType DEF MarkSubmitted, MarkConfirmed, PC
    <3>3. /\ row' \in [Intents -> Row]
          /\ \A d \in Deposits : row'[d].status \in DepositStatus \cup {"none"}
          /\ \A w \in Withdrawals : row'[w].status \in WithdrawalStatus \cup {"none"}
      BY <2>5, <3>1, <1>t, UpdateType DEF MarkSubmitted, MarkConfirmed, At
    <3>4. QED BY <2>5, <3>2, <3>3, <1>t DEF MarkSubmitted, MarkConfirmed, TypeOK
  <2>6. CASE MarkFailed(x)
    <3> DEFINE pc == IF task[x].op = "deposit" THEN "release" ELSE "free"
               op == IF task[x].op = "withdrawal" THEN "refused" ELSE task[x].op
    <3>0. pc \in PC /\ op \in Op
      BY <1>t, TaskParts DEF PC, Op
    <3>a. Becomes(x, [task[x] EXCEPT !.pc = pc, !.op = op])
      BY <2>6, <1>t DEF MarkFailed, Becomes, TypeOK
    <3>1. task' \in [Tasks -> Task]
      <4> HIDE DEF pc, op
      <4>1. QED BY <3>0, <3>a, <1>t, ConfirmingTask, BecomesType
    <3>2. /\ row' \in [Intents -> Row]
          /\ \A d \in Deposits : row'[d].status \in DepositStatus \cup {"none"}
          /\ \A w \in Withdrawals : row'[w].status \in WithdrawalStatus \cup {"none"}
      <4>1. \A i \in Intents : [row[i] EXCEPT !.status = "FAILED"] \in Row
        BY <1>t DEF TypeOK, Row, DepositStatus
      <4>2. \A i \in Intents : row'[i] = row[i] \/ row'[i] = [row[i] EXCEPT !.status = "FAILED"]
        BY <2>6, <1>t DEF MarkFailed, TypeOK
      <4>3. row' \in [Intents -> Row]
        BY <2>6, <4>1, <1>t DEF MarkFailed, TypeOK
      <4>4. \A i \in Intents : row'[i].status = row[i].status \/ row'[i].status = "FAILED"
        BY <4>2, <1>t DEF TypeOK, Row
      <4>5. QED BY <4>3, <4>4, <1>t DEF TypeOK, Intents, DepositStatus, WithdrawalStatus
    <3>3. QED BY <2>6, <3>1, <3>2, <1>t DEF MarkFailed, TypeOK
  <2>7. CASE postEntryReads(x)
    <3>1. Lamports(task[x].id, task[x].sig) \in Nat
      BY <2>7, LamportsType DEF postEntryReads, At, CInv, TaskInv, OpInv, Confirming
    <3> DEFINE a == Lamports(task[x].id, task[x].sig)
    <3>a. Becomes(x, [task[x] EXCEPT !.pc = "commit", !.seen = account, !.amount = a])
      BY <2>7, <1>t DEF postEntryReads, Becomes, TypeOK
    <3>2. task' \in [Tasks -> Task]
      <4> HIDE DEF a
      <4>1. [task[x] EXCEPT !.pc = "commit", !.seen = account, !.amount = a] \in Task
        BY <3>1, <1>t, ConfirmingTask DEF a, PC, Op
      <4>2. QED BY <3>a, <4>1, <1>t, BecomesType
    <3>3. QED BY <2>7, <3>2, <1>t DEF postEntryReads, TypeOK
  <2>8. CASE postEntry(x)
    <3> DEFINE a == task[x].amount
    <3>1. a \in Nat /\ task[x].seen \in Account /\ task[x].id \in Intents
      BY <2>8, <1>t DEF postEntry, At, CInv, TaskInv, ConfirmInv, Confirming, TypeOK, Task
    <3>2. task[x].op = "withdrawal" => task[x].seen.balance >= a
      BY <2>8, <3>1 DEF postEntry, Insufficient, Account
    <3>3. fee(a) \in Nat
      BY <3>1, FeeType
    <3>4. account' \in Account /\ external' \in Int /\ treasury' \in Nat
      <4> DEFINE b == task[x].seen.balance
      <4>1. b \in Nat /\ external \in Int /\ treasury \in Nat
        BY <3>1, <1>t DEF Account, TypeOK
      <4>2. CASE task[x].op = "deposit"
        <5>1. b + a \in Nat /\ Pays(b + a) /\ external' = external - a /\ treasury' = treasury
          BY <2>8, <4>2, <4>1, <3>1 DEF postEntry, Pays
        <5>2. QED BY <5>1, <4>1, <3>1, <1>t, AccountStep
      <4>3. CASE task[x].op = "withdrawal"
        <5>1. b - a \in Nat /\ Pays(b - a)
          BY <2>8, <4>3, <4>1, <3>1, <3>2 DEF postEntry, Pays
        <5>2. external' = external + a - fee(a) /\ treasury' = treasury + fee(a)
          BY <2>8, <4>3 DEF postEntry
        <5>3. account' \in Account
          BY <5>1, <1>t, AccountStep
        <5>4. QED BY <5>2, <5>3, <4>1, <3>1, <3>3
      <4>4. QED BY <2>8, <4>2, <4>3 DEF postEntry
    <3>5. posted' \in [Intents -> Nat]
      BY <2>8, <3>1, <1>t DEF postEntry, TypeOK
    <3>6. task' \in [Tasks -> Task]
      BY <2>8, <1>t, GoType DEF postEntry, AfterPost, PC
    <3>7. QED BY <2>8, <3>4, <3>5, <3>6, <1>t DEF postEntry, TypeOK
  <2>9. CASE releaseReads(x)
    <3>a. Becomes(x, [task[x] EXCEPT !.pc = "freed", !.seen = account])
      BY <2>9, <1>t DEF releaseReads, Becomes, TypeOK
    <3>1. task' \in [Tasks -> Task]
      <4>1. [task[x] EXCEPT !.pc = "freed", !.seen = account] \in Task
        BY <1>t, ConfirmingTask DEF PC, Op
      <4>2. QED BY <3>a, <4>1, <1>t, BecomesType
    <3>2. QED BY <2>9, <3>1, <1>t DEF releaseReads, TypeOK
  <2>10. CASE releaseReservation(x)
    <3>1. task[x].id \in Withdrawals
      BY <2>10 DEF releaseReservation, At, CInv, TaskInv, OpInv, ConfirmInv, ExpireInv, Confirming,
                   Intents
    <3>2. row[task[x].id].lamports \in Nat /\ task[x].seen \in Account
      BY <3>1, <1>t DEF TypeOK, Row, Intents, Task
    <3> DEFINE n == Less(task[x].seen.reserved, row[task[x].id].lamports)
    <3>0. n \in Nat /\ Frees(n)
      BY <2>10, <3>2 DEF releaseReservation, Frees, Less, Account
    <3>3. account' \in Account
      BY <3>0, <1>t, AccountStep
    <3>4. task[x].todo \subseteq Withdrawals
      BY <1>t DEF TypeOK, Task
    <3>5. task' \in [Tasks -> Task]
      BY <2>10, <3>4, <1>t, GoType, ExpireNextType DEF releaseReservation, PC
    <3>6. QED BY <2>10, <3>1, <3>3, <3>5, <1>t DEF releaseReservation, TypeOK
  <2>11. CASE Unlock(x)
    <3>1. lock' \in [Intents -> Tasks \cup {None, Orphan}]
      BY <2>11, <1>t DEF Unlock, TypeOK
    <3>2. QED BY <2>11, <3>1, <1>t, FinishType DEF Unlock, TypeOK
  <2>12. QED BY <1>9, <2>1, <2>2, <2>3, <2>4, <2>5, <2>6, <2>7, <2>8, <2>9, <2>10, <2>11 DEF Step
<1>10. ASSUME NEW x \in Tasks, CallFails(x) PROVE TypeOK'
  <2>1. task' \in [Tasks -> Task]
    BY <1>10, <1>t, GoType, FinishType DEF CallFails, PC
  <2>2. QED BY <1>10, <2>1, <1>t, CustodyAssumption DEF CallFails, Mishap, TypeOK
<1>11. ASSUME NEW x \in Tasks, Crash(x) PROVE TypeOK'
  <2>1. lock' \in [Intents -> Tasks \cup {None, Orphan}]
    BY <1>11, <1>t DEF Crash, TypeOK
  <2>2. QED BY <1>11, <2>1, <1>t, FinishType, CustodyAssumption DEF Crash, Mishap, TypeOK
<1>12. ASSUME NEW i \in Intents, OrphanExpires(i) \/ LockLapses(i) PROVE TypeOK'
  <2>1. lock' \in [Intents -> Tasks \cup {None, Orphan}]
    BY <1>12, <1>t DEF OrphanExpires, LockLapses, TypeOK
  <2>2. QED BY <1>12, <2>1, <1>t, CustodyAssumption DEF OrphanExpires, LockLapses, Mishap, TypeOK
<1>13. CASE UNCHANGED vars
  BY <1>13, <1>t DEF TypeOK, vars
<1>14. QED
  BY <1>1, <1>2, <1>3, <1>4, <1>5, <1>6, <1>7, <1>8, <1>9, <1>10, <1>11, <1>12, <1>13
     DEF Next, Client, Reconciler, Tasks

(***************************************************************************)
(* The steps by what they write: nothing of the books, rows and stakes     *)
(* (tasks, locks and the chain move), one row, or the account.             *)
(***************************************************************************)

Quiet == chain.landed \subseteq chain'.landed /\ UNCHANGED <<books, row, stakes>>

WritesRow ==
  \/ \E d \in Deposits, a \in Amounts : createDepositIntent(d, a)
  \/ \E x \in Tasks, d \in Deposits : expireStaleDeposits(x, d)
  \/ \E x \in Tasks : MarkSubmitted(x) \/ MarkFailed(x) \/ MarkConfirmed(x)

WritesAccount ==
  \E x \in Tasks : \/ CommitIntent(x) \/ CommitStake(x) \/ CommitRelease(x)
                   \/ postEntry(x) \/ releaseReservation(x)

LEMMA Kinds ==
  ASSUME TypeOK, [Next]_vars
  PROVE  Quiet \/ WritesRow \/ WritesAccount
<1>1. ASSUME NEW s \in Signatures, Land(s) PROVE Quiet
  BY <1>1 DEF Land, Quiet, TypeOK
<1>2. ASSUME NEW x \in Tasks, Client(x) PROVE Quiet
  BY <1>2 DEF Client, createWithdrawalIntent, reserveEntryFee, releaseEntryFee, BeginTransaction,
              ClientConfirms, Confirm, Quiet
<1>3. ASSUME NEW x \in Tasks, Reconciler(x) PROVE Quiet \/ WritesRow
  BY <1>3 DEF Reconciler, Recover, Confirm, expireStaleWithdrawals, Local, Quiet, WritesRow
<1>4. ASSUME NEW x \in Tasks, Step(x) PROVE Quiet \/ WritesRow \/ WritesAccount
  <2>1. CASE \/ ReadRow(x) \/ ReadDuplicate(x) \/ getParsedTransaction(x) \/ postEntryReads(x)
             \/ Rollback(x) \/ AlreadyPosted(x) \/ releaseReads(x) \/ CompareToken(x) \/ Unlock(x)
    BY <2>1 DEF ReadRow, ReadDuplicate, getParsedTransaction, postEntryReads, Rollback,
                AlreadyPosted, releaseReads, CompareToken, Unlock, Local, Quiet
  <2>2. QED BY <1>4, <2>1 DEF Step, WritesRow, WritesAccount
<1>5. ASSUME NEW x \in Tasks, CallFails(x) \/ Crash(x) PROVE Quiet
  BY <1>5 DEF CallFails, Crash, Quiet
<1>6. ASSUME NEW i \in Intents, OrphanExpires(i) \/ LockLapses(i) PROVE Quiet
  BY <1>6 DEF OrphanExpires, LockLapses, Quiet
<1>7. CASE UNCHANGED vars
  BY <1>7 DEF vars, Quiet, books
<1>8. QED BY <1>1, <1>2, <1>3, <1>4, <1>5, <1>6, <1>7 DEF Next, Tasks, WritesRow

(***************************************************************************)
(* Rows.                                                                   *)
(***************************************************************************)

LEMMA RowFrame ==
  ASSUME CInv, UNCHANGED <<row, posted>>, chain.landed \subseteq chain'.landed
  PROVE  \A i \in Intents : RowInv(i)'
BY DEF CInv, RowInv, Known, SameTable

(* A step that writes one row keeps every row's facts if it keeps the      *)
(* lamports, confirms only what is posted and landed, and records only a   *)
(* signature no other row of the table has.                                *)
LEMMA RowChange ==
  ASSUME CInv, TypeOK', NEW k \in Intents, UNCHANGED <<posted, chain>>,
         \A i \in Intents \ {k} : row'[i] = row[i],
         row'[k].status # "none", row'[k].lamports > 0,
         Known(k) => row'[k].lamports = row[k].lamports,
         row'[k].status = "CONFIRMED" => row'[k].sig \in chain.landed /\ posted[k] # 0,
         row'[k].sig # None => \A j \in SameTable(k) \ {k} : row[j].sig # row'[k].sig
  PROVE  \A i \in Intents : RowInv(i)'
<1>1. RowInv(k)'
  <2>1. RowInv(k)
    BY DEF CInv
  <2>2. \A j \in SameTable(k) \ {k} : row'[j] = row[j]
    BY DEF SameTable, Intents
  <2>3. QED BY <2>1, <2>2 DEF RowInv, Known, SameTable
<1>2. ASSUME NEW i \in Intents, i # k PROVE RowInv(i)'
  <2>1. RowInv(i) /\ row'[i] = row[i]
    BY <1>2 DEF CInv
  <2>2. ASSUME row[i].sig # None, NEW j \in SameTable(i) \ {i} PROVE row'[j].sig # row[i].sig
    <3>1. CASE j = k
      <4>1. i \in SameTable(k) \ {k}
        BY <1>2, <2>2, <3>1, CustodyAssumption DEF SameTable, Intents
      <4>2. QED BY <2>2, <3>1, <4>1
    <3>2. CASE j # k
      BY <2>1, <2>2, <3>2 DEF RowInv, SameTable, Intents
    <3>3. QED BY <3>1, <3>2
  <2>3. QED BY <2>1, <2>2 DEF RowInv, Known, SameTable
<1>3. QED BY <1>1, <1>2

(* Update is such a step, for a confirmation's row.                        *)
LEMMA RowUpdate ==
  ASSUME CInv, TypeOK', UNCHANGED <<posted, chain>>,
         NEW i \in Intents, NEW s \in Signatures, NEW status, Known(i),
         status = "SUBMITTED" \/ (status = "CONFIRMED" /\ s \in chain.landed /\ posted[i] # 0),
         Update(i, status, s)
  PROVE  \A j \in Intents : RowInv(j)'
<1>1. CASE Recorded(i, s)
  BY <1>1, RowFrame DEF Update
<1>2. CASE ~Recorded(i, s)
  <2>1. row[i] \in Row /\ row \in [Intents -> Row] /\ RowInv(i)
    BY DEF CInv, TypeOK
  <2>2. /\ \A j \in Intents \ {i} : row'[j] = row[j]
        /\ row'[i].status = status /\ row'[i].sig = s /\ row'[i].lamports = row[i].lamports
    BY <1>2, <2>1 DEF Update, Row
  <2>3. QED BY <1>2, <2>1, <2>2, RowChange DEF Recorded, RowInv
<1>3. QED BY <1>1, <1>2

(* Each of the steps that write a row, or post an entry, is of that form.  *)
LEMMA RowStep ==
  ASSUME CInv, [Next]_vars, TypeOK'
  PROVE  \A i \in Intents : RowInv(i)'
<1> USE DEF books
<1>t. TypeOK /\ \A i \in Intents : row[i] \in Row /\ RowInv(i)
  BY DEF CInv, TypeOK
<1>1. CASE Quiet
  BY <1>1, RowFrame DEF Quiet
<1>2. ASSUME NEW d \in Deposits, NEW a \in Amounts, createDepositIntent(d, a)
      PROVE  \A i \in Intents : RowInv(i)'
  <2>1. /\ \A i \in Intents \ {d} : row'[i] = row[i]
        /\ row'[d] = [status |-> "PENDING", lamports |-> a, sig |-> None]
        /\ ~Known(d) /\ a > 0 /\ d \in Intents
    BY <1>2, <1>t, CustodyAssumption DEF createDepositIntent, TypeOK, Intents, Known
  <2>2. QED BY <1>2, <2>1, RowChange DEF createDepositIntent
<1>3. ASSUME NEW x \in Tasks, NEW d \in Deposits, expireStaleDeposits(x, d)
      PROVE  \A i \in Intents : RowInv(i)'
  <2>1. /\ \A i \in Intents \ {d} : row'[i] = row[i]
        /\ row'[d].status = "EXPIRED" /\ row'[d].lamports = row[d].lamports
        /\ row'[d].sig = None /\ Known(d) /\ d \in Intents
    BY <1>3, <1>t DEF expireStaleDeposits, TypeOK, Row, Intents, Known
  <2>2. QED BY <1>3, <2>1, <1>t, RowChange DEF expireStaleDeposits, RowInv
<1>4. ASSUME NEW x \in Tasks, MarkSubmitted(x) \/ MarkConfirmed(x)
      PROVE  \A i \in Intents : RowInv(i)'
  <2>1. /\ task[x].id \in Intents /\ task[x].sig \in Signatures /\ Known(task[x].id)
        /\ task[x].pc = "mark" => task[x].sig \in chain.landed /\ posted[task[x].id] # 0
    BY <1>4 DEF MarkSubmitted, MarkConfirmed, At, CInv, TaskInv, OpInv, ConfirmInv, Paying,
                Confirming
  <2>2. QED BY <1>4, <2>1, RowUpdate DEF MarkSubmitted, MarkConfirmed, At
<1>5. ASSUME NEW x \in Tasks, MarkFailed(x) PROVE \A i \in Intents : RowInv(i)'
  <2> DEFINE k == task[x].id
  <2>1. k \in Intents /\ Known(k)
    BY <1>5 DEF MarkFailed, At, CInv, TaskInv, OpInv, ConfirmInv, ExpireInv, Confirming, Intents
  <2>2. /\ \A i \in Intents \ {k} : row'[i] = row[i]
        /\ row'[k].status = "FAILED" /\ row'[k].lamports = row[k].lamports
        /\ row'[k].sig = row[k].sig
    BY <1>5, <2>1, <1>t DEF MarkFailed, TypeOK, Row
  <2>3. RowInv(k)
    BY <2>1 DEF CInv
  <2>4. /\ row'[k].lamports > 0
        /\ row'[k].sig # None => \A j \in SameTable(k) \ {k} : row[j].sig # row'[k].sig
    BY <2>1, <2>2, <2>3 DEF RowInv
  <2>5. UNCHANGED <<posted, chain>>
    BY <1>5 DEF MarkFailed
  <2>6. QED BY <1>t, <2>1, <2>2, <2>4, <2>5, RowChange
<1>6. ASSUME NEW x \in Tasks, CommitIntent(x) PROVE \A i \in Intents : RowInv(i)'
  <2> DEFINE k == task[x].id
  <2>1. k \in Intents /\ ~Known(k) /\ task[x].amount > 0
    <3>1. CommitInv(x) /\ task[x].pc = "commit" /\ task[x].op = "open" /\ VersionHolds(x)
      BY <1>6 DEF CommitIntent, At, CInv, TaskInv
    <3>2. k \in Withdrawals /\ task[x].amount >= MinLamports /\ ~Known(k)
      BY <3>1 DEF CommitInv
    <3>3. task[x].amount \in Nat /\ MinLamports \in Nat \ {0}
      BY <1>t, TaskParts, CustodyAssumption
    <3>4. QED BY <3>2, <3>3 DEF Intents
  <2>2. /\ \A i \in Intents \ {k} : row'[i] = row[i]
        /\ row'[k].status \in {"PENDING_REVIEW", "APPROVED"}
        /\ row'[k].lamports = task[x].amount /\ row'[k].sig = None
    BY <1>6, <2>1, <1>t DEF CommitIntent, TypeOK
  <2>3. QED BY <1>6, <2>1, <2>2, RowChange DEF CommitIntent
<1>7. ASSUME NEW x \in Tasks, CommitStake(x) \/ CommitRelease(x) \/ releaseReservation(x)
      PROVE  \A i \in Intents : RowInv(i)'
  BY <1>7, RowFrame DEF CommitStake, CommitRelease, releaseReservation
<1>8. ASSUME NEW x \in Tasks, postEntry(x) PROVE \A i \in Intents : RowInv(i)'
  <2> DEFINE k == task[x].id
             a == task[x].amount
  <2>1. /\ k \in Intents /\ Known(k) /\ a = Lamports(k, task[x].sig)
        /\ Verified(k, task[x].sig)
    BY <1>8 DEF postEntry, At, CInv, TaskInv, ConfirmInv, Confirming
  <2>2. a \in Nat \ {0}
    BY <1>8, <2>1, LamportsType DEF postEntry, At, Confirming
  <2>3. /\ k \in Deposits => a >= row[k].lamports
        /\ k \in Withdrawals => a = row[k].lamports
    BY <2>1, CustodyAssumption DEF Lamports, Verified, verifyDeposit, Intents
  <2>4. posted' = [posted EXCEPT ![k] = a] /\ posted[k] = 0 /\ UNCHANGED <<row, chain>>
    BY <1>8 DEF postEntry, Unposted
  <2>5. posted'[k] = a /\ \A i \in Intents \ {k} : posted'[i] = posted[i]
    BY <2>1, <2>4, <1>t DEF TypeOK
  <2> HIDE DEF k, a
  <2>6. ASSUME NEW i \in Intents PROVE RowInv(i)'
    <3>1. RowInv(i)
      BY <1>t
    <3>2. CASE i = k
      BY <2>1, <2>2, <2>3, <2>4, <2>5, <3>1, <3>2 DEF RowInv, Known, SameTable
    <3>3. CASE i # k
      <4>1. posted'[i] = posted[i]
        BY <2>5, <3>3
      <4>2. QED BY <2>4, <4>1, <3>1 DEF RowInv, Known, SameTable
    <3>4. QED BY <3>2, <3>3
  <2>7. QED BY <2>6
<1>9. QED
  BY <1>1, <1>2, <1>3, <1>4, <1>5, <1>6, <1>7, <1>8, <1>t, Kinds DEF WritesRow, WritesAccount

(***************************************************************************)
(* Tasks.  What every step leaves to the tasks it does not move.           *)
(***************************************************************************)

Steady ==
  /\ chain.landed \subseteq chain'.landed
  /\ \A i \in Intents : Known(i) => row'[i].status # "none" /\ row'[i].lamports = row[i].lamports
  /\ \A i \in Intents : posted[i] # 0 => posted'[i] # 0
  /\ account.version <= account'.version
  /\ account'.version = account.version =>
       /\ account'.balance = account.balance
       /\ stakes' = stakes
       /\ \A w \in Withdrawals : ~Known(w) => row'[w].status = "none"
       /\ freed' = {} => freed = {} /\ account'.reserved = account.reserved

(* A task that does not move keeps its invariant over a steady step.       *)
LEMMA TaskKeeps ==
  ASSUME CInv, TypeOK', Steady, NEW x \in Tasks, task'[x] = task[x]
  PROVE  TaskInv(x)'
<1>t. TypeOK /\ TaskInv(x)
  BY DEF CInv
<1>1. OpInv(x)'
  BY <1>t DEF TaskInv, OpInv
<1>2. ConfirmInv(x)'
  <2> SUFFICES ASSUME task[x].pc # "idle", task[x].op \in Confirming
               PROVE  ConfirmInv(x)'
    BY DEF ConfirmInv
  <2> DEFINE i == task[x].id
             s == task[x].sig
  <2>1. /\ i \in Intents /\ s \in Signatures /\ Known(i)
        /\ row'[i].status # "none" /\ row'[i].lamports = row[i].lamports
    BY <1>t DEF TaskInv, ConfirmInv, Steady
  <2>2. Lamports(i, s)' = Lamports(i, s) /\ (Verified(i, s) => Verified(i, s)')
    BY <2>1 DEF Lamports, Verified, verifyDeposit, verifyWithdrawal
  <2>3. s \in chain.landed => s \in chain'.landed
    BY DEF Steady
  <2>4. posted[i] # 0 => posted'[i] # 0
    BY <2>1 DEF Steady
  <2>5. Paying(x)' <=> Paying(x)
    BY DEF Paying
  <2>6. QED BY <1>t, <2>1, <2>2, <2>3, <2>4, <2>5 DEF TaskInv, ConfirmInv, Known
<1>3. ExpireInv(x)'
  BY <1>t, TaskParts DEF TaskInv, ExpireInv, Known, Steady, Intents
<1>4. CommitInv(x)'
  <2> SUFFICES ASSUME task[x].pc = "commit"
               PROVE  CommitInv(x)'
    BY DEF CommitInv
  <2>1. task[x].seen.version \in Nat /\ account.version \in Nat /\ account'.version \in Nat
    BY <1>t, TaskParts DEF TypeOK, Account
  <2>2. task[x].seen.version <= account.version
    BY <1>t DEF TaskInv, CommitInv
  <2>3. task[x].seen.version <= account'.version
    BY <2>1, <2>2 DEF Steady
  <2>4. ASSUME task[x].seen.version = account'.version
        PROVE  VersionHolds(x) /\ account'.version = account.version
    BY <2>1, <2>2, <2>4 DEF Steady, VersionHolds
  <2>5. ASSUME account'.version = account.version, freed' = {}
        PROVE  spendable(account)' = spendable(account)
    BY <2>5 DEF Steady, spendable
  <2>6. QED BY <1>t, <2>3, <2>4, <2>5 DEF TaskInv, CommitInv, VersionHolds, Steady, Known
<1>5. QED BY <1>1, <1>2, <1>3, <1>4 DEF TaskInv

LEMMA StepIsSteady ==
  ASSUME CInv, [Next]_vars
  PROVE  Steady
<1> USE DEF books
<1>t. TypeOK /\ \A i \in Intents : row[i] \in Row /\ RowInv(i)
  BY DEF CInv, TypeOK
<1>v. account.version \in Nat
  BY <1>t DEF TypeOK, Account
<1>1. CASE Quiet
  BY <1>1, <1>v DEF Quiet, Steady, Known
<1>2. ASSUME NEW d \in Deposits, NEW a \in Amounts, createDepositIntent(d, a) PROVE Steady
  BY <1>2, <1>t, <1>v, CustodyAssumption DEF createDepositIntent, Steady, Known, TypeOK, Intents
<1>3. ASSUME NEW x \in Tasks, NEW d \in Deposits, expireStaleDeposits(x, d) PROVE Steady
  BY <1>3, <1>t, <1>v, CustodyAssumption DEF expireStaleDeposits, Steady, Known, TypeOK, Row, Intents
<1>4. ASSUME NEW x \in Tasks, MarkSubmitted(x) \/ MarkConfirmed(x) PROVE Steady
  <2>1. task[x].id \in Intents /\ Known(task[x].id)
    BY <1>4 DEF MarkSubmitted, MarkConfirmed, At, CInv, TaskInv, OpInv, ConfirmInv, Confirming
  <2>2. ASSUME NEW i \in Intents
        PROVE  /\ row'[i].lamports = row[i].lamports
               /\ row'[i].status # row[i].status => i = task[x].id /\ row'[i].status # "none"
    BY <1>4, <1>t, <2>1 DEF MarkSubmitted, MarkConfirmed, Update, TypeOK, Row
  <2>3. QED BY <1>4, <1>v, <2>1, <2>2 DEF MarkSubmitted, MarkConfirmed, Steady, Known, Intents
<1>5. ASSUME NEW x \in Tasks, MarkFailed(x) PROVE Steady
  <2>1. task[x].id \in Intents /\ Known(task[x].id)
    BY <1>5 DEF MarkFailed, At, CInv, TaskInv, OpInv, ConfirmInv, ExpireInv, Confirming, Intents
  <2>2. ASSUME NEW i \in Intents
        PROVE  /\ row'[i].lamports = row[i].lamports
               /\ row'[i].status # row[i].status => i = task[x].id /\ row'[i].status # "none"
    BY <1>5, <1>t, <2>1 DEF MarkFailed, TypeOK, Row
  <2>3. QED BY <1>5, <1>v, <2>1, <2>2 DEF MarkFailed, Steady, Known, Intents
<1>6. ASSUME NEW x \in Tasks, CommitIntent(x) PROVE Steady
  <2>1. task[x].id \in Withdrawals /\ ~Known(task[x].id)
    BY <1>6 DEF CommitIntent, At, CInv, TaskInv, CommitInv
  <2>2. \A i \in Intents : Known(i) => row'[i] = row[i]
    BY <1>6, <1>t, <2>1 DEF CommitIntent, TypeOK, Known
  <2> DEFINE n == task[x].seen.reserved + task[x].amount
  <2>3. n \in Nat /\ Reserves(n)
    BY <1>6, <1>t, TaskParts DEF CommitIntent, Reserves
  <2>4. account'.version = account.version + 1
    BY <2>3, <1>t, AccountStep
  <2>5. QED BY <1>6, <1>v, <2>2, <2>4 DEF CommitIntent, Steady, Known
<1>7. ASSUME NEW x \in Tasks, CommitStake(x) \/ CommitRelease(x) PROVE Steady
  <2>1. PICK n \in Nat : Reserves(n)
    <3>1. CASE CommitStake(x)
      <4> DEFINE n == task[x].seen.reserved + task[x].amount
      <4>1. n \in Nat /\ Reserves(n)
        BY <3>1, <1>t, TaskParts DEF CommitStake, Reserves
      <4>2. QED BY <4>1
    <3>2. CASE CommitRelease(x)
      <4> DEFINE n == Less(task[x].seen.reserved, task[x].amount)
      <4>1. n \in Nat /\ Reserves(n)
        BY <3>2, <1>t, TaskParts DEF CommitRelease, Reserves, Less
      <4>2. QED BY <4>1
    <3>3. QED BY <1>7, <3>1, <3>2
  <2>2. account'.version = account.version + 1
    BY <2>1, <1>t, AccountStep
  <2>3. QED BY <1>7, <1>v, <2>2 DEF CommitStake, CommitRelease, Steady, Known
<1>8. ASSUME NEW x \in Tasks, postEntry(x) PROVE Steady
  <2> DEFINE a == task[x].amount
             k == task[x].id
  <2>1. k \in Intents /\ a \in Nat \ {0}
    BY <1>8, LamportsType DEF postEntry, At, CInv, TaskInv, ConfirmInv, Confirming
  <2>2. \A i \in Intents : posted[i] # 0 => posted'[i] # 0
    BY <1>8, <2>1, <1>t DEF postEntry, TypeOK
  <2>3. PICK n \in Nat : Pays(n)
    <3> DEFINE b == task[x].seen.balance
    <3>1. b \in Nat
      BY <1>t, TaskParts
    <3>2. CASE task[x].op = "deposit"
      <4>1. b + a \in Nat /\ Pays(b + a)
        BY <1>8, <2>1, <3>1, <3>2 DEF postEntry, Pays
      <4>2. QED BY <4>1
    <3>3. CASE task[x].op = "withdrawal"
      <4>1. b - a \in Nat /\ Pays(b - a)
        BY <1>8, <2>1, <3>1, <3>3 DEF postEntry, Pays, Insufficient
      <4>2. QED BY <4>1
    <3>4. QED BY <1>8, <3>2, <3>3 DEF postEntry
  <2>4. account'.version = account.version + 1
    BY <2>3, <1>t, AccountStep
  <2>5. QED BY <1>8, <1>v, <2>2, <2>4 DEF postEntry, Steady, Known
<1>9. ASSUME NEW x \in Tasks, releaseReservation(x) PROVE Steady
  <2>1. task[x].id \in Withdrawals
    BY <1>9 DEF releaseReservation, At, CInv, TaskInv, OpInv, ConfirmInv, ExpireInv, Confirming,
                Intents
  <2> DEFINE n == Less(task[x].seen.reserved, row[task[x].id].lamports)
  <2>2. n \in Nat /\ Frees(n)
    BY <1>9, <1>t, <2>1, TaskParts DEF releaseReservation, Frees, Less, Row, Intents
  <2>3. account'.version = account.version /\ account'.balance = account.balance
    BY <2>2, <1>t, AccountStep
  <2>4. freed' # {}
    BY <1>9 DEF releaseReservation
  <2>5. QED BY <1>9, <1>v, <2>3, <2>4 DEF releaseReservation, Steady, Known
<1>10. QED
  BY <1>1, <1>2, <1>3, <1>4, <1>5, <1>6, <1>7, <1>8, <1>9, <1>t, Kinds DEF WritesRow, WritesAccount

(* The moves of a task: to idle, to the first await of a transaction, on   *)
(* to the next row of an expiry, and from await to await in a confirmation.*)
LEMMA IdleInv ==
  ASSUME TypeOK, NEW x \in Tasks, Finish(x)
  PROVE  TaskInv(x)'
<1>1. task'[x] = Idle /\ Idle.pc = "idle"
  BY DEF TypeOK, Finish, Idle
<1>2. QED BY <1>1 DEF TaskInv, OpInv, ConfirmInv, ExpireInv, CommitInv

LEMMA ExpireNextInv ==
  ASSUME CInv, Steady, NEW x \in Tasks, NEW left \in SUBSET Withdrawals,
         \A w \in left : Known(w), ExpireNext(x, left)
  PROVE  TaskInv(x)'
<1>1. CASE left = {}
  BY <1>1, IdleInv DEF ExpireNext, CInv
<1>2. CASE left # {}
  <2>1. PICK w \in left :
          task' = [task EXCEPT ![x] = [Idle EXCEPT !.pc = "fail", !.op = "expire", !.id = w,
                                                   !.todo = left \ {w}]]
    BY <1>2 DEF ExpireNext
  <2>2. /\ task'[x].pc = "fail" /\ task'[x].op = "expire" /\ task'[x].id = w
        /\ task'[x].todo = left \ {w}
    BY <2>1 DEF CInv, TypeOK, Idle
  <2>3. \A v \in left : row'[v].status # "none"
    BY DEF Steady, Known, Intents
  <2>4. QED BY <2>2, <2>3 DEF TaskInv, OpInv, ConfirmInv, ExpireInv, CommitInv, Known, Confirming
<1>3. QED BY <1>1, <1>2

LEMMA BeginInv ==
  ASSUME TypeOK, NEW x \in Tasks, NEW op \in {"open", "stake", "unstake"},
         NEW id \in Withdrawals \cup Tiers, NEW a \in Nat, BeginTransaction(x, op, id, a),
         op = "open" => /\ id \in Withdrawals /\ ~Known(id)
                        /\ a >= MinLamports /\ spendable(account) >= a,
         op \in {"stake", "unstake"} => id \in Tiers /\ a = entryFeeLamports[id],
         op = "stake" => id \notin stakes /\ spendable(account) >= a,
         op = "unstake" => id \in stakes
  PROVE  TaskInv(x)'
<1>1. /\ task'[x].pc = "commit" /\ task'[x].op = op /\ task'[x].id = id
      /\ task'[x].amount = a /\ task'[x].seen = account
  BY DEF BeginTransaction, TypeOK, Idle
<1>2. account' = account /\ stakes' = stakes /\ row' = row /\ account.version \in Nat
  BY DEF BeginTransaction, books, TypeOK, Account
<1>3. QED BY <1>1, <1>2
          DEF TaskInv, OpInv, ConfirmInv, ExpireInv, CommitInv, Confirming, VersionHolds, Known

(* A confirmation that moves keeps its intent and its signature.           *)
LEMMA ConfirmingInv ==
  ASSUME CInv, Steady, NEW x \in Tasks, task[x].pc # "idle", task[x].op \in Confirming,
         task'[x].pc \notin {"idle", "commit"}, task'[x].op \in Confirming,
         task'[x].op = "deposit" <=> task[x].op = "deposit",
         task'[x].id = task[x].id, task'[x].sig = task[x].sig, OpInv(x)',
         task'[x].pc = "read" =>
           task[x].sig \in chain.landed /\ Verified(task[x].id, task[x].sig),
         Paying(x)' => Paying(x) \/ (task[x].sig \in chain.landed /\ posted'[task[x].id] # 0)
  PROVE  TaskInv(x)'
<1> DEFINE i == task[x].id
           s == task[x].sig
<1>1. /\ i \in Intents /\ s \in Signatures /\ Known(i)
      /\ task[x].op = "deposit" <=> i \in Deposits
      /\ Paying(x) => s \in chain.landed /\ posted[i] # 0
  BY DEF CInv, TaskInv, ConfirmInv
<1>2. row'[i].lamports = row[i].lamports /\ row'[i].status # "none"
  BY <1>1 DEF Steady
<1>3. Verified(i, s) => Verified(i, s)'
  BY <1>2 DEF Verified, verifyDeposit, verifyWithdrawal
<1>4. /\ s \in chain.landed => s \in chain'.landed
      /\ posted[i] # 0 => posted'[i] # 0
  BY <1>1 DEF Steady
<1>5. ConfirmInv(x)'
  BY <1>1, <1>2, <1>3, <1>4 DEF ConfirmInv, Known
<1>6. ExpireInv(x)' /\ CommitInv(x)'
  BY DEF ExpireInv, CommitInv, Confirming
<1>7. QED BY <1>5, <1>6 DEF TaskInv

(* Steps of one task.                                                      *)
Others(x) == \A y \in Tasks \ {x} : task'[y] = task[y]

LEMMA OneTask ==
  ASSUME CInv, TypeOK', Steady, NEW x \in Tasks, Others(x), TaskInv(x)'
  PROVE  \A y \in Tasks : TaskInv(y)'
BY TaskKeeps DEF Others

LEMMA GoMoves ==
  ASSUME TypeOK, NEW x \in Tasks, NEW pc, Go(x, pc)
  PROVE  /\ task'[x].pc = pc /\ task'[x].op = task[x].op /\ task'[x].id = task[x].id
         /\ task'[x].sig = task[x].sig /\ Others(x)
BY DEF TypeOK, Task, Go, Others

(* Every step of a task keeps its invariant, and so those of the others.   *)
LEMMA TaskStep ==
  ASSUME CInv, [Next]_vars, TypeOK', Steady
  PROVE  \A y \in Tasks : TaskInv(y)'
<1> USE DEF books, bounds, Local
<1> DEFINE Good == \A y \in Tasks : TaskInv(y)'
<1>t. TypeOK /\ \A x \in Tasks : OpInv(x) /\ ConfirmInv(x) /\ ExpireInv(x) /\ CommitInv(x)
  BY DEF CInv, TaskInv
<1>0. ASSUME UNCHANGED task PROVE Good
  BY <1>0, TaskKeeps
<1>f. ASSUME NEW x \in Tasks, Finish(x) PROVE Good
  BY <1>f, <1>t, IdleInv, OneTask DEF Finish, Others, TypeOK
<1>g. ASSUME NEW x \in Tasks, NEW pc \in PC \ {"idle", "commit"}, Go(x, pc),
             task[x].pc # "idle", task[x].op \in Confirming,
             pc \in {"row", "duplicate", "chain", "mark", "read"} =>
               task[x].op \in {"deposit", "withdrawal"},
             pc \in {"submit"} => task[x].op = "withdrawal",
             pc = "fail" => task[x].op \in {"deposit", "withdrawal"},
             pc \in {"free", "freed"} => task[x].op \in {"withdrawal", "refused"},
             pc = "read" => task[x].sig \in chain.landed /\ Verified(task[x].id, task[x].sig),
             pc = "mark" \/ (pc \in {"free", "freed"} /\ task[x].op = "withdrawal") =>
               Paying(x) \/ (task[x].sig \in chain.landed /\ posted'[task[x].id] # 0)
      PROVE  Good
  <2>1. /\ task'[x].pc = pc /\ task'[x].op = task[x].op /\ task'[x].id = task[x].id
        /\ task'[x].sig = task[x].sig /\ Others(x)
    BY <1>g, <1>t, GoMoves
  <2>2. OpInv(x)'
    BY <1>g, <2>1 DEF OpInv
  <2>3. Paying(x)' => Paying(x) \/ (task[x].sig \in chain.landed /\ posted'[task[x].id] # 0)
    BY <1>g, <2>1 DEF Paying
  <2>4. TaskInv(x)'
    BY <1>g, <2>1, <2>2, <2>3, ConfirmingInv
  <2>5. QED BY <2>1, <2>4, OneTask
<1>1. ASSUME NEW s \in Signatures, Land(s) PROVE Good
  BY <1>1, <1>0 DEF Land
<1>2. ASSUME NEW d \in Deposits, NEW a \in Amounts, createDepositIntent(d, a) PROVE Good
  BY <1>2, <1>0 DEF createDepositIntent
<1>3. ASSUME NEW x \in Tasks, NEW w \in Withdrawals, NEW a \in Amounts,
             createWithdrawalIntent(x, w, a)
      PROVE  Good
  <2>1. TaskInv(x)'
    BY <1>3, <1>t, BeginInv, CustodyAssumption DEF createWithdrawalIntent, Known
  <2>2. QED BY <1>3, <1>t, <2>1, OneTask
            DEF createWithdrawalIntent, BeginTransaction, Others, TypeOK
<1>4. ASSUME NEW x \in Tasks, NEW t \in Tiers, reserveEntryFee(x, t) PROVE Good
  <2>1. TaskInv(x)'
    BY <1>4, <1>t, BeginInv, CustodyAssumption DEF reserveEntryFee
  <2>2. QED BY <1>4, <1>t, <2>1, OneTask DEF reserveEntryFee, BeginTransaction, Others, TypeOK
<1>5. ASSUME NEW x \in Tasks, NEW t \in Tiers, releaseEntryFee(x, t) PROVE Good
  <2>1. TaskInv(x)'
    BY <1>5, <1>t, BeginInv, CustodyAssumption DEF releaseEntryFee
  <2>2. QED BY <1>5, <1>t, <2>1, OneTask DEF releaseEntryFee, BeginTransaction, Others, TypeOK
<1>6. ASSUME NEW x \in Tasks, NEW i \in Intents, NEW s \in Signatures, Confirm(x, i, s), Known(i)
      PROVE  Good
  <2>1. /\ task'[x].pc = "row" /\ task'[x].id = i /\ task'[x].sig = s
        /\ task'[x].op = IF i \in Deposits THEN "deposit" ELSE "withdrawal"
        /\ Others(x)
    BY <1>6, <1>t DEF Confirm, TypeOK, Idle, Others
  <2>2. row'[i].status # "none"
    BY <1>6 DEF Confirm, Known
  <2>3. TaskInv(x)'
    BY <2>1, <2>2 DEF TaskInv, OpInv, ConfirmInv, ExpireInv, CommitInv, Confirming, Paying, Known
  <2>4. QED BY <2>1, <2>3, OneTask
<1>7. ASSUME NEW x \in Tasks, NEW i \in Intents, Recover(x, i) PROVE Good
  <2>1. row[i].sig \in Signatures /\ Known(i)
    BY <1>7, <1>t DEF Recover, Unconfirmed, TypeOK, Row, Known
  <2>2. QED BY <1>7, <1>6, <2>1 DEF Recover
<1>8. ASSUME NEW x \in Tasks, NEW d \in Deposits, expireStaleDeposits(x, d) PROVE Good
  BY <1>8, <1>0 DEF expireStaleDeposits
<1>e. ASSUME NEW x \in Tasks, NEW left \in SUBSET Withdrawals, \A w \in left : Known(w),
             ExpireNext(x, left)
      PROVE  Good
  <2>1. TaskInv(x)'
    BY <1>e, ExpireNextInv
  <2>2. Others(x)
    BY <1>e, <1>t DEF ExpireNext, Finish, Others, TypeOK
  <2>3. QED BY <2>1, <2>2, OneTask
<1>9. ASSUME NEW x \in Tasks, expireStaleWithdrawals(x) PROVE Good
  <2>1. PICK old \in SUBSET Stale : ExpireNext(x, old)
    BY <1>9 DEF expireStaleWithdrawals
  <2>2. QED BY <2>1, <1>e DEF Stale, Known
<1>10. ASSUME NEW x \in Tasks, CallFails(x) PROVE Good
  BY <1>10, <1>f, <1>g DEF CallFails, PC, Paying, Confirming
<1>11. ASSUME NEW x \in Tasks, Crash(x) PROVE Good
  BY <1>11, <1>f DEF Crash
<1>12. ASSUME NEW i \in Intents, OrphanExpires(i) \/ LockLapses(i) PROVE Good
  BY <1>12, <1>0 DEF OrphanExpires, LockLapses
<1>13. ASSUME NEW x \in Tasks, Step(x) PROVE Good
  <2> DEFINE i == task[x].id
             s == task[x].sig
  <2>1. CASE CommitIntent(x) \/ CommitStake(x) \/ CommitRelease(x) \/ Unlock(x)
    BY <2>1, <1>f DEF CommitIntent, CommitStake, CommitRelease, Unlock
  <2>2. CASE ReadRow(x)
    BY <2>2, <1>g, <1>t DEF ReadRow, At, OpInv, Confirming, PC
  <2>3. CASE ReadDuplicate(x)
    BY <2>3, <1>g, <1>t DEF ReadDuplicate, At, OpInv, Confirming, PC
  <2>4. CASE getParsedTransaction(x)
    <3>1. task[x].pc = "chain" /\ task[x].op \in {"deposit", "withdrawal"}
      BY <2>4, <1>t DEF getParsedTransaction, At, OpInv
    <3>2. task[x].op = "deposit" <=> i \in Deposits
      BY <3>1, <1>t DEF ConfirmInv, Confirming
    <3>3. CASE s \in chain.landed /\ Verified(i, s)
      BY <2>4, <3>1, <3>3, <1>g DEF getParsedTransaction, Confirming, PC
    <3>4. CASE s \in chain.landed /\ ~Verified(i, s)
      BY <2>4, <3>1, <3>4, <1>g DEF getParsedTransaction, Confirming, PC
    <3>5. CASE s \notin chain.landed
      BY <2>4, <3>1, <3>2, <3>5, <1>g DEF getParsedTransaction, Confirming, PC
    <3>6. QED BY <3>3, <3>4, <3>5
  <2>5. CASE MarkSubmitted(x) \/ MarkConfirmed(x)
    BY <2>5, <1>g, <1>t DEF MarkSubmitted, MarkConfirmed, At, OpInv, Confirming, PC
  <2>6. CASE MarkFailed(x)
    <3>1. /\ task'[x].pc = (IF task[x].op = "deposit" THEN "release" ELSE "free")
          /\ task'[x].op = (IF task[x].op = "withdrawal" THEN "refused" ELSE task[x].op)
          /\ task'[x].id = i /\ task'[x].sig = s /\ task'[x].todo = task[x].todo /\ Others(x)
      BY <2>6, <1>t DEF MarkFailed, TypeOK, Task, Others
    <3>2. task[x].pc = "fail" /\ task[x].op \in {"deposit", "withdrawal", "expire"}
      BY <2>6, <1>t DEF MarkFailed, At, OpInv
    <3>3. OpInv(x)' /\ ~Paying(x)'
      BY <3>1, <3>2 DEF OpInv, Paying, Confirming
    <3>4. CASE task[x].op \in {"deposit", "withdrawal"}
      <4>1. TaskInv(x)'
        BY <3>1, <3>2, <3>3, <3>4, ConfirmingInv DEF Confirming
      <4>2. QED BY <3>1, <4>1, OneTask
    <3>5. CASE task[x].op = "expire"
      <4>1. i \in Withdrawals /\ Known(i) /\ \A w \in task[x].todo : w \in Withdrawals /\ Known(w)
        BY <3>2, <3>5, <1>t, TaskParts DEF ExpireInv
      <4>2. ExpireInv(x)'
        BY <3>1, <4>1 DEF ExpireInv, Steady, Known, Intents
      <4>3. TaskInv(x)'
        BY <3>1, <3>2, <3>3, <3>5, <4>2 DEF TaskInv, ConfirmInv, CommitInv, Confirming
      <4>4. QED BY <3>1, <4>3, OneTask
    <3>6. QED BY <3>2, <3>4, <3>5
  <2>7. CASE postEntryReads(x)
    <3>1. /\ task'[x].pc = "commit" /\ task'[x].op = task[x].op /\ task'[x].id = i
          /\ task'[x].sig = s /\ task'[x].seen = account /\ task'[x].amount = Lamports(i, s)
          /\ Others(x)
      BY <2>7, <1>t DEF postEntryReads, TypeOK, Task, Others
    <3>2. /\ task[x].op \in {"deposit", "withdrawal"} /\ i \in Intents /\ s \in Signatures
          /\ Known(i) /\ s \in chain.landed /\ Verified(i, s)
          /\ task[x].op = "deposit" <=> i \in Deposits
      BY <2>7, <1>t DEF postEntryReads, At, OpInv, ConfirmInv, Confirming
    <3>3. account' = account /\ row' = row /\ chain' = chain /\ account.version \in Nat
      BY <2>7, <1>t DEF postEntryReads, TypeOK, Account
    <3>4. Verified(i, s)' = Verified(i, s) /\ Lamports(i, s)' = Lamports(i, s)
      <4>1. Verified(i, s)' = Verified(i, s)
        BY <3>1, <3>3 DEF Verified
      <4>2. Lamports(i, s)' = Lamports(i, s)
        BY <3>1, <3>3 DEF Lamports
      <4>3. QED BY <4>1, <4>2
    <3>5. OpInv(x)' /\ ExpireInv(x)' /\ ~Paying(x)'
      BY <3>1, <3>2 DEF OpInv, ExpireInv, Paying, Confirming
    <3>6. ConfirmInv(x)'
      BY <3>1, <3>2, <3>3, <3>4, <3>5 DEF ConfirmInv, Known
    <3>7. CommitInv(x)'
      BY <3>1, <3>2, <3>3 DEF CommitInv, VersionHolds
    <3>8. TaskInv(x)'
      BY <3>5, <3>6, <3>7 DEF TaskInv
    <3>9. QED BY <3>1, <3>8, OneTask
  <2>8. CASE Rollback(x)
    BY <2>8, <1>f, <1>g DEF Rollback, At, Confirming, PC
  <2>9. CASE AlreadyPosted(x) \/ postEntry(x)
    <3>1. /\ task[x].pc = "commit" /\ task[x].op \in {"deposit", "withdrawal"}
          /\ Go(x, AfterPost(x))
      BY <2>9 DEF AlreadyPosted, postEntry, At
    <3>2. i \in Intents /\ s \in chain.landed
      BY <3>1, <1>t DEF ConfirmInv, Confirming
    <3>3. posted'[i] # 0
      <4>1. CASE AlreadyPosted(x)
        BY <4>1 DEF AlreadyPosted, Unposted
      <4>2. CASE postEntry(x)
        <5>1. task[x].amount # 0
          BY <3>1, <1>t, LamportsType DEF ConfirmInv, Confirming
        <5>2. QED BY <4>2, <5>1, <3>2, <1>t DEF postEntry, TypeOK
      <4>3. QED BY <2>9, <4>1, <4>2
    <3>4. QED BY <3>1, <3>2, <3>3, <1>g DEF AfterPost, Confirming, PC
  <2>10. CASE releaseReads(x)
    <3>1. /\ task'[x].pc = "freed" /\ task'[x].op = task[x].op /\ task'[x].id = i
          /\ task'[x].sig = s /\ task'[x].todo = task[x].todo /\ Others(x)
      BY <2>10, <1>t DEF releaseReads, TypeOK, Task, Others
    <3>2. task[x].pc = "free" /\ task[x].op \in {"withdrawal", "refused", "expire"}
      BY <2>10, <1>t DEF releaseReads, At, OpInv
    <3>3. OpInv(x)' /\ (Paying(x)' => Paying(x))
      BY <3>1, <3>2 DEF OpInv, Paying
    <3>4. CASE task[x].op \in {"withdrawal", "refused"}
      <4>1. TaskInv(x)'
        BY <3>1, <3>2, <3>3, <3>4, ConfirmingInv DEF Confirming
      <4>2. QED BY <3>1, <4>1, OneTask
    <3>5. CASE task[x].op = "expire"
      <4>1. ExpireInv(x)'
        BY <2>10, <3>1, <3>2, <3>5, <1>t DEF ExpireInv, Known, releaseReads
      <4>2. TaskInv(x)'
        BY <3>1, <3>2, <3>3, <3>5, <4>1 DEF TaskInv, ConfirmInv, CommitInv, Confirming
      <4>3. QED BY <3>1, <4>2, OneTask
    <3>6. QED BY <3>2, <3>4, <3>5
  <2>11. CASE releaseReservation(x)
    <3>1. task[x].pc = "freed" /\ task[x].op \in {"withdrawal", "refused", "expire"}
      BY <2>11, <1>t DEF releaseReservation, At, OpInv
    <3>2. CASE task[x].op = "withdrawal"
      BY <2>11, <3>1, <3>2, <1>g DEF releaseReservation, Paying, Confirming, PC
    <3>3. CASE task[x].op = "refused"
      BY <2>11, <3>1, <3>3, <1>g DEF releaseReservation, Confirming, PC
    <3>4. CASE task[x].op = "expire"
      <4>1. task[x].todo \in SUBSET Withdrawals /\ \A w \in task[x].todo : Known(w)
        BY <3>1, <3>4, <1>t, TaskParts DEF ExpireInv
      <4>2. QED BY <2>11, <3>4, <4>1, <1>e DEF releaseReservation
    <3>5. QED BY <3>1, <3>2, <3>3, <3>4
  <2>12. CASE CompareToken(x)
    BY <2>12, <1>f, <1>g, <1>t DEF CompareToken, At, OpInv, PC
  <2>13. QED BY <1>13, <2>1, <2>2, <2>3, <2>4, <2>5, <2>6, <2>7, <2>8, <2>9, <2>10, <2>11, <2>12
             DEF Step
<1>14. CASE UNCHANGED vars
  BY <1>14, <1>0 DEF vars
<1>15. QED
  BY <1>1, <1>2, <1>3, <1>4, <1>6, <1>5, <1>7, <1>8, <1>9, <1>10, <1>11, <1>12, <1>13, <1>14
     DEF Next, Client, Reconciler, Tasks, ClientConfirms, Known

(***************************************************************************)
(* The books.                                                              *)
(***************************************************************************)

FeesOf == [w \in Withdrawals |-> fee(posted[w])]
StakesHeld == [t \in stakes |-> entryFeeLamports[t]]
Asked == [w \in Withdrawals |-> row[w].lamports]

LEMMA BooksType ==
  ASSUME TypeOK
  PROVE  /\ IsFiniteSet(Deposits) /\ IsFiniteSet(Withdrawals) /\ IsFiniteSet(stakes)
         /\ [i \in Deposits |-> posted[i]] \in [Deposits -> Nat]
         /\ [i \in Withdrawals |-> posted[i]] \in [Withdrawals -> Nat]
         /\ FeesOf \in [Withdrawals -> Nat]
         /\ StakesHeld \in [stakes -> Nat]
         /\ Asked \in [Withdrawals -> Nat]
         /\ Posted(Deposits) \in Nat /\ Posted(Withdrawals) \in Nat
         /\ Total(FeesOf) \in Nat /\ Total(StakesHeld) \in Nat /\ Total(Asked) \in Nat
<1>1. IsFiniteSet(Deposits) /\ IsFiniteSet(Withdrawals) /\ IsFiniteSet(stakes)
  BY CustodyAssumption, FS_Subset DEF TypeOK, Intents
<1>2. /\ [i \in Deposits |-> posted[i]] \in [Deposits -> Nat]
      /\ [i \in Withdrawals |-> posted[i]] \in [Withdrawals -> Nat]
  BY DEF TypeOK, Intents
<1>3. FeesOf \in [Withdrawals -> Nat]
  <2>1. \A w \in Withdrawals : fee(posted[w]) \in Nat
    BY FeeType DEF TypeOK, Intents
  <2>2. QED BY <2>1 DEF FeesOf
<1>4. StakesHeld \in [stakes -> Nat]
  BY CustodyAssumption DEF StakesHeld, TypeOK
<1>5. Asked \in [Withdrawals -> Nat]
  BY DEF Asked, TypeOK, Row, Intents
<1>6. Posted(Deposits) \in Nat /\ Posted(Withdrawals) \in Nat
  BY <1>1, <1>2, TotalType DEF Posted
<1>7. Total(FeesOf) \in Nat /\ Total(StakesHeld) \in Nat /\ Total(Asked) \in Nat
  BY <1>1, <1>3, <1>4, <1>5, TotalType
<1>8. QED BY <1>1, <1>2, <1>3, <1>4, <1>5, <1>6, <1>7

(* Nothing is given back yet: all that withdrawals asked is spoken for.    *)
LEMMA CommittedParts ==
  /\ freed = {} => Committed = Total(StakesHeld) + Total(Asked)
  /\ freed' = {} => Committed' = Total(StakesHeld') + Total(Asked')
<1>1. \A S : S \ {} = S
  OBVIOUS
<1>2. QED BY <1>1 DEF Committed, StakesHeld, Asked

(* One more entry.                                                         *)
LEMMA PostedMore ==
  ASSUME TypeOK, TypeOK', NEW k \in Intents, posted[k] = 0,
         posted' = [posted EXCEPT ![k] = posted'[k]]
  PROVE  /\ k \in Deposits => /\ Posted(Deposits)' = Posted(Deposits) + posted'[k]
                             /\ Posted(Withdrawals)' = Posted(Withdrawals)
                             /\ Total(FeesOf') = Total(FeesOf)
         /\ k \in Withdrawals => /\ Posted(Deposits)' = Posted(Deposits)
                                /\ Posted(Withdrawals)' = Posted(Withdrawals) + posted'[k]
                                /\ Total(FeesOf') = Total(FeesOf) + fee(posted'[k])
<1> DEFINE a == posted'[k]
<1>1. /\ a \in Nat /\ fee(a) \in Nat /\ fee(posted[k]) = 0
      /\ \A i \in Intents \ {k} : posted'[i] = posted[i]
  BY FeeType DEF TypeOK
<1>2. CASE k \in Deposits
  <2>1. \A w \in Withdrawals : posted'[w] = posted[w]
    BY <1>1, <1>2, CustodyAssumption DEF Intents
  <2>2. Posted(Withdrawals)' = Posted(Withdrawals) /\ FeesOf' = FeesOf
    <3>1. [i \in Withdrawals |-> posted'[i]] = [i \in Withdrawals |-> posted[i]]
      BY <2>1
    <3>2. FeesOf' = FeesOf
      BY <2>1 DEF FeesOf
    <3>3. QED BY <3>1, <3>2 DEF Posted
  <2>3. Posted(Deposits)' = Posted(Deposits) + a
    <3> DEFINE f == [i \in Deposits |-> posted[i]]
               g == [i \in Deposits |-> posted'[i]]
    <3>1. f \in [Deposits -> Nat] /\ g \in [Deposits -> Nat] /\ IsFiniteSet(Deposits)
      BY BooksType DEF TypeOK, Intents
    <3>2. g[k] = f[k] + a /\ \A i \in Deposits \ {k} : g[i] = f[i]
      BY <1>1, <1>2 DEF Intents
    <3> HIDE DEF f, g
    <3>3. Total(g) = Total(f) + a
      BY <3>1, <3>2, <1>1, <1>2, TotalMore
    <3>4. QED BY <3>3 DEF f, g, Posted
  <2>4. QED BY <1>2, <2>2, <2>3, CustodyAssumption
<1>3. CASE k \in Withdrawals
  <2>1. Posted(Deposits)' = Posted(Deposits)
    <3>1. [i \in Deposits |-> posted'[i]] = [i \in Deposits |-> posted[i]]
      BY <1>1, <1>3, CustodyAssumption DEF Intents
    <3>2. QED BY <3>1 DEF Posted
  <2>2. Posted(Withdrawals)' = Posted(Withdrawals) + a
    <3> DEFINE f == [i \in Withdrawals |-> posted[i]]
               g == [i \in Withdrawals |-> posted'[i]]
    <3>1. f \in [Withdrawals -> Nat] /\ g \in [Withdrawals -> Nat] /\ IsFiniteSet(Withdrawals)
      BY BooksType DEF TypeOK, Intents
    <3>2. g[k] = f[k] + a /\ \A i \in Withdrawals \ {k} : g[i] = f[i]
      BY <1>1, <1>3 DEF Intents
    <3> HIDE DEF f, g
    <3>3. Total(g) = Total(f) + a
      BY <3>1, <3>2, <1>1, <1>3, TotalMore
    <3>4. QED BY <3>3 DEF f, g, Posted
  <2>3. Total(FeesOf') = Total(FeesOf) + fee(a)
    <3>1. FeesOf \in [Withdrawals -> Nat] /\ IsFiniteSet(Withdrawals)
      BY BooksType
    <3>2. FeesOf' \in [Withdrawals -> Nat]
      <4>1. \A w \in Withdrawals : fee(posted'[w]) \in Nat
        BY FeeType DEF TypeOK, Intents
      <4>2. QED BY <4>1 DEF FeesOf
    <3>3. FeesOf'[k] = FeesOf[k] + fee(a) /\ \A w \in Withdrawals \ {k} : FeesOf'[w] = FeesOf[w]
      BY <1>1, <1>3 DEF FeesOf, Intents
    <3>4. QED BY <3>1, <3>2, <3>3, <1>1, <1>3, TotalMore
  <2>4. QED BY <1>3, <2>1, <2>2, <2>3, CustodyAssumption
<1>4. QED BY <1>2, <1>3 DEF Intents

(* An entry moves the account, the external pool and the treasury as its   *)
(* legs say.                                                               *)
LEMMA PostEntryMoves ==
  ASSUME CInv, NEW x \in Tasks, postEntry(x)
  PROVE  LET k == task[x].id
             a == task[x].amount
         IN /\ k \in Intents /\ a \in Nat \ {0} /\ posted[k] = 0
            /\ posted' = [posted EXCEPT ![k] = a] /\ posted'[k] = a
            /\ account'.reserved = account.reserved
            /\ k \in Deposits => /\ account'.balance = account.balance + a
                                /\ external' = external - a /\ treasury' = treasury
            /\ k \in Withdrawals => /\ account'.balance = account.balance - a
                                   /\ external' = external + a - fee(a)
                                   /\ treasury' = treasury + fee(a)
<1> DEFINE k == task[x].id
           a == task[x].amount
<1>1. /\ k \in Intents /\ task[x].op \in {"deposit", "withdrawal"}
      /\ task[x].op = "deposit" <=> k \in Deposits
      /\ task[x].seen.balance = account.balance
  BY DEF postEntry, At, CInv, TaskInv, ConfirmInv, CommitInv, Confirming
<1>2. a \in Nat \ {0}
  BY LamportsType DEF postEntry, At, CInv, TaskInv, ConfirmInv, Confirming
<1>3. TypeOK /\ account.balance \in Nat
  BY DEF CInv, TypeOK, Account
<1>4. CASE task[x].op = "deposit"
  <2>1. account.balance + a \in Nat /\ Pays(account.balance + a)
    BY <1>1, <1>2, <1>3, <1>4 DEF postEntry, Pays
  <2>2. account'.balance = account.balance + a /\ account'.reserved = account.reserved
    BY <2>1, <1>3, AccountStep
  <2>3. QED BY <2>2, <1>1, <1>2, <1>3, <1>4, CustodyAssumption DEF postEntry, Unposted, TypeOK
<1>5. CASE task[x].op = "withdrawal"
  <2>1. account.balance - a \in Nat /\ Pays(account.balance - a)
    BY <1>1, <1>2, <1>3, <1>5 DEF postEntry, Pays, Insufficient
  <2>2. account'.balance = account.balance - a /\ account'.reserved = account.reserved
    BY <2>1, <1>3, AccountStep
  <2>3. QED BY <2>2, <1>1, <1>2, <1>3, <1>5, CustodyAssumption
            DEF postEntry, Unposted, TypeOK, Intents
<1>6. QED BY <1>1, <1>4, <1>5

LEMMA BooksStep ==
  ASSUME CInv, [Next]_vars, TypeOK', Steady
  PROVE  BooksMatchLegs'
<1> USE DEF books
<1>t. TypeOK /\ BooksMatchLegs
  BY DEF CInv
<1>0. ASSUME UNCHANGED <<external, treasury, posted>>, account'.balance = account.balance
      PROVE  BooksMatchLegs'
  BY <1>0, <1>t DEF BooksMatchLegs, Posted
<1>1. CASE Quiet
  BY <1>1, <1>0 DEF Quiet
<1>2. CASE WritesRow
  BY <1>2, <1>0 DEF WritesRow, createDepositIntent, expireStaleDeposits, MarkSubmitted, MarkFailed,
                    MarkConfirmed
<1>3. ASSUME NEW x \in Tasks, CommitIntent(x) \/ CommitStake(x) \/ CommitRelease(x)
      PROVE  BooksMatchLegs'
  <2>1. account'.balance = account.balance
    BY <1>3, <1>t DEF CommitIntent, CommitStake, CommitRelease, TypeOK, Account
  <2>2. QED BY <1>3, <2>1, <1>0 DEF CommitIntent, CommitStake, CommitRelease
<1>4. ASSUME NEW x \in Tasks, releaseReservation(x) PROVE BooksMatchLegs'
  <2>1. account'.balance = account.balance
    BY <1>4, <1>t DEF releaseReservation, TypeOK, Account
  <2>2. QED BY <1>4, <2>1, <1>0 DEF releaseReservation
<1>5. ASSUME NEW x \in Tasks, postEntry(x) PROVE BooksMatchLegs'
  <2> DEFINE k == task[x].id
             a == task[x].amount
  <2>1. /\ k \in Intents /\ a \in Nat /\ posted[k] = 0
        /\ posted' = [posted EXCEPT ![k] = a] /\ posted'[k] = a
        /\ k \in Deposits => /\ account'.balance = account.balance + a
                            /\ external' = external - a /\ treasury' = treasury
        /\ k \in Withdrawals => /\ account'.balance = account.balance - a
                               /\ external' = external + a - fee(a)
                               /\ treasury' = treasury + fee(a)
    BY <1>5, PostEntryMoves
  <2>2. /\ account.balance \in Nat /\ external \in Int /\ treasury \in Nat /\ fee(a) \in Nat
        /\ Posted(Deposits) \in Nat /\ Posted(Withdrawals) \in Nat /\ Total(FeesOf) \in Nat
    BY <1>t, <2>1, BooksType, FeeType DEF TypeOK, Account
  <2>3. /\ k \in Deposits => /\ Posted(Deposits)' = Posted(Deposits) + a
                            /\ Posted(Withdrawals)' = Posted(Withdrawals)
                            /\ Total(FeesOf') = Total(FeesOf)
        /\ k \in Withdrawals => /\ Posted(Deposits)' = Posted(Deposits)
                               /\ Posted(Withdrawals)' = Posted(Withdrawals) + a
                               /\ Total(FeesOf') = Total(FeesOf) + fee(a)
    BY <1>t, <2>1, PostedMore
  <2>4. /\ account.balance = Opening + Posted(Deposits) - Posted(Withdrawals)
        /\ account.balance + external + treasury = Opening
        /\ treasury = Total(FeesOf)
    BY <1>t DEF BooksMatchLegs, FeesOf
  <2> HIDE DEF k, a
  <2>5. /\ account'.balance = Opening + Posted(Deposits)' - Posted(Withdrawals)'
        /\ account'.balance + external' + treasury' = Opening
        /\ treasury' = Total(FeesOf')
    BY <2>1, <2>2, <2>3, <2>4, CustodyAssumption DEF Intents
  <2>6. QED BY <2>5 DEF BooksMatchLegs, FeesOf
<1>6. QED BY <1>1, <1>2, <1>3, <1>4, <1>5, <1>t, Kinds DEF WritesAccount

LEMMA ReservedStep ==
  ASSUME CInv, [Next]_vars, TypeOK', Steady
  PROVE  ReservedIsCommitted'
<1> USE DEF books
<1> SUFFICES ASSUME freed' = {} PROVE account'.reserved = Committed'
                                      /\ Committed' - Posted(Withdrawals)' <= account'.balance
  BY DEF ReservedIsCommitted
<1> DEFINE staked == Total(StakesHeld)
           asked == Total(Asked)
           paid == Posted(Withdrawals)
<1>t. TypeOK /\ \A i \in Intents : row[i] \in Row /\ RowInv(i)
  BY DEF CInv, TypeOK
<1>n. /\ account.balance \in Nat /\ account.reserved \in Nat
      /\ staked \in Nat /\ asked \in Nat /\ paid \in Nat
  BY <1>t, BooksType DEF TypeOK, Account
<1>r. freed = {} => account.reserved = staked + asked /\ staked + asked - paid <= account.balance
  <2>1. SUFFICES ASSUME freed = {}
                 PROVE  account.reserved = staked + asked /\ staked + asked - paid <= account.balance
    OBVIOUS
  <2>2. account.reserved = Committed /\ Committed - paid <= account.balance
    BY <2>1 DEF CInv, ReservedIsCommitted
  <2>3. Committed = staked + asked
    BY <2>1, CommittedParts
  <2> HIDE DEF staked, asked, paid
  <2>4. QED BY <2>2, <2>3, <1>n
<1>c. Committed' = Total(StakesHeld') + Total(Asked')
  BY CommittedParts
<1>0. ASSUME freed = {}, stakes' = stakes, posted' = posted,
             account'.balance = account.balance, account'.reserved = account.reserved,
             \A w \in Withdrawals : row'[w].lamports = row[w].lamports
      PROVE  account'.reserved = Committed' /\ Committed' - paid' <= account'.balance
  <2>1. StakesHeld' = StakesHeld /\ Asked' = Asked /\ paid' = paid
    BY <1>0 DEF StakesHeld, Asked, Posted
  <2>2. Committed' = staked + asked
    BY <2>1, <1>c
  <2>3. account.reserved = staked + asked /\ staked + asked - paid <= account.balance
    BY <1>0, <1>r
  <2> HIDE DEF staked, asked, paid
  <2>4. QED BY <2>1, <2>2, <2>3, <1>0, <1>n
<1>1. CASE Quiet
  BY <1>1, <1>0 DEF Quiet
<1>2. CASE WritesRow
  <2>1. \A w \in Withdrawals : row'[w].lamports = row[w].lamports
    <3>1. ASSUME NEW x \in Tasks, MarkSubmitted(x) \/ MarkFailed(x) \/ MarkConfirmed(x),
                 NEW w \in Withdrawals
          PROVE  row'[w].lamports = row[w].lamports
      BY <3>1, <1>t DEF MarkSubmitted, MarkFailed, MarkConfirmed, Update, TypeOK, Row, Intents
    <3>2. ASSUME NEW d \in Deposits, row'[d] # row[d], \A i \in Intents \ {d} : row'[i] = row[i]
          PROVE  \A w \in Withdrawals : row'[w].lamports = row[w].lamports
      BY <3>2, CustodyAssumption DEF Intents
    <3>3. ASSUME NEW d \in Deposits, NEW a \in Amounts, createDepositIntent(d, a)
          PROVE  \A w \in Withdrawals : row'[w].lamports = row[w].lamports
      BY <3>3, <3>2, <1>t DEF createDepositIntent, TypeOK
    <3>4. ASSUME NEW x \in Tasks, NEW d \in Deposits, expireStaleDeposits(x, d)
          PROVE  \A w \in Withdrawals : row'[w].lamports = row[w].lamports
      BY <3>4, <3>2, <1>t DEF expireStaleDeposits, TypeOK
    <3>5. QED BY <1>2, <3>1, <3>3, <3>4 DEF WritesRow
  <2>2. UNCHANGED <<account, external, treasury, posted, freed, stakes>>
    BY <1>2 DEF WritesRow, createDepositIntent, expireStaleDeposits, MarkSubmitted, MarkFailed,
                MarkConfirmed
  <2>3. QED BY <2>1, <2>2, <1>0
<1>3. ASSUME NEW x \in Tasks, CommitIntent(x)
      PROVE  account'.reserved = Committed' /\ Committed' - paid' <= account'.balance
  <2> DEFINE w == task[x].id
             a == task[x].amount
  <2>1. /\ freed = {} /\ UNCHANGED <<posted, stakes>>
        /\ w \in Withdrawals /\ a \in Nat /\ a >= MinLamports
        /\ ~Known(w) /\ spendable(account) >= a /\ task[x].seen.reserved = account.reserved
    BY <1>3, <1>t, TaskParts DEF CommitIntent, At, CInv, TaskInv, CommitInv
  <2>2. account.reserved + a \in Nat /\ Reserves(account.reserved + a)
    BY <1>3, <2>1, <1>n DEF CommitIntent, Reserves
  <2>3. account'.reserved = account.reserved + a /\ account'.balance = account.balance
    BY <2>2, <1>t, AccountStep
  <2>4. account.reserved + a <= account.balance
    BY <2>1, <1>n, CustodyAssumption DEF spendable
  <2>5. row[w].lamports = 0
    BY <2>1, <1>t DEF RowInv, Row, Intents
  <2>6. Total(Asked') = asked + a
    <3>1. /\ Asked \in [Withdrawals -> Nat] /\ Asked' \in [Withdrawals -> Nat]
          /\ IsFiniteSet(Withdrawals)
      BY <1>t, BooksType DEF Asked, TypeOK, Row, Intents
    <3>2. row'[w].lamports = a /\ \A v \in Withdrawals \ {w} : row'[v] = row[v]
      BY <1>3, <2>1, <1>t DEF CommitIntent, TypeOK, Intents
    <3>3. Asked'[w] = Asked[w] + a /\ \A v \in Withdrawals \ {w} : Asked'[v] = Asked[v]
      BY <2>1, <2>5, <3>2 DEF Asked
    <3>4. QED BY <3>1, <3>3, <2>1, TotalMore
  <2>7. Total(StakesHeld') = staked /\ paid' = paid
    BY <2>1 DEF StakesHeld, Posted
  <2> HIDE DEF w, a, staked, asked, paid
  <2>8. QED BY <2>1, <2>3, <2>4, <2>6, <2>7, <1>n, <1>r, <1>c
<1>4. ASSUME NEW x \in Tasks, CommitStake(x)
      PROVE  account'.reserved = Committed' /\ Committed' - paid' <= account'.balance
  <2> DEFINE t == task[x].id
             a == task[x].amount
  <2>1. /\ freed = {} /\ UNCHANGED <<posted, row>> /\ stakes' = stakes \cup {t}
        /\ t \in Tiers /\ t \notin stakes /\ a = entryFeeLamports[t] /\ a \in Nat \ {0}
        /\ spendable(account) >= a /\ task[x].seen.reserved = account.reserved
    BY <1>4, CustodyAssumption DEF CommitStake, At, CInv, TaskInv, CommitInv
  <2>2. account.reserved + a \in Nat /\ Reserves(account.reserved + a)
    BY <1>4, <2>1, <1>n DEF CommitStake, Reserves
  <2>3. account'.reserved = account.reserved + a /\ account'.balance = account.balance
    BY <2>2, <1>t, AccountStep
  <2>4. account.reserved + a <= account.balance
    BY <2>1, <1>n DEF spendable
  <2>5. Total(StakesHeld') = staked + a
    <3>1. /\ StakesHeld \in [stakes -> Nat] /\ IsFiniteSet(stakes)
          /\ StakesHeld' \in [stakes \cup {t} -> Nat]
          /\ StakesHeld'[t] = a /\ \A u \in stakes : StakesHeld'[u] = StakesHeld[u]
      BY <1>t, <2>1, BooksType, CustodyAssumption DEF StakesHeld, TypeOK
    <3>2. Total(StakesHeld') = Total(StakesHeld) + StakesHeld'[t]
      BY <2>1, <3>1, TotalInsert
    <3>3. QED BY <3>1, <3>2
  <2>6. Total(Asked') = asked /\ paid' = paid
    BY <2>1 DEF Asked, Posted
  <2> HIDE DEF t, a, staked, asked, paid
  <2>7. QED BY <2>1, <2>3, <2>4, <2>5, <2>6, <1>n, <1>r, <1>c
<1>5. ASSUME NEW x \in Tasks, CommitRelease(x)
      PROVE  account'.reserved = Committed' /\ Committed' - paid' <= account'.balance
  <2> DEFINE t == task[x].id
             a == task[x].amount
             rest == Total(StakesHeld')
  <2>1. /\ freed = {} /\ UNCHANGED <<posted, row>> /\ stakes' = stakes \ {t}
        /\ t \in Tiers /\ t \in stakes /\ a = entryFeeLamports[t] /\ a \in Nat \ {0}
        /\ task[x].seen.reserved = account.reserved
    BY <1>5, CustodyAssumption DEF CommitRelease, At, CInv, TaskInv, CommitInv
  <2>2. staked = rest + a /\ rest \in Nat
    <3> DEFINE S == stakes \ {t}
    <3>1. /\ StakesHeld \in [stakes -> Nat] /\ IsFiniteSet(S) /\ t \notin S
          /\ S \cup {t} = stakes
      BY <1>t, <2>1, BooksType, FS_Subset
    <3>2. /\ StakesHeld' \in [S -> Nat] /\ StakesHeld[t] = a
          /\ \A u \in S : StakesHeld[u] = StakesHeld'[u]
      BY <1>t, <2>1, CustodyAssumption DEF StakesHeld, TypeOK
    <3> HIDE DEF S
    <3>3. StakesHeld \in [S \cup {t} -> Nat]
      BY <3>1
    <3>4. Total(StakesHeld) = Total(StakesHeld') + StakesHeld[t]
      <4> DEFINE f == StakesHeld'
                 g == StakesHeld
      <4>1. f \in [S -> Nat] /\ g \in [S \cup {t} -> Nat] /\ \A u \in S : g[u] = f[u]
        BY <3>2, <3>3
      <4> HIDE DEF f, g
      <4>2. Total(g) = Total(f) + g[t]
        BY ONLY <3>1, <4>1, TotalInsert
      <4>3. QED BY <4>2 DEF f, g
    <3>5. Total(StakesHeld') \in Nat
      BY <3>1, <3>2, TotalType
    <3>6. QED BY <3>2, <3>4, <3>5
  <2>3. Total(Asked') = asked /\ paid' = paid
    BY <2>1 DEF Asked, Posted
  <2>4. Less(account.reserved, a) = rest + asked
    BY <2>1, <2>2, <1>n, <1>r DEF Less
  <2>5. rest + asked \in Nat /\ Reserves(rest + asked)
    BY <1>5, <2>1, <2>2, <2>4, <1>n DEF CommitRelease, Reserves
  <2>6. account'.reserved = rest + asked /\ account'.balance = account.balance
    BY <2>5, <1>t, AccountStep
  <2> HIDE DEF t, a, staked, asked, paid, rest
  <2>7. rest + asked - paid <= account.balance
    BY <2>1, <2>2, <1>n, <1>r
  <2>8. Committed' = rest + asked
    BY <2>3, <1>c DEF rest
  <2>9. rest \in Nat /\ asked \in Nat /\ paid \in Nat /\ account.balance \in Nat
    BY <2>2, <1>n
  <2>10. QED BY <2>3, <2>6, <2>7, <2>8, <2>9
<1>6. ASSUME NEW x \in Tasks, postEntry(x)
      PROVE  account'.reserved = Committed' /\ Committed' - paid' <= account'.balance
  <2> DEFINE k == task[x].id
             a == task[x].amount
  <2>1. /\ k \in Intents /\ a \in Nat /\ posted[k] = 0
        /\ posted' = [posted EXCEPT ![k] = a] /\ posted'[k] = a
        /\ account'.reserved = account.reserved
        /\ k \in Deposits => account'.balance = account.balance + a
        /\ k \in Withdrawals => account'.balance = account.balance - a
    BY <1>6, PostEntryMoves
  <2>2. freed = {} /\ UNCHANGED <<row, stakes>>
    BY <1>6 DEF postEntry
  <2>3. Total(StakesHeld') = staked /\ Total(Asked') = asked
    BY <2>2 DEF StakesHeld, Asked
  <2>4. /\ k \in Deposits => paid' = paid
        /\ k \in Withdrawals => paid' = paid + a
    BY <1>t, <2>1, PostedMore
  <2> HIDE DEF k, a, staked, asked, paid
  <2>5. QED BY <2>1, <2>2, <2>3, <2>4, <1>n, <1>r, <1>c DEF Intents
<1>7. ASSUME NEW x \in Tasks, releaseReservation(x) PROVE FALSE
  BY <1>7 DEF releaseReservation
<1>8. QED BY <1>1, <1>2, <1>3, <1>4, <1>5, <1>6, <1>7, <1>t, Kinds DEF WritesAccount

(***************************************************************************)
(* The invariant holds at the start, and its parts give CustodyInv.        *)
(***************************************************************************)

LEMMA CInvInit ==
  ASSUME Init
  PROVE  CInv
<1>1. PICK D \in SUBSET Deposits, a \in { b \in Amounts : b >= MinLamports } :
        row = [i \in Intents |-> IF i \in D THEN [status |-> "PENDING", lamports |-> a, sig |-> None]
                                 ELSE [status |-> "none", lamports |-> 0, sig |-> None]]
  BY DEF Init
<1>2. /\ a \in Nat \ {0}
      /\ [status |-> "PENDING", lamports |-> a, sig |-> None] \in Row
      /\ [status |-> "none", lamports |-> 0, sig |-> None] \in Row
  BY CustodyAssumption DEF Row, DepositStatus
<1>3. row \in [Intents -> Row]
  BY <1>1, <1>2
<1>4. /\ \A d \in Deposits : row[d].status \in DepositStatus \cup {"none"}
      /\ \A w \in Withdrawals : row[w].status = "none" /\ row[w].lamports = 0
  BY <1>1, CustodyAssumption DEF Intents, DepositStatus
<1>5. account \in Account /\ chain \in [landed : SUBSET Signatures, balance : Nat]
  BY CustodyAssumption DEF Init, Account
<1>6. /\ posted \in [Intents -> Nat] /\ lock \in [Intents -> Tasks \cup {None, Orphan}]
      /\ task \in [Tasks -> Task]
  BY IdleType DEF Init
<1>7. TypeOK
  BY <1>3, <1>4, <1>5, <1>6, CustodyAssumption DEF Init, TypeOK
<1>8. ASSUME NEW i \in Intents PROVE RowInv(i)
  BY <1>1, <1>2, <1>6 DEF RowInv, Known, Init, SameTable
<1>9. ASSUME NEW x \in Tasks PROVE TaskInv(x)
  BY DEF Init, Idle, TaskInv, OpInv, ConfirmInv, ExpireInv, CommitInv
<1>10. /\ Posted(Deposits) = 0 /\ Posted(Withdrawals) = 0
       /\ Total(FeesOf) = 0 /\ Total(StakesHeld) = 0 /\ Total(Asked) = 0
  <2>1. /\ [i \in Deposits |-> posted[i]] = [i \in Deposits |-> 0]
        /\ [i \in Withdrawals |-> posted[i]] = [i \in Withdrawals |-> 0]
    BY DEF Init, Intents
  <2>2. FeesOf = [w \in Withdrawals |-> 0]
    <3>1. \A w \in Withdrawals : fee(posted[w]) = 0
      BY FeeType DEF Init, Intents
    <3>2. QED BY <3>1 DEF FeesOf
  <2>3. StakesHeld = [t \in stakes |-> 0]
    BY DEF Init, StakesHeld
  <2>4. Asked = [w \in Withdrawals |-> 0]
    BY <1>4 DEF Asked
  <2>5. QED BY <2>1, <2>2, <2>3, <2>4, TotalZero DEF Posted
<1>11. BooksMatchLegs
  BY <1>10, CustodyAssumption DEF BooksMatchLegs, FeesOf, Init
<1>12. ReservedIsCommitted
  BY <1>10, CommittedParts, CustodyAssumption DEF ReservedIsCommitted, Init
<1>13. QED BY <1>7, <1>8, <1>9, <1>11, <1>12 DEF CInv

LEMMA CInvStep ==
  ASSUME CInv, [Next]_vars
  PROVE  CInv'
<1>1. TypeOK' /\ Steady
  BY TypeStep, StepIsSteady
<1>2. QED BY <1>1, RowStep, TaskStep, BooksStep, ReservedStep DEF CInv

LEMMA CInvMeans == CInv => CustodyInv
<1> SUFFICES ASSUME CInv PROVE CustodyInv
  OBVIOUS
<1>1. ConfirmedIsOnChain
  <2> SUFFICES ASSUME NEW i \in Intents, row[i].status = "CONFIRMED"
               PROVE  /\ row[i].sig \in chain.landed
                      /\ i \in Deposits => posted[i] >= row[i].lamports
                      /\ i \in Withdrawals => posted[i] = row[i].lamports
                      /\ \A j \in SameTable(i) \ {i} : row[j].sig # row[i].sig
    BY DEF ConfirmedIsOnChain
  <2>1. RowInv(i) /\ chain.landed \subseteq Signatures
    BY DEF CInv, TypeOK
  <2>2. row[i].sig # None
    BY <2>1, CustodyAssumption DEF RowInv
  <2>3. QED BY <2>1, <2>2 DEF RowInv
<1>2. QED BY <1>1 DEF CInv, CustodyInv

(* The books of one custody account, for any intents, amounts, fee tiers,  *)
(* tasks and transactions: accounts are what their posted entries add up   *)
(* to and no entry is posted twice, a confirmed row is backed by the chain *)
(* for what it asked, and until a reservation has been given back what is  *)
(* reserved is what stakes and withdrawals have spoken for - whichever     *)
(* requests meet, locks lapse and tasks die (postEntry, confirmDeposit,    *)
(* confirmWithdrawal, createWithdrawalIntent, reserveEntryFee,             *)
(* releaseEntryFee, releaseReservation, reconcileOnce).                    *)
THEOREM CustodyIsSafe == Spec => []CustodyInv
<1>1. Init => CInv
  BY CInvInit
<1>2. CInv /\ [Next]_vars => CInv'
  BY CInvStep
<1>3. CInv => CustodyInv
  BY CInvMeans
<1>4. QED BY <1>1, <1>2, <1>3, PTL DEF Spec

(***************************************************************************)
(* The adjustments of administrators (BackOffice).                         *)
(***************************************************************************)
Posting == [key : Corrections, delta : Deltas]

Call == [step : {"idle", "key", "read", "update", "commit"}, key : Corrections \cup {0},
         delta : Deltas \cup {0}, custody : Nat, treasury : Int, seen : Nat,
         answer : {"none", "applied", "alreadyApplied", "refused"}]

Held == [custody : Nat, version : Nat, lockedBy : Admins \cup {0}, treasury : Int,
         treasuryVersion : Nat]

(* What a request knows: its key and amount, and, as long as the version   *)
(* it read is the current one, the balance it read; the custody account    *)
(* does not move under its lock.                                           *)
CallInv(a, c) ==
  /\ c.step # "idle" => c.key \in Corrections /\ c.delta \in Deltas
  /\ c.step = "update" =>
       /\ c.custody + c.delta >= 0 /\ c.seen <= held.version
       /\ c.seen = held.version => c.custody = held.custody
  /\ c.step = "commit" =>
       /\ held.lockedBy = a /\ c.custody = held.custody /\ c.custody + c.delta >= 0
       /\ c.seen <= held.treasuryVersion
       /\ c.seen = held.treasuryVersion => c.treasury = held.treasury
  /\ c.answer \in {"applied", "alreadyApplied"} => postedUnder(c.key)

OfficeInv ==
  /\ held \in Held
  /\ legs \in Seq(Posting)
  /\ entries \in [custody : Int, treasury : Int, count : Nat]
  /\ call \in [Admins -> Call]
  /\ \A a \in Admins : CallInv(a, call[a])
  /\ AdjustmentsBalance
  /\ \A i, j \in DOMAIN legs : legs[i].key = legs[j].key => i = j

LEMMA OfficeConstants ==
  /\ 0 \notin Admins /\ 0 \notin Corrections /\ OpeningBalance \in Nat
  /\ \A d \in Deltas : d \in Int
BY OfficeAssumption

(* A posting adds its amount to the sum.                                   *)
LEMMA SumAppend ==
  ASSUME NEW s \in Seq(Posting), NEW e \in Posting
  PROVE  sumOf(Append(s, e)) = sumOf(s) + e.delta /\ sumOf(s) \in Int
<1> DEFINE t == Append(s, e)
           n == Len(s)
           up == [i \in DOMAIN s |-> Above(s[i].delta)]
           down == [i \in DOMAIN s |-> Above(-s[i].delta)]
           upper == [i \in DOMAIN t |-> Above(t[i].delta)]
           downer == [i \in DOMAIN t |-> Above(-t[i].delta)]
<1>1. /\ n \in Nat /\ DOMAIN s = 1..n /\ DOMAIN t = 1..(n + 1)
      /\ t[n + 1] = e /\ \A i \in 1..n : t[i] = s[i] /\ s[i] \in Posting
  OBVIOUS
<1>2. \A i \in 1..(n + 1) : t[i] \in Posting
  OBVIOUS
<1>3. \A p \in Posting : Above(p.delta) \in Nat /\ Above(-p.delta) \in Nat
                         /\ Above(p.delta) - Above(-p.delta) = p.delta
  BY OfficeConstants DEF Posting, Above
<1>4. /\ up \in [1..n -> Nat] /\ upper \in [1..(n + 1) -> Nat]
      /\ \A i \in 1..n : upper[i] = up[i]
  BY SMTT(30), <1>1, <1>2, <1>3
<1>5. /\ down \in [1..n -> Nat] /\ downer \in [1..(n + 1) -> Nat]
      /\ \A i \in 1..n : downer[i] = down[i]
  BY <1>1, <1>2, <1>3
<1>6. sumOf(s) = Total(up) - Total(down) /\ sumOf(t) = Total(upper) - Total(downer)
  BY DEF sumOf
<1> DEFINE plus == Above(e.delta)
           minus == Above(-e.delta)
           most == upper[n + 1]
           least == downer[n + 1]
<1>7. most = plus /\ least = minus /\ n \in Nat
  BY <1>1
<1>8. plus \in Nat /\ minus \in Nat /\ plus - minus = e.delta
  BY <1>3
<1> HIDE DEF t, n, up, down, upper, downer
<1>9. Total(upper) = Total(up) + most /\ Total(up) \in Nat
  BY ONLY <1>4, <1>7, TotalAppend
<1>10. Total(downer) = Total(down) + least /\ Total(down) \in Nat
  BY ONLY <1>5, <1>7, TotalAppend
<1> HIDE DEF plus, minus, most, least
<1>11. sumOf(t) = sumOf(s) + (plus - minus) /\ sumOf(s) \in Int
  BY ONLY <1>6, <1>7, <1>8, <1>9, <1>10
<1>12. QED BY <1>8, <1>11 DEF t

LEMMA SumIsInt ==
  ASSUME NEW s \in Seq(Posting)
  PROVE  sumOf(s) \in Int
<1> DEFINE up == [i \in DOMAIN s |-> Above(s[i].delta)]
           down == [i \in DOMAIN s |-> Above(-s[i].delta)]
<1>1. \A p \in Posting : Above(p.delta) \in Nat /\ Above(-p.delta) \in Nat
  BY OfficeConstants DEF Posting, Above
<1>2. /\ up \in [DOMAIN s -> Nat] /\ down \in [DOMAIN s -> Nat]
      /\ DOMAIN s = 1..Len(s) /\ Len(s) \in Nat
  BY <1>1
<1>3. sumOf(s) = Total(up) - Total(down)
  BY DEF sumOf
<1> HIDE DEF up, down
<1>4. IsFiniteSet(DOMAIN s)
  <2>1. 1 \in Int /\ Len(s) \in Int
    BY <1>2
  <2>2. IsFiniteSet(1..Len(s))
    BY ONLY <2>1, FS_Interval
  <2>3. QED BY <1>2, <2>2
<1>5. Total(up) \in Nat /\ Total(down) \in Nat
  BY <1>2, <1>4, TotalType
<1>6. QED BY <1>3, <1>5

LEMMA NothingPosted == sumOf(<<>>) = 0
<1>1. [i \in DOMAIN <<>> |-> Above(<<>>[i].delta)] = [i \in {} |-> 0]
  OBVIOUS
<1>2. [i \in DOMAIN <<>> |-> Above(-<<>>[i].delta)] = [i \in {} |-> 0]
  OBVIOUS
<1>3. Total([i \in {} |-> 0]) = 0
  BY TotalZero
<1>4. QED BY <1>1, <1>2, <1>3 DEF sumOf

LEMMA OfficeParts ==
  ASSUME OfficeInv
  PROVE  /\ \A a \in Admins : CallInv(a, call[a]) /\ call[a] \in Call
         /\ held.custody \in Nat /\ held.version \in Nat /\ held.treasury \in Int
         /\ held.treasuryVersion \in Nat /\ held.lockedBy \in Admins \cup {0}
BY DEF OfficeInv, Held

LEMMA OfficeInitInv == OfficeInit => OfficeInv
<1> SUFFICES ASSUME OfficeInit PROVE OfficeInv
  OBVIOUS
<1>1. held \in Held /\ entries \in [custody : Int, treasury : Int, count : Nat]
  BY OfficeConstants DEF OfficeInit, Held
<1>2. NoRequest \in Call /\ NoRequest.step = "idle" /\ NoRequest.answer = "none"
  BY DEF NoRequest, Call
<1>3. call \in [Admins -> Call] /\ \A a \in Admins : call[a] = NoRequest
  BY <1>2 DEF OfficeInit
<1>4. \A a \in Admins : CallInv(a, call[a])
  BY <1>2, <1>3 DEF CallInv
<1>5. legs = <<>> /\ legs \in Seq(Posting)
  BY DEF OfficeInit
<1>6. sumOf(legs) = 0
  BY <1>5, NothingPosted
<1>7. AdjustmentsBalance
  BY <1>6, OfficeConstants DEF OfficeInit, AdjustmentsBalance
<1>8. \A i, j \in DOMAIN legs : legs[i].key = legs[j].key => i = j
  BY <1>5
<1>9. QED BY <1>1, <1>3, <1>4, <1>5, <1>7, <1>8 DEF OfficeInv

(* A request that moves alone need only know what it now says.             *)
LEMMA OneCall ==
  ASSUME OfficeInv, NEW a \in Admins, NEW c \in Call, CallInv(a, c),
         call' = [call EXCEPT ![a] = c], UNCHANGED <<held, legs, entries>>
  PROVE  OfficeInv'
<1>1. call \in [Admins -> Call]
  BY DEF OfficeInv
<1>2. /\ call' \in [Admins -> Call]
      /\ \A b \in Admins : call'[b] = IF b = a THEN c ELSE call[b]
  BY <1>1
<1>3. (\A b \in Admins : CallInv(b, call[b]))'
  <2> SUFFICES ASSUME NEW b \in Admins PROVE CallInv(b, call[b])'
    OBVIOUS
  <2> DEFINE d == call'[b]
  <2>1. CallInv(b, d)
    BY <1>2, OfficeParts
  <2>2. d = call'[b]
    OBVIOUS
  <2> HIDE DEF d
  <2>3. QED BY <2>1, <2>2 DEF CallInv, postedUnder
<1>4. AdjustmentsBalance'
  BY DEF OfficeInv, AdjustmentsBalance, sumOf
<1>5. (/\ held \in Held /\ legs \in Seq(Posting)
       /\ entries \in [custody : Int, treasury : Int, count : Nat]
       /\ \A i, j \in DOMAIN legs : legs[i].key = legs[j].key => i = j)'
  BY DEF OfficeInv, Held
<1>6. QED BY <1>2, <1>3, <1>4, <1>5 DEF OfficeInv

(* A call that is answered has nothing left to rely on.                    *)
LEMMA AnsweredCall ==
  ASSUME OfficeInv, NEW a, a \in Admins, NEW answer, answered(a, answer),
         answer \in {"applied", "alreadyApplied", "refused"}
  PROVE  \E c \in Call : /\ c.step = "idle" /\ c.key = call[a].key /\ c.answer = answer
                         /\ call' = [call EXCEPT ![a] = c]
<1> DEFINE k == call[a].key
           c == [NoRequest EXCEPT !.key = k, !.answer = answer]
<1>1. call' = [call EXCEPT ![a] = c]
  BY DEF answered
<1>2. k \in Corrections \cup {0}
  BY OfficeParts DEF Call
<1> HIDE DEF k
<1>3. NoRequest \in Call /\ NoRequest.step = "idle"
  BY DEF NoRequest, Call
<1>4. c \in Call /\ c.step = "idle" /\ c.key = k /\ c.answer = answer
  BY <1>2, <1>3 DEF Call
<1> HIDE DEF c
<1>5. QED BY <1>1, <1>4 DEF k

LEMMA OfficeAsks ==
  ASSUME OfficeInv, NEW a \in Admins, NEW k \in Corrections, NEW delta \in Deltas,
         requestAdjustment(a, k, delta)
  PROVE  OfficeInv'
<1> DEFINE c == [NoRequest EXCEPT !.step = "key", !.key = k, !.delta = delta]
<1>1. NoRequest \in Call /\ NoRequest.answer = "none"
  BY DEF NoRequest, Call
<1>2. /\ c \in Call /\ c.step = "key" /\ c.key \in Corrections /\ c.delta \in Deltas
      /\ c.answer = "none"
  BY <1>1 DEF Call
<1>3. call' = [call EXCEPT ![a] = c] /\ UNCHANGED <<held, legs, entries>>
  BY DEF requestAdjustment
<1> HIDE DEF c
<1>4. CallInv(a, c)
  BY <1>2 DEF CallInv
<1>5. QED BY <1>2, <1>3, <1>4, OneCall

(* An answer given while nothing else moves.                               *)
LEMMA OfficeAnswers ==
  ASSUME OfficeInv, NEW a, a \in Admins, NEW answer, answer \in {"alreadyApplied", "refused"},
         answered(a, answer), UNCHANGED <<held, legs, entries>>,
         answer = "alreadyApplied" => postedUnder(call[a].key)
  PROVE  OfficeInv'
<1>1. answer \in {"applied", "alreadyApplied", "refused"}
  OBVIOUS
<1>2. PICK c \in Call : /\ c.step = "idle" /\ c.key = call[a].key /\ c.answer = answer
                        /\ call' = [call EXCEPT ![a] = c]
  BY <1>1, AnsweredCall
<1>3. CallInv(a, c)
  BY <1>2 DEF CallInv
<1>4. c \in Call /\ a \in Admins /\ call' = [call EXCEPT ![a] = c]
      /\ UNCHANGED <<held, legs, entries>>
  BY <1>2
<1>5. QED BY ONLY OfficeInv, <1>3, <1>4, OneCall

LEMMA OfficeFinds ==
  ASSUME OfficeInv, NEW a \in Admins, findExisting(a)
  PROVE  OfficeInv'
<1> DEFINE c == [call[a] EXCEPT !.step = "read"]
<1>1. call[a].step = "key" /\ UNCHANGED <<held, legs, entries>>
  BY DEF findExisting
<1>2. CASE postedUnder(call[a].key)
  <2>1. answered(a, "alreadyApplied")
    BY <1>2 DEF findExisting
  <2>2. QED BY <1>1, <1>2, <2>1, OfficeAnswers
<1>3. CASE ~postedUnder(call[a].key)
  <2>1. call' = [call EXCEPT ![a] = c]
    BY <1>3 DEF findExisting
  <2>2. call[a] \in Call /\ CallInv(a, call[a])
    BY OfficeParts
  <2>3. /\ c \in Call /\ c.step = "read" /\ c.key = call[a].key
        /\ c.delta = call[a].delta /\ c.answer = call[a].answer
    BY <2>2 DEF Call
  <2> HIDE DEF c
  <2>4. CallInv(a, c)
    BY <1>1, <2>2, <2>3 DEF CallInv
  <2>5. QED BY <1>1, <2>1, <2>3, <2>4, OneCall
<1>4. QED BY <1>2, <1>3

LEMMA OfficeReads ==
  ASSUME OfficeInv, NEW a \in Admins, readCustody(a)
  PROVE  OfficeInv'
<1> DEFINE c == [call[a] EXCEPT !.step = "update", !.custody = held.custody,
                                !.seen = held.version]
<1>1. call[a].step = "read" /\ UNCHANGED <<held, legs, entries>>
  BY DEF readCustody
<1>2. CASE held.custody + call[a].delta < 0
  <2>1. answered(a, "refused")
    BY <1>2 DEF readCustody
  <2>2. QED BY <1>1, <2>1, OfficeAnswers
<1>3. CASE ~(held.custody + call[a].delta < 0)
  <2>1. call' = [call EXCEPT ![a] = c]
    BY <1>3 DEF readCustody
  <2>2. call[a] \in Call /\ CallInv(a, call[a]) /\ held.custody \in Nat /\ held.version \in Nat
    BY OfficeParts
  <2>3. /\ c \in Call /\ c.step = "update" /\ c.key = call[a].key
        /\ c.delta = call[a].delta /\ c.answer = call[a].answer
        /\ c.custody = held.custody /\ c.seen = held.version
    BY <2>2 DEF Call
  <2>4. call[a].delta \in Int
    BY <1>1, <2>2, OfficeConstants DEF CallInv
  <2> HIDE DEF c
  <2>5. CallInv(a, c)
    BY <1>1, <1>3, <2>2, <2>3, <2>4 DEF CallInv
  <2>6. QED BY <1>1, <2>1, <2>3, <2>5, OneCall
<1>4. QED BY <1>2, <1>3

(* Taking the lock: no other request holds it, since nobody did.           *)
LEMMA OfficeLocks ==
  ASSUME OfficeInv, NEW a \in Admins, updateCustody(a)
  PROVE  OfficeInv'
<1> DEFINE c == [call[a] EXCEPT !.step = "commit", !.treasury = held.treasury,
                                !.seen = held.treasuryVersion]
<1>1. call[a].step = "update" /\ held.lockedBy = 0 /\ UNCHANGED <<legs, entries>>
  BY DEF updateCustody
<1>2. CASE ~versionHolds(call[a].seen, held.version)
  <2>1. answered(a, "refused") /\ UNCHANGED held
    BY <1>2 DEF updateCustody
  <2>2. QED BY <1>1, <2>1, OfficeAnswers
<1>3. CASE versionHolds(call[a].seen, held.version)
  <2>1. call' = [call EXCEPT ![a] = c] /\ held' = [held EXCEPT !.lockedBy = a]
    BY <1>3 DEF updateCustody
  <2>2. call[a] \in Call /\ CallInv(a, call[a]) /\ held \in Held /\ call \in [Admins -> Call]
        /\ a # 0 /\ \A b \in Admins : CallInv(b, call[b])
    BY OfficeConstants DEF OfficeInv
  <2>3. held.treasury \in Int /\ held.treasuryVersion \in Nat
    BY <2>2 DEF Held
  <2>4. /\ c \in Call /\ c.step = "commit" /\ c.key = call[a].key
        /\ c.delta = call[a].delta /\ c.answer = call[a].answer
        /\ c.custody = call[a].custody /\ c.treasury = held.treasury
        /\ c.seen = held.treasuryVersion
    BY <2>2, <2>3 DEF Call
  <2>5. /\ held' \in Held /\ held'.custody = held.custody /\ held'.version = held.version
        /\ held'.lockedBy = a /\ held'.treasury = held.treasury
        /\ held'.treasuryVersion = held.treasuryVersion
    BY <2>1, <2>2 DEF Held
  <2>6. call[a].custody = held.custody
    BY <1>1, <1>3, <2>2 DEF CallInv, versionHolds
  <2> HIDE DEF c
  <2>7. /\ call' \in [Admins -> Call]
        /\ \A b \in Admins : call'[b] = IF b = a THEN c ELSE call[b]
    BY <2>1, <2>2, <2>4
  <2>8. (\A b \in Admins : CallInv(b, call[b]))'
    <3> SUFFICES ASSUME NEW b \in Admins PROVE CallInv(b, call[b])'
      OBVIOUS
    <3>1. CASE b = a
      <4>1. call'[b] = c
        BY <2>7, <3>1
      <4>2. QED BY <1>1, <2>2, <2>3, <2>4, <2>5, <2>6, <3>1, <4>1 DEF CallInv, postedUnder
    <3>2. CASE b # a
      <4>1. call'[b] = call[b] /\ call[b].step # "commit"
        BY <1>1, <2>2, <2>7, <3>2, OfficeConstants DEF CallInv
      <4>2. QED BY <1>1, <2>2, <2>5, <4>1 DEF CallInv, postedUnder
    <3>3. QED BY <3>1, <3>2
  <2>9. AdjustmentsBalance'
    BY <1>1, <2>5 DEF OfficeInv, AdjustmentsBalance, sumOf
  <2>10. (/\ legs \in Seq(Posting) /\ entries \in [custody : Int, treasury : Int, count : Nat]
          /\ \A i, j \in DOMAIN legs : legs[i].key = legs[j].key => i = j)'
    BY <1>1 DEF OfficeInv
  <2>11. held' \in Held
    BY <2>5
  <2>12. QED BY <2>7, <2>8, <2>9, <2>10, <2>11 DEF OfficeInv, Held
<1>4. QED BY <1>2, <1>3

(* A posting under a new key leaves the keys distinct, and is found.       *)
LEMMA PostingsAppend ==
  ASSUME OfficeInv, NEW e, e \in Posting, ~postedUnder(e.key), legs' = Append(legs, e)
  PROVE  /\ legs' \in Seq(Posting)
         /\ (\A i, j \in DOMAIN legs : legs[i].key = legs[j].key => i = j)'
         /\ \A k : postedUnder(k) => postedUnder(k)'
         /\ \A k : k = e.key => postedUnder(k)'
<1>1. /\ legs \in Seq(Posting)
      /\ \A i, j \in DOMAIN legs : legs[i].key = legs[j].key => i = j
  BY DEF OfficeInv
<1> DEFINE n == Len(legs)
<1>2. /\ legs' \in Seq(Posting) /\ n \in Nat
      /\ DOMAIN legs = 1..n /\ DOMAIN legs' = 1..(n + 1)
      /\ legs'[n + 1] = e /\ \A i \in 1..n : legs'[i] = legs[i]
  BY <1>1
<1> HIDE DEF n
<1>3. \A i \in 1..n : legs'[i].key # e.key
  BY <1>2 DEF postedUnder
<1>4. \A i \in 1..(n + 1) : i \in 1..n \/ i = n + 1
  BY <1>2
<1>5. \A i, j \in DOMAIN legs' : legs'[i].key = legs'[j].key => i = j
  <2> SUFFICES ASSUME NEW i \in DOMAIN legs', NEW j \in DOMAIN legs',
                      legs'[i].key = legs'[j].key
               PROVE  i = j
    OBVIOUS
  <2>1. (i \in 1..n \/ i = n + 1) /\ (j \in 1..n \/ j = n + 1)
    BY <1>2, <1>4
  <2>2. CASE i \in 1..n /\ j \in 1..n
    <3>1. legs[i].key = legs[j].key
      BY <1>2, <2>2
    <3>2. QED BY <1>1, <1>2, <2>2, <3>1
  <2>3. CASE ~(i \in 1..n /\ j \in 1..n)
    BY <1>2, <1>3, <2>1, <2>3
  <2>4. QED BY <2>2, <2>3
<1>6. \A k : postedUnder(k) => postedUnder(k)'
  <2>1. \A i \in 1..n : i \in DOMAIN legs'
    BY <1>2
  <2>2. QED BY <1>2, <2>1 DEF postedUnder
<1>7. \A k : k = e.key => postedUnder(k)'
  <2>1. n + 1 \in DOMAIN legs'
    BY <1>2
  <2>2. QED BY <1>2, <2>1 DEF postedUnder
<1>8. QED BY <1>2, <1>5, <1>6, <1>7

(* The second update is refused: the lock is let go and nothing is posted. *)
LEMMA OfficeRollsBack ==
  ASSUME OfficeInv, NEW a, a \in Admins, call[a].step = "commit", answered(a, "refused"),
         held' = [held EXCEPT !.lockedBy = 0], UNCHANGED <<legs, entries>>
  PROVE  OfficeInv'
<1>1. PICK c \in Call : /\ c.step = "idle" /\ c.answer = "refused"
                        /\ call' = [call EXCEPT ![a] = c]
  BY AnsweredCall
<1>2. /\ call \in [Admins -> Call] /\ held \in Held
      /\ \A b \in Admins : CallInv(b, call[b])
  BY DEF OfficeInv
<1>3. /\ call' \in [Admins -> Call]
      /\ \A b \in Admins : call'[b] = IF b = a THEN c ELSE call[b]
  BY <1>1, <1>2
<1>4. /\ held' \in Held /\ held'.custody = held.custody /\ held'.version = held.version
      /\ held'.treasury = held.treasury /\ held'.treasuryVersion = held.treasuryVersion
  BY <1>2 DEF Held
<1>5. (\A b \in Admins : CallInv(b, call[b]))'
  <2> SUFFICES ASSUME NEW b \in Admins PROVE CallInv(b, call[b])'
    OBVIOUS
  <2>1. CASE b = a
    <3>1. call'[b] = c
      BY <1>3, <2>1
    <3>2. QED BY <1>1, <3>1 DEF CallInv
  <2>2. CASE b # a
    <3>1. call'[b] = call[b] /\ call[b].step # "commit"
      BY <1>2, <1>3, <2>2 DEF CallInv
    <3>2. QED BY <1>2, <1>4, <3>1 DEF CallInv, postedUnder
  <2>3. QED BY <2>1, <2>2
<1>6. AdjustmentsBalance'
  BY <1>4 DEF OfficeInv, AdjustmentsBalance, sumOf
<1>7. (/\ legs \in Seq(Posting) /\ entries \in [custody : Int, treasury : Int, count : Nat]
       /\ \A i, j \in DOMAIN legs : legs[i].key = legs[j].key => i = j)'
  BY DEF OfficeInv
<1>8. QED BY <1>3, <1>4, <1>5, <1>6, <1>7 DEF OfficeInv, Held

(* The adjustment commits on the balances it read: they are the current    *)
(* ones, and no request that read the old version can pass for current.    *)
LEMMA OfficePosts ==
  ASSUME OfficeInv, NEW a, a \in Admins, call[a].step = "commit", answered(a, "applied"),
         call[a].seen = held.treasuryVersion, ~postedUnder(call[a].key),
         held' = [custody |-> call[a].custody + call[a].delta, version |-> held.version + 1,
                  lockedBy |-> 0, treasury |-> call[a].treasury - call[a].delta,
                  treasuryVersion |-> held.treasuryVersion + 1],
         legs' = Append(legs, [key |-> call[a].key, delta |-> call[a].delta]),
         UNCHANGED entries
  PROVE  OfficeInv'
<1>1. PICK c \in Call : /\ c.step = "idle" /\ c.key = call[a].key /\ c.answer = "applied"
                        /\ call' = [call EXCEPT ![a] = c]
  BY AnsweredCall
<1>2. /\ call \in [Admins -> Call] /\ held \in Held /\ AdjustmentsBalance
      /\ \A b \in Admins : CallInv(b, call[b])
      /\ legs \in Seq(Posting) /\ entries \in [custody : Int, treasury : Int, count : Nat]
  BY DEF OfficeInv
<1>3. /\ call' \in [Admins -> Call]
      /\ \A b \in Admins : call'[b] = IF b = a THEN c ELSE call[b]
  BY <1>1, <1>2
<1> DEFINE k == call[a].key
           d == call[a].delta
           e == [key |-> k, delta |-> d]
<1>4. /\ k \in Corrections /\ d \in Deltas /\ d \in Int
      /\ held.lockedBy = a /\ call[a].custody = held.custody /\ held.custody + d >= 0
      /\ call[a].treasury = held.treasury
  BY <1>2, OfficeConstants DEF CallInv
<1>5. /\ held.custody \in Nat /\ held.version \in Nat /\ held.treasury \in Int
      /\ held.treasuryVersion \in Nat
  BY OfficeParts
<1>6. e \in Posting /\ e.key = k /\ e.delta = d /\ legs' = Append(legs, e)
  BY <1>4 DEF Posting
<1> HIDE DEF k, d, e
<1>7. /\ held'.custody = held.custody + d /\ held'.version = held.version + 1
      /\ held'.lockedBy = 0 /\ held'.treasury = held.treasury - d
      /\ held'.treasuryVersion = held.treasuryVersion + 1
  BY <1>4 DEF d
<1>8. held' \in Held
  <2>1. held.custody + d \in Nat /\ held.treasury - d \in Int
    BY ONLY <1>4, <1>5
  <2>2. held.version + 1 \in Nat /\ held.treasuryVersion + 1 \in Nat
    BY ONLY <1>5
  <2>3. held' = [custody |-> held.custody + d, version |-> held.version + 1, lockedBy |-> 0,
                 treasury |-> held.treasury - d, treasuryVersion |-> held.treasuryVersion + 1]
    BY <1>4 DEF d
  <2>4. QED BY <2>1, <2>2, <2>3 DEF Held
<1>9. ~postedUnder(e.key)
  BY <1>6 DEF k
<1>10. /\ legs' \in Seq(Posting)
       /\ (\A i, j \in DOMAIN legs : legs[i].key = legs[j].key => i = j)'
       /\ \A q : postedUnder(q) => postedUnder(q)'
       /\ \A q : q = k => postedUnder(q)'
  BY <1>6, <1>9, PostingsAppend
<1>11. (\A b \in Admins : CallInv(b, call[b]))'
  <2> SUFFICES ASSUME NEW b \in Admins PROVE CallInv(b, call[b])'
    OBVIOUS
  <2>1. CASE b = a
    <3>1. call'[b] = c
      BY <1>3, <2>1
    <3>2. postedUnder(c.key)'
      BY <1>1, <1>10 DEF k
    <3>3. QED BY <1>1, <3>1, <3>2 DEF CallInv
  <2>2. CASE b # a
    <3>1. call'[b] = call[b] /\ call[b].step # "commit"
      BY <1>2, <1>3, <1>4, <2>2 DEF CallInv
    <3>2. call[b].step = "update" => call[b].seen \in Nat /\ call[b].seen # held'.version
                                     /\ call[b].seen <= held'.version
      BY SMTT(30), <1>2, <1>5, <1>7, <3>1 DEF CallInv, Call
    <3>3. QED BY <1>2, <1>10, <3>1, <3>2 DEF CallInv
  <2>3. QED BY <2>1, <2>2
<1>12. AdjustmentsBalance'
  <2>1. sumOf(legs') = sumOf(legs) + d /\ sumOf(legs) \in Int
    BY <1>2, <1>6, SumAppend
  <2>2. /\ held.custody = OpeningBalance + entries.custody + sumOf(legs)
        /\ held.treasury = OpeningBalance + entries.treasury - sumOf(legs)
        /\ entries.custody \in Int /\ entries.treasury \in Int /\ OpeningBalance \in Nat
    BY <1>2, OfficeConstants DEF AdjustmentsBalance
  <2>3. /\ held'.custody = OpeningBalance + entries.custody + sumOf(legs')
        /\ held'.treasury = OpeningBalance + entries.treasury - sumOf(legs')
    BY ONLY <1>4, <1>7, <2>1, <2>2
  <2>4. held'.custody >= 0
    BY <1>4, <1>7
  <2>5. QED BY <2>3, <2>4 DEF AdjustmentsBalance, sumOf
<1>13. (entries \in [custody : Int, treasury : Int, count : Nat])'
  BY <1>2
<1>14. QED BY <1>3, <1>8, <1>10, <1>11, <1>12, <1>13 DEF OfficeInv, Held

LEMMA OfficeCommits ==
  ASSUME OfficeInv, NEW a \in Admins, commitAdjustment(a)
  PROVE  OfficeInv'
<1>1. call[a].step = "commit" /\ UNCHANGED entries /\ a \in Admins
  BY DEF commitAdjustment
<1>2. CASE keyTaken(call[a].key) \/ ~versionHolds(call[a].seen, held.treasuryVersion)
  <2>1. answered(a, "refused") /\ held' = [held EXCEPT !.lockedBy = 0] /\ UNCHANGED legs
    BY <1>2 DEF commitAdjustment
  <2>2. QED BY <1>1, <2>1, OfficeRollsBack
<1>3. CASE ~(keyTaken(call[a].key) \/ ~versionHolds(call[a].seen, held.treasuryVersion))
  <2>1. /\ answered(a, "applied")
        /\ held' = [custody |-> call[a].custody + call[a].delta, version |-> held.version + 1,
                    lockedBy |-> 0, treasury |-> call[a].treasury - call[a].delta,
                    treasuryVersion |-> held.treasuryVersion + 1]
        /\ legs' = Append(legs, [key |-> call[a].key, delta |-> call[a].delta])
    BY <1>3 DEF commitAdjustment
  <2>2. call[a].seen = held.treasuryVersion /\ ~postedUnder(call[a].key)
    BY <1>3 DEF keyTaken, versionHolds
  <2>3. QED BY <1>1, <2>1, <2>2, OfficePosts
<1>4. QED BY <1>2, <1>3

(* Another entry leaves the custody account alone while it is locked, and  *)
(* gives what it moves a new version.                                      *)
LEMMA OfficeOther ==
  ASSUME OfficeInv, otherEntry
  PROVE  OfficeInv'
<1>1. PICK d \in {-1, 0, 1}, t \in {0, 1} :
        /\ d # 0 => held.lockedBy = 0
        /\ held.custody + d >= 0
        /\ entries' = [custody |-> entries.custody + d, treasury |-> entries.treasury + t,
                       count |-> entries.count + 1]
        /\ held' = [held EXCEPT !.custody = @ + d, !.treasury = @ + t,
                                !.version = IF d = 0 THEN @ ELSE @ + 1,
                                !.treasuryVersion = IF t = 0 THEN @ ELSE @ + 1]
  BY DEF otherEntry
<1>2. UNCHANGED <<legs, call>>
  BY DEF otherEntry
<1>3. /\ call \in [Admins -> Call] /\ held \in Held /\ AdjustmentsBalance
      /\ \A b \in Admins : CallInv(b, call[b]) /\ call[b] \in Call
      /\ entries \in [custody : Int, treasury : Int, count : Nat]
  BY DEF OfficeInv
<1>4. /\ held.custody \in Nat /\ held.version \in Nat /\ held.treasury \in Int
      /\ held.treasuryVersion \in Nat /\ entries.custody \in Int /\ entries.treasury \in Int
      /\ entries.count \in Nat /\ OpeningBalance \in Nat /\ d \in Int /\ t \in Int
  BY <1>3, OfficeParts, OfficeConstants
<1>5. /\ held'.custody = held.custody + d /\ held'.treasury = held.treasury + t
      /\ held'.version = IF d = 0 THEN held.version ELSE held.version + 1
      /\ held'.treasuryVersion = IF t = 0 THEN held.treasuryVersion ELSE held.treasuryVersion + 1
      /\ held'.lockedBy = held.lockedBy
  BY <1>1, <1>3 DEF Held
<1>6. held' \in Held
  <2>1. /\ held.custody + d \in Nat /\ held.treasury + t \in Int
        /\ (IF d = 0 THEN held.version ELSE held.version + 1) \in Nat
        /\ (IF t = 0 THEN held.treasuryVersion ELSE held.treasuryVersion + 1) \in Nat
    BY <1>1, <1>4
  <2>2. QED BY <1>1, <1>3, <2>1 DEF Held
<1>7. (\A b \in Admins : CallInv(b, call[b]))'
  <2> SUFFICES ASSUME NEW b \in Admins PROVE CallInv(b, call[b])'
    OBVIOUS
  <2>1. CallInv(b, call[b]) /\ call'[b] = call[b] /\ call[b].seen \in Nat
    BY <1>2, <1>3 DEF Call
  <2>2. call[b].step = "update" =>
          /\ call[b].seen <= held'.version
          /\ call[b].seen = held'.version => call[b].custody = held'.custody
    BY <1>4, <1>5, <2>1 DEF CallInv
  <2>3. call[b].step = "commit" =>
          /\ held'.lockedBy = b /\ call[b].custody = held'.custody
          /\ call[b].seen <= held'.treasuryVersion
          /\ call[b].seen = held'.treasuryVersion => call[b].treasury = held'.treasury
    BY <1>1, <1>4, <1>5, <2>1, OfficeConstants DEF CallInv
  <2>4. QED BY <1>2, <2>1, <2>2, <2>3 DEF CallInv, postedUnder
<1>8. AdjustmentsBalance'
  <2>1. sumOf(legs) \in Int
    BY SumIsInt DEF OfficeInv
  <2>2. QED
    BY <1>1, <1>2, <1>3, <1>4, <1>5, <2>1 DEF AdjustmentsBalance
<1>9. entries' \in [custody : Int, treasury : Int, count : Nat]
  BY <1>1, <1>4
<1>10. (legs \in Seq(Posting) /\ \A i, j \in DOMAIN legs : legs[i].key = legs[j].key => i = j)'
  BY <1>2 DEF OfficeInv
<1>11. call' \in [Admins -> Call]
  BY <1>2, <1>3
<1>12. QED BY <1>6, <1>7, <1>8, <1>9, <1>10, <1>11 DEF OfficeInv, Held

(* The lists and what is read of them touch no account.                    *)
LEMMA OfficeStutters ==
  ASSUME OfficeInv, UNCHANGED <<held, legs, entries, call>>
  PROVE  OfficeInv'
BY DEF OfficeInv, CallInv, postedUnder, AdjustmentsBalance, sumOf, Held

LEMMA OfficeInvStep == OfficeInv /\ [AdjustNext \/ PageNext]_officeVars => OfficeInv'
<1> SUFFICES ASSUME OfficeInv, [AdjustNext \/ PageNext]_officeVars PROVE OfficeInv'
  OBVIOUS
<1>1. CASE AdjustNext
  <2>1. CASE otherEntry
    BY <2>1, OfficeOther
  <2>2. ASSUME NEW a \in Admins,
               \/ \E k \in Corrections, delta \in Deltas : requestAdjustment(a, k, delta)
               \/ findExisting(a) \/ readCustody(a) \/ updateCustody(a) \/ commitAdjustment(a)
        PROVE  OfficeInv'
    <3>1. CASE \E k \in Corrections, delta \in Deltas : requestAdjustment(a, k, delta)
      BY <3>1, OfficeAsks
    <3>2. CASE findExisting(a)
      BY <3>2, OfficeFinds
    <3>3. CASE readCustody(a)
      BY <3>3, OfficeReads
    <3>4. CASE updateCustody(a)
      BY <3>4, OfficeLocks
    <3>5. CASE commitAdjustment(a)
      BY <3>5, OfficeCommits
    <3>6. QED BY <2>2, <3>1, <3>2, <3>3, <3>4, <3>5
  <2>3. QED BY <1>1, <2>1, <2>2 DEF AdjustNext
<1>2. CASE PageNext
  <2>1. UNCHANGED <<held, legs, entries, call>>
    BY <1>2 DEF PageNext, addRow, turnPage, openList, adjusting
  <2>2. QED BY <2>1, OfficeStutters
<1>3. CASE UNCHANGED officeVars
  <2>1. UNCHANGED <<held, legs, entries, call>>
    BY <1>3 DEF officeVars
  <2>2. QED BY <2>1, OfficeStutters
<1>4. QED BY <1>1, <1>2, <1>3

LEMMA OfficeInvMeans == OfficeInv => AdjustmentsHold
BY DEF OfficeInv, AdjustmentsHold, AdjustedOnce, CallInv

(* However the adjustments of any administrators overlap with each other   *)
(* and with other entries, each correction is posted once, whoever is told *)
(* so can find it, the two accounts are what their entries add up to, and  *)
(* no player's balance goes below zero (POST adjust-balance of             *)
(* players.routes.ts).                                                     *)
THEOREM AdjustmentsAreSafe == OfficeSpec => []AdjustmentsHold
<1>1. OfficeInit => OfficeInv
  BY OfficeInitInv
<1>2. OfficeInv /\ [AdjustNext \/ PageNext]_officeVars => OfficeInv'
  BY OfficeInvStep
<1>3. OfficeInv => AdjustmentsHold
  BY OfficeInvMeans
<1>4. QED BY <1>1, <1>2, <1>3, PTL DEF OfficeSpec

-----------------------------------------------------------------------------
(***************************************************************************)
(* The lists.  The members of a finite set that a strict order ranks have  *)
(* each a rank of their own, and every rank below their number is taken.   *)
(***************************************************************************)
Before(R, S, r) == {q \in S : <<q, r>> \in R}
StrictOrder(R, S) ==
  /\ \A q \in S : <<q, q>> \notin R
  /\ \A q, r \in S : q # r => <<q, r>> \in R \/ <<r, q>> \in R
  /\ \A p, q, r \in S : <<p, q>> \in R /\ <<q, r>> \in R => <<p, r>> \in R

LEMMA RankGrows ==
  ASSUME NEW R, NEW S, IsFiniteSet(S), StrictOrder(R, S), NEW q \in S, NEW r \in S, <<q, r>> \in R
  PROVE  /\ Cardinality(Before(R, S, q)) \in Nat /\ Cardinality(Before(R, S, r)) \in Nat
         /\ Cardinality(Before(R, S, q)) < Cardinality(Before(R, S, r))
<1>1. Before(R, S, q) \in SUBSET S /\ Before(R, S, r) \in SUBSET S
  BY DEF Before
<1>2. IsFiniteSet(Before(R, S, q)) /\ IsFiniteSet(Before(R, S, r))
  BY <1>1, FS_Subset
<1>3. Before(R, S, q) \subseteq Before(R, S, r) /\ q \in Before(R, S, r) /\ q \notin Before(R, S, q)
  BY DEF Before, StrictOrder
<1>4. Cardinality(Before(R, S, q)) <= Cardinality(Before(R, S, r))
      /\ Cardinality(Before(R, S, q)) # Cardinality(Before(R, S, r))
  BY <1>2, <1>3, FS_Subset
<1>5. Cardinality(Before(R, S, q)) \in Nat /\ Cardinality(Before(R, S, r)) \in Nat
  BY <1>2, FS_CardinalityType
<1>6. QED BY <1>4, <1>5

LEMMA RanksFill ==
  ASSUME NEW R, NEW S, IsFiniteSet(S), StrictOrder(R, S)
  PROVE  /\ Cardinality(S) \in Nat
         /\ \A r \in S : Cardinality(Before(R, S, r)) \in 0 .. Cardinality(S) - 1
         /\ \A k \in 0 .. Cardinality(S) - 1 : \E r \in S : Cardinality(Before(R, S, r)) = k
         /\ \A q, r \in S : Cardinality(Before(R, S, q)) = Cardinality(Before(R, S, r)) => q = r
         /\ \A q, r \in S : Cardinality(Before(R, S, q)) < Cardinality(Before(R, S, r)) => <<q, r>> \in R
<1> DEFINE n == Cardinality(S)
           rank == [r \in S |-> Cardinality(Before(R, S, r))]
<1>1. n \in Nat
  BY FS_CardinalityType
<1>2. ASSUME NEW r \in S PROVE rank[r] \in 0 .. n - 1
  <2>1. Before(R, S, r) \in SUBSET S /\ r \notin Before(R, S, r)
    BY DEF Before, StrictOrder
  <2>2. IsFiniteSet(Before(R, S, r)) /\ Cardinality(Before(R, S, r)) <= n /\ Cardinality(Before(R, S, r)) # n
    BY <2>1, FS_Subset
  <2>3. Cardinality(Before(R, S, r)) \in Nat
    BY <2>2, FS_CardinalityType
  <2> HIDE DEF n
  <2>4. QED BY <1>1, <2>2, <2>3
<1>3. ASSUME NEW q \in S, NEW r \in S, q # r PROVE rank[q] # rank[r]
  <2>1. CASE <<q, r>> \in R
    BY <2>1, RankGrows
  <2>2. CASE <<r, q>> \in R
    BY <2>2, RankGrows
  <2>3. QED BY <1>3, <2>1, <2>2 DEF StrictOrder
<1>4. rank \in [S -> 0 .. n - 1]
  BY <1>2
<1>5. rank \in Injection(S, 0 .. n - 1)
  BY <1>3, <1>4 DEF Injection, IsInjective
<1>6. IsFiniteSet(0 .. n - 1) /\ Cardinality(0 .. n - 1) = n
  BY SMTT(30), <1>1, FS_Interval
<1>7. rank \in Surjection(S, 0 .. n - 1)
  BY <1>5, <1>6, FS_Injection
<1>8. \A k \in 0 .. n - 1 : \E r \in S : rank[r] = k
  BY <1>7 DEF Surjection
<1>9. ASSUME NEW q \in S, NEW r \in S, rank[q] < rank[r] PROVE <<q, r>> \in R
  <2>1. rank[q] \in Nat /\ rank[r] \in Nat
    BY <1>1, <1>4
  <2>2. q # r
    BY ONLY <2>1, <1>9
  <2>3. ASSUME <<r, q>> \in R PROVE FALSE
    <3>1. rank[r] < rank[q]
      BY <2>3, RankGrows
    <3>2. QED BY ONLY <2>1, <3>1, <1>9
  <2>4. QED BY <2>2, <2>3 DEF StrictOrder
<1>10. QED BY <1>1, <1>2, <1>3, <1>8, <1>9

ListRow == [at : Times, id : 1 .. MaxRows, stranded : BOOLEAN]

(* The rows of a list: no two with one id.                                 *)
ListOf(S) == S \subseteq ListRow /\ IsFiniteSet(S) /\ \A q, r \in S : q.id = r.id => q = r

LEMMA RowIs ==
  ASSUME NEW r \in ListRow
  PROVE  r.at \in Nat /\ r.id \in 1 .. MaxRows /\ r.id \in Nat /\ r.id # 0
<1>1. r.at \in Times /\ r.id \in 1 .. MaxRows
  BY DEF ListRow
<1>2. Times \subseteq Nat /\ MaxRows \in Nat
  BY OfficeAssumption
<1>3. r.at \in Nat
  BY <1>1, <1>2
<1>4. QED BY ONLY <1>1, <1>2, <1>3

LEMMA NewerOrders ==
  ASSUME NEW S, ListOf(S)
  PROVE  /\ \A q \in S : ~newerThan(q, q)
         /\ \A q, r \in S : q # r => newerThan(q, r) \/ newerThan(r, q)
         /\ \A p, q, r \in S : newerThan(p, q) /\ newerThan(q, r) => newerThan(p, r)
         /\ \A q, r \in S : newerThan(q, r) => ~newerThan(r, q)
<1>1. \A r \in S : r.at \in Nat /\ r.id \in Nat
  BY RowIs DEF ListOf
<1>2. \A q, r \in S : q # r => q.id # r.id
  BY DEF ListOf
<1>3. QED BY ONLY <1>1, <1>2 DEF newerThan

(* newestFirst lists every row once, each before those it is newer than.   *)
LEMMA ListedNewestFirst ==
  ASSUME NEW S, ListOf(S)
  PROVE  LET s == newestFirst(S)
         IN  /\ s \in Seq(S) /\ Len(s) = Cardinality(S) /\ Cardinality(S) \in Nat
             /\ \A i, j \in DOMAIN s : i < j => newerThan(s[i], s[j])
             /\ \A r \in S : \E i \in DOMAIN s : s[i] = r
<1> DEFINE n == Cardinality(S)
           R == {p \in S \X S : newerThan(p[1], p[2])}
           rank(r) == Cardinality({q \in S : newerThan(q, r)})
           s == newestFirst(S)
<1>1. \A q, r \in S : <<q, r>> \in R <=> newerThan(q, r)
  OBVIOUS
<1>2. \A r \in S : Before(R, S, r) = {q \in S : newerThan(q, r)}
  BY <1>1 DEF Before
<1>3. StrictOrder(R, S) /\ IsFiniteSet(S)
  <2> HIDE DEF R
  <2>1. QED BY <1>1, NewerOrders DEF StrictOrder, ListOf
<1> HIDE DEF R
<1>13. \A r \in S : Cardinality(Before(R, S, r)) = rank(r)
  BY <1>2
<1>14. s = [i \in 1 .. n |-> CHOOSE r \in S : rank(r) = i - 1]
  BY DEF newestFirst
<1> HIDE DEF rank
<1>4. /\ n \in Nat
      /\ \A r \in S : rank(r) \in 0 .. n - 1
      /\ \A k \in 0 .. n - 1 : \E r \in S : rank(r) = k
      /\ \A q, r \in S : rank(q) = rank(r) => q = r
      /\ \A q, r \in S : rank(q) < rank(r) => newerThan(q, r)
  <2>1. /\ n \in Nat
        /\ \A r \in S : Cardinality(Before(R, S, r)) \in 0 .. n - 1
        /\ \A k \in 0 .. n - 1 : \E r \in S : Cardinality(Before(R, S, r)) = k
        /\ \A q, r \in S : Cardinality(Before(R, S, q)) = Cardinality(Before(R, S, r)) => q = r
        /\ \A q, r \in S : Cardinality(Before(R, S, q)) < Cardinality(Before(R, S, r)) => <<q, r>> \in R
    BY ONLY <1>3, RanksFill
  <2> HIDE DEF n
  <2>2. QED BY ONLY <1>1, <1>13, <2>1
<1>5. s = [i \in 1 .. n |-> CHOOSE r \in S : rank(r) = i - 1]
  BY <1>14
<1> HIDE DEF n, s
<1>6. ASSUME NEW i \in 1 .. n PROVE s[i] \in S /\ rank(s[i]) = i - 1
  <2>1. i - 1 \in 0 .. n - 1
    BY ONLY <1>4, <1>6
  <2>2. \E r \in S : rank(r) = i - 1
    BY <1>4, <2>1
  <2>3. s[i] = CHOOSE r \in S : rank(r) = i - 1
    BY <1>5
  <2>4. QED BY <2>2, <2>3
<1>7. s \in Seq(S) /\ Len(s) = n /\ DOMAIN s = 1 .. n
  <2>1. s \in [1 .. n -> S]
    BY <1>5, <1>6
  <2>2. QED BY <1>4, <2>1
<1>8. ASSUME NEW i \in 1 .. n, NEW j \in 1 .. n, i < j PROVE newerThan(s[i], s[j])
  <2>1. rank(s[i]) < rank(s[j])
    <3>1. i - 1 < j - 1
      BY ONLY <1>4, <1>8
    <3>2. QED BY <1>6, <3>1
  <2>2. QED BY <1>4, <1>6, <2>1
<1>9. ASSUME NEW r \in S PROVE \E i \in 1 .. n : s[i] = r
  <2>1. rank(r) \in 0 .. n - 1
    BY <1>4
  <2>2. rank(r) + 1 \in 1 .. n /\ (rank(r) + 1) - 1 = rank(r)
    BY ONLY <1>4, <2>1
  <2>3. s[rank(r) + 1] \in S /\ rank(s[rank(r) + 1]) = rank(r)
    BY <1>6, <2>2
  <2>4. s[rank(r) + 1] = r
    BY <1>4, <2>3
  <2>5. QED BY <2>2, <2>4
<1>10. QED BY <1>4, <1>7, <1>8, <1>9 DEF n, s

LEMMA FirstOf ==
  ASSUME NEW S, NEW s \in Seq(S), NEW n \in Nat
  PROVE  /\ upTo(s, n) \in Seq(S) /\ Len(upTo(s, n)) = (IF Len(s) < n THEN Len(s) ELSE n)
         /\ \A i \in DOMAIN upTo(s, n) : i \in DOMAIN s /\ upTo(s, n)[i] = s[i]
<1> DEFINE m == IF Len(s) < n THEN Len(s) ELSE n
<1>1. m \in Nat /\ m <= Len(s) /\ Len(s) \in Nat
  OBVIOUS
<1>2. upTo(s, n) = SubSeq(s, 1, m)
  BY DEF upTo
<1> HIDE DEF m
<1>3. /\ SubSeq(s, 1, m) \in Seq(S) /\ Len(SubSeq(s, 1, m)) = m
      /\ \A i \in 1 .. m : SubSeq(s, 1, m)[i] = s[i] /\ i \in DOMAIN s
  BY ONLY <1>1, s \in Seq(S)
<1>4. QED BY <1>2, <1>3 DEF m

(* What a scan picks: rows of it, each once.                               *)
LEMMA PickedIs ==
  ASSUME NEW S, NEW found \in Seq(S), \A i, j \in DOMAIN found : found[i] = found[j] => i = j
  PROVE  /\ picked(found) \in Seq(S)
         /\ \A i, j \in DOMAIN picked(found) : picked(found)[i] = picked(found)[j] => i = j
         /\ \A i \in DOMAIN picked(found) : \E j \in DOMAIN found : picked(found)[i] = found[j]
<1> DEFINE kept == {i \in DOMAIN found : unaccounted(found[i])}
           nth(k) == CHOOSE i \in kept : Cardinality({j \in kept : j < i}) = k - 1
           R == {p \in kept \X kept : p[1] < p[2]}
           n == Cardinality(kept)
<1>1. DOMAIN found = 1 .. Len(found) /\ Len(found) \in Nat
  OBVIOUS
<1>2. kept \in SUBSET (1 .. Len(found)) /\ IsFiniteSet(1 .. Len(found))
  BY <1>1, FS_Interval
<1>3. IsFiniteSet(kept) /\ kept \subseteq Nat /\ kept \subseteq DOMAIN found
  BY <1>1, <1>2, FS_Subset
<1> HIDE DEF kept
<1>4. \A i, j \in kept : <<i, j>> \in R <=> i < j
  OBVIOUS
<1>5. \A i \in kept : Before(R, kept, i) = {j \in kept : j < i}
  BY <1>4 DEF Before
<1> HIDE DEF R
<1>6. StrictOrder(R, kept)
  BY ONLY <1>3, <1>4 DEF StrictOrder
<1>7. n \in Nat /\ \A k \in 0 .. n - 1 : \E i \in kept : Cardinality({j \in kept : j < i}) = k
  <2>1. n \in Nat /\ \A k \in 0 .. n - 1 : \E i \in kept : Cardinality(Before(R, kept, i)) = k
    BY ONLY <1>3, <1>6, RanksFill
  <2>2. \A i \in kept : Cardinality(Before(R, kept, i)) = Cardinality({j \in kept : j < i})
    BY <1>5
  <2>3. QED BY <2>1, <2>2
<1>8. picked(found) = [k \in 1 .. n |-> found[nth(k)]]
  BY DEF picked, kept
<1> HIDE DEF n
<1>9. ASSUME NEW k \in 1 .. n PROVE nth(k) \in kept /\ Cardinality({j \in kept : j < nth(k)}) = k - 1
  <2>1. k - 1 \in 0 .. n - 1
    BY ONLY <1>7, <1>9
  <2>2. \E i \in kept : Cardinality({j \in kept : j < i}) = k - 1
    BY <1>7, <2>1
  <2>3. QED BY <2>2
<1> HIDE DEF nth
<1>10. ASSUME NEW k \in 1 .. n PROVE nth(k) \in DOMAIN found /\ found[nth(k)] \in S
  <2>1. nth(k) \in DOMAIN found
    BY <1>3, <1>9
  <2>2. QED BY ONLY <2>1, found \in Seq(S)
<1>11. picked(found) \in Seq(S) /\ DOMAIN picked(found) = 1 .. n
  <2>1. picked(found) \in [1 .. n -> S]
    BY <1>8, <1>10
  <2>2. QED BY <1>7, <2>1
<1>12. ASSUME NEW i \in 1 .. n, NEW j \in 1 .. n, found[nth(i)] = found[nth(j)] PROVE i = j
  <2>1. nth(i) = nth(j)
    BY <1>10, <1>12
  <2>2. i - 1 = j - 1
    BY <1>9, <2>1
  <2>3. QED BY ONLY <1>7, <1>12, <2>2
<1>13. QED BY <1>8, <1>10, <1>11, <1>12

(* r is c, or comes before it in the list.                                 *)
UpTo(r, c) == r = c \/ newerThan(r, c)

Reader == [list : {"none", "transactions", "games"}, cursor : Nat, shown : Seq(1 .. MaxRows),
           begun : SUBSET (1 .. MaxRows), done : BOOLEAN]

(* The last row the walk rd has passed, of the rows rs: c.  Every row      *)
(* shown is up to c, and every row up to c that was there at the start has *)
(* been shown.                                                             *)
Passed(rd, rs, c) ==
  /\ c.id = rd.cursor
  /\ \A i \in DOMAIN rd.shown : \E q \in rs : q.id = rd.shown[i] /\ UpTo(q, c)
  /\ (rd.list # "games" =>
         \A r \in rs : r.id \in rd.begun /\ UpTo(r, c) => r.id \in ToSet(rd.shown))

PagesInv ==
  /\ ListOf(rows)
  /\ reader \in Reader
  /\ IsInjective(reader.shown)
  /\ reader.begun \subseteq { r.id : r \in rows }
  /\ (reader.done /\ reader.list # "games" => reader.begun \subseteq ToSet(reader.shown))
  /\ (~reader.done /\ reader.cursor = 0 => reader.shown = <<>>)
  /\ (~reader.done /\ reader.cursor # 0 => \E c \in rows : Passed(reader, rows, c))

Rest(cursor) == { r \in rows : after(cursor, r) }

\* The page and the next cursor of a list of the rows S, from which next goes on.
GoodPage(S, list, page, next) ==
  /\ page \in Seq(S)
  /\ \A i, j \in DOMAIN page : page[i].id = page[j].id => i = j
  /\ next # 0 => \E c \in S :
       /\ c.id = next
       /\ \A i \in DOMAIN page : UpTo(page[i], c)
       /\ (list # "games" => \A r \in S : UpTo(r, c) => \E i \in DOMAIN page : page[i] = r)
  /\ (next = 0 /\ list # "games") => \A r \in S : \E i \in DOMAIN page : page[i] = r

LEMMA PageIs ==
  ASSUME ListOf(rows), NEW list, NEW cursor
  PROVE  GoodPage(Rest(cursor), list, pageOf(list, cursor).page, pageOf(list, cursor).next)
<1> DEFINE S == Rest(cursor)
           s == newestFirst(S)
           n == Len(s)
           k == PageLimit
           m == PageLimit * ScanFactor
           p == pageOf(list, cursor)
<1>1. ListOf(S)
  <2>1. S \in SUBSET rows
    BY DEF Rest
  <2>2. IsFiniteSet(S)
    BY <2>1, FS_Subset DEF ListOf
  <2>3. QED BY <2>1, <2>2 DEF ListOf
<1>2. /\ s \in Seq(S)
      /\ \A i, j \in DOMAIN s : i < j => newerThan(s[i], s[j])
      /\ \A r \in S : \E i \in DOMAIN s : s[i] = r
  BY <1>1, ListedNewestFirst
<1>3. k \in Nat /\ k >= 1 /\ m \in Nat /\ m >= 1
  <2>1. PageLimit \in Nat \ {0} /\ ScanFactor \in Nat \ {0}
    BY OfficeAssumption
  <2>2. QED BY ONLY <2>1
<1>4. \A l : findMany(cursor, l) = upTo(s, l)
  BY DEF findMany, Rest
<1> HIDE DEF S, s
<1>5. n \in Nat /\ DOMAIN s = 1 .. n /\ \A i \in 1 .. n : s[i] \in S
  BY <1>2
<1>6. ASSUME NEW i \in DOMAIN s, NEW j \in DOMAIN s
      PROVE  /\ (i <= j => UpTo(s[i], s[j])) /\ (UpTo(s[i], s[j]) => i <= j)
             /\ (s[i].id = s[j].id => i = j) /\ (s[i] = s[j] => i = j)
  <2>1. i \in Nat /\ j \in Nat /\ s[i] \in S /\ s[j] \in S
    BY <1>5, <1>6
  <2>2. i < j => newerThan(s[i], s[j])
    BY <1>2, <1>6
  <2>3. j < i => newerThan(s[j], s[i])
    BY <1>2, <1>6
  <2>4. newerThan(s[j], s[i]) => ~newerThan(s[i], s[j]) /\ s[i] # s[j]
    BY <1>1, <2>1, NewerOrders
  <2>5. newerThan(s[i], s[j]) => s[i] # s[j]
    BY <1>1, <2>1, NewerOrders
  <2>6. i <= j => UpTo(s[i], s[j])
    BY ONLY <2>1, <2>2 DEF UpTo
  <2>7. UpTo(s[i], s[j]) => i <= j
    BY ONLY <2>1, <2>3, <2>4 DEF UpTo
  <2>8. s[i] = s[j] => i = j
    BY ONLY <2>1, <2>2, <2>3, <2>4, <2>5
  <2>9. s[i].id = s[j].id => s[i] = s[j]
    BY <1>1, <2>1 DEF ListOf
  <2>10. QED BY <2>6, <2>7, <2>8, <2>9
<1>7. CASE list # "games"
  <2> DEFINE found == upTo(s, k + 1)
             page == upTo(found, k)
             next == IF Len(found) > k THEN Last(page).id ELSE 0
  <2>1. p = [page |-> page, next |-> next]
    BY <1>4, <1>7 DEF pageOf, keysetPage
  <2>0. pageOf(list, cursor).page = page /\ pageOf(list, cursor).next = next
    BY <2>1
  <2>2. /\ found \in Seq(S) /\ Len(found) = (IF n < k + 1 THEN n ELSE k + 1)
        /\ \A i \in DOMAIN found : i \in DOMAIN s /\ found[i] = s[i]
    <3>1. k + 1 \in Nat
      BY ONLY <1>3
    <3>2. QED BY <1>2, <3>1, FirstOf
  <2> HIDE DEF found
  <2>3. /\ page \in Seq(S) /\ Len(page) = (IF Len(found) < k THEN Len(found) ELSE k)
        /\ \A i \in DOMAIN page : i \in DOMAIN found /\ page[i] = found[i]
    BY <1>3, <2>2, FirstOf
  <2> DEFINE l == Len(page)
  <2>4. /\ l = (IF n < k THEN n ELSE k) /\ l \in Nat /\ DOMAIN page = 1 .. l
        /\ (Len(found) > k <=> n > k)
    <3>1. DOMAIN page = 1 .. l
      BY <2>3
    <3>2. Len(found) = (IF n < k + 1 THEN n ELSE k + 1) /\ l = (IF Len(found) < k THEN Len(found) ELSE k)
      BY <2>2, <2>3
    <3> HIDE DEF l, n
    <3>3. QED BY ONLY <3>1, <3>2, <1>3, <1>5
  <2>5. \A i \in 1 .. l : i \in 1 .. n /\ page[i] = s[i]
    BY <1>5, <2>2, <2>3, <2>4
  <2>6. Last(page) = page[l]
    BY DEF Last
  <2> HIDE DEF page, l, n
  <2>7. \A i, j \in DOMAIN page : page[i].id = page[j].id => i = j
    BY <1>5, <1>6, <2>4, <2>5
  <2>8. CASE n > k
    <3>1. l = k /\ k \in 1 .. l
      BY ONLY <1>3, <1>5, <2>4, <2>8
    <3>2. next = s[k].id /\ s[k] \in S /\ k \in DOMAIN s /\ next # 0
      <4>1. next = s[k].id /\ s[k] \in S /\ k \in DOMAIN s
        BY <1>5, <2>4, <2>5, <2>6, <2>8, <3>1
      <4>2. s[k].id # 0
        BY <1>1, <4>1, RowIs DEF ListOf
      <4>3. QED BY <4>1, <4>2
    <3>3. \A i \in DOMAIN page : UpTo(page[i], s[k])
      <4>1. \A i \in 1 .. l : i <= k
        BY ONLY <3>1, <1>3
      <4>2. QED BY <1>5, <1>6, <2>4, <2>5, <3>2, <4>1
    <3>4. ASSUME NEW r \in S, UpTo(r, s[k]) PROVE \E i \in DOMAIN page : page[i] = r
      <4>1. PICK i \in 1 .. n : s[i] = r
        BY <1>2, <1>5
      <4>2. i <= k
        BY <1>5, <1>6, <3>2, <3>4, <4>1
      <4>3. i \in 1 .. l
        BY ONLY <1>5, <3>1, <4>1, <4>2
      <4>4. QED BY <2>4, <2>5, <4>1, <4>3
    <3> HIDE DEF next
    <3>5. GoodPage(S, list, page, next)
      BY <2>3, <2>7, <3>2, <3>3, <3>4 DEF GoodPage
    <3>6. QED BY <2>0, <3>5 DEF S
  <2>9. CASE ~(n > k)
    <3>1. next = 0
      BY <2>4, <2>9
    <3>2. l = n
      BY ONLY <1>3, <1>5, <2>4, <2>9
    <3>3. \A r \in S : \E i \in DOMAIN page : page[i] = r
      BY <1>2, <1>5, <2>4, <2>5, <3>2
    <3> HIDE DEF next
    <3>4. GoodPage(S, list, page, next)
      BY <2>3, <2>7, <3>1, <3>3 DEF GoodPage
    <3>5. QED BY <2>0, <3>4 DEF S
  <2>10. QED BY <2>8, <2>9
<1>8. CASE list = "games"
  <2> DEFINE found == upTo(s, m + 1)
             all == picked(found)
             page == upTo(all, k)
             next == IF Len(found) > m THEN Last(found).id ELSE 0
  <2>1. p = [page |-> page, next |-> next]
    BY <1>4, <1>8 DEF pageOf, scannedPage
  <2>0. pageOf(list, cursor).page = page /\ pageOf(list, cursor).next = next
    BY <2>1
  <2>2. /\ found \in Seq(S) /\ Len(found) = (IF n < m + 1 THEN n ELSE m + 1)
        /\ \A i \in DOMAIN found : i \in DOMAIN s /\ found[i] = s[i]
    <3>1. m + 1 \in Nat
      BY ONLY <1>3
    <3>2. QED BY <1>2, <3>1, FirstOf
  <2> HIDE DEF found
  <2>3. \A i, j \in DOMAIN found : found[i] = found[j] => i = j
    BY <1>6, <2>2
  <2>4. /\ all \in Seq(S) /\ \A i, j \in DOMAIN all : all[i] = all[j] => i = j
        /\ \A i \in DOMAIN all : \E j \in DOMAIN found : all[i] = found[j]
    BY <2>2, <2>3, PickedIs
  <2> HIDE DEF all
  <2>5. page \in Seq(S) /\ \A i \in DOMAIN page : i \in DOMAIN all /\ page[i] = all[i]
    BY <1>3, <2>4, FirstOf
  <2> HIDE DEF page
  <2>6. \A i \in DOMAIN page : \E j \in DOMAIN found : page[i] = found[j] /\ page[i] \in S
    BY <2>4, <2>5
  <2>7. \A i, j \in DOMAIN page : page[i].id = page[j].id => i = j
    <3>1. \A q, r \in S : q.id = r.id => q = r
      BY <1>1 DEF ListOf
    <3>2. QED BY <2>4, <2>5, <2>6, <3>1
  <2>8. next # 0 => \E c \in S : c.id = next /\ \A i \in DOMAIN page : UpTo(page[i], c)
    <3> SUFFICES ASSUME next # 0 PROVE \E c \in S : c.id = next /\ \A i \in DOMAIN page : UpTo(page[i], c)
      OBVIOUS
    <3> DEFINE l == Len(found)
    <3>1. l > m /\ l \in Nat /\ DOMAIN found = 1 .. l
      BY <2>2
    <3>2. l \in 1 .. l /\ \A j \in 1 .. l : j <= l
      <4> HIDE DEF l
      <4>1. QED BY ONLY <3>1, <1>3
    <3>3. next = found[l].id /\ found[l] \in S
      <4>1. next = found[l].id
        BY <3>1 DEF Last
      <4>2. l \in DOMAIN found
        BY <3>1, <3>2
      <4>3. QED BY <2>2, <4>1, <4>2
    <3> HIDE DEF l
    <3>4. \A j \in DOMAIN found : UpTo(found[j], found[l])
      BY <1>6, <2>2, <3>1, <3>2
    <3>5. QED BY <2>6, <3>3, <3>4
  <2> HIDE DEF next
  <2>9. GoodPage(S, list, page, next)
    BY <1>8, <2>5, <2>7, <2>8 DEF GoodPage
  <2>10. QED BY <2>0, <2>9 DEF S
<1>9. QED BY <1>7, <1>8

LEMMA JoinedAll ==
  ASSUME NEW S, NEW a \in Seq(S), NEW b \in Seq(S), IsInjective(a), IsInjective(b),
         \A i \in DOMAIN a, j \in DOMAIN b : a[i] # b[j]
  PROVE  /\ a \o b \in Seq(S) /\ IsInjective(a \o b)
         /\ \A i \in DOMAIN (a \o b) : \/ \E j \in DOMAIN a : (a \o b)[i] = a[j]
                                     \/ \E j \in DOMAIN b : (a \o b)[i] = b[j]
         /\ \A j \in DOMAIN a : a[j] \in ToSet(a \o b)
         /\ \A j \in DOMAIN b : b[j] \in ToSet(a \o b)
<1> DEFINE c == a \o b
           n == Len(a)
           l == Len(b)
<1>1. /\ c \in Seq(S) /\ n \in Nat /\ l \in Nat /\ DOMAIN a = 1 .. n /\ DOMAIN b = 1 .. l
      /\ DOMAIN c = 1 .. n + l
  OBVIOUS
<1>2. ASSUME NEW i \in 1 .. n + l
      PROVE  \/ i \in 1 .. n /\ c[i] = a[i]
             \/ i - n \in 1 .. l /\ ~(i \in 1 .. n) /\ c[i] = b[i - n]
  BY <1>1
<1>3. \A j \in 1 .. n : j \in 1 .. n + l /\ c[j] = a[j]
  BY <1>1
<1>4. \A j \in 1 .. l : n + j \in 1 .. n + l /\ c[n + j] = b[j]
  BY <1>1
<1> HIDE DEF c, n, l
<1>5. ASSUME NEW i \in 1 .. n + l, NEW j \in 1 .. n + l, c[i] = c[j] PROVE i = j
  <2>0. i \in Nat /\ j \in Nat
    BY ONLY <1>1, <1>5
  <2>1. (i \in 1 .. n /\ c[i] = a[i]) \/ (i - n \in 1 .. l /\ c[i] = b[i - n])
    BY <1>2
  <2>2. (j \in 1 .. n /\ c[j] = a[j]) \/ (j - n \in 1 .. l /\ c[j] = b[j - n])
    BY <1>2
  <2>3. CASE i \in 1 .. n /\ c[i] = a[i] /\ j \in 1 .. n /\ c[j] = a[j]
    BY <1>1, <1>5, <2>3 DEF IsInjective
  <2>4. CASE i - n \in 1 .. l /\ c[i] = b[i - n] /\ j - n \in 1 .. l /\ c[j] = b[j - n]
    <3>1. i - n = j - n
      BY <1>1, <1>5, <2>4 DEF IsInjective
    <3>2. QED BY ONLY <2>0, <1>1, <3>1
  <2>5. QED BY <1>1, <1>5, <2>1, <2>2, <2>3, <2>4
<1>6. IsInjective(c)
  BY <1>1, <1>5 DEF IsInjective
<1>7. \A i \in DOMAIN c : (\E j \in DOMAIN a : c[i] = a[j]) \/ (\E j \in DOMAIN b : c[i] = b[j])
  BY <1>1, <1>2
<1>8. (\A j \in DOMAIN a : a[j] \in ToSet(c)) /\ (\A j \in DOMAIN b : b[j] \in ToSet(c))
  <2>1. ToSet(c) = {c[i] : i \in 1 .. n + l}
    BY <1>1 DEF ToSet
  <2>2. QED BY <1>1, <1>3, <1>4, <2>1
<1>9. QED BY <1>1, <1>6, <1>7, <1>8 DEF c
LEMMA PagesInitInv == OfficeInit => PagesInv
<1> SUFFICES ASSUME OfficeInit PROVE PagesInv
  OBVIOUS
<1>1. rows = {} /\ reader = NoWalk
  BY DEF OfficeInit
<1>2. ListOf({})
  BY FS_EmptySet DEF ListOf
<1>3. NoWalk \in Reader /\ NoWalk.begun = {} /\ ~NoWalk.done /\ NoWalk.cursor = 0 /\ NoWalk.shown = <<>>
  BY DEF NoWalk, Reader
<1>4. IsInjective(<<>>)
  BY DEF IsInjective
<1>5. QED BY <1>1, <1>2, <1>3, <1>4 DEF PagesInv

LEMMA AddedRow ==
  ASSUME PagesInv, addRow
  PROVE  PagesInv'
<1>1. PICK n : n \in ListRow /\ rows' = rows \cup {n} /\ n.id \notin {r.id : r \in rows}
  <2>1. PICK t \in Times, s \in BOOLEAN, id \in (1 .. MaxRows) \ {r.id : r \in rows} :
           rows' = rows \cup {[at |-> t, id |-> id, stranded |-> s]}
    BY DEF addRow
  <2>2. [at |-> t, id |-> id, stranded |-> s] \in ListRow
    BY DEF ListRow
  <2>3. QED BY <2>1, <2>2
<1>2. reader' = reader
  BY DEF addRow
<1>3. ListOf(rows')
  <2>1. IsFiniteSet(rows')
    BY <1>1, FS_AddElement DEF PagesInv, ListOf
  <2>2. QED BY <1>1, <2>1 DEF PagesInv, ListOf
<1>4. rows \subseteq rows' /\ reader.begun \subseteq {r.id : r \in rows}
  BY <1>1 DEF PagesInv
<1>5. \A r \in rows' : r.id \in reader.begun => r \in rows
  BY <1>3, <1>4 DEF ListOf
<1>6. ASSUME NEW c \in rows, Passed(reader, rows, c) PROVE Passed(reader, rows', c)
  BY <1>4, <1>5, <1>6 DEF Passed
<1>7. reader.begun \subseteq {r.id : r \in rows'}
  BY <1>4
<1>8. ~reader.done /\ reader.cursor # 0 => \E c \in rows' : Passed(reader, rows', c)
  BY <1>4, <1>6 DEF PagesInv
<1>9. QED BY <1>2, <1>3, <1>7, <1>8 DEF PagesInv

LEMMA OpenedList ==
  ASSUME PagesInv, NEW list \in {"transactions", "games"}, openList(list)
  PROVE  PagesInv'
<1>1. /\ reader' = [list |-> list, cursor |-> 0, shown |-> <<>>, begun |-> {r.id : r \in rows}, done |-> FALSE]
      /\ rows' = rows
  BY DEF openList, NoWalk
<1>2. {r.id : r \in rows} \subseteq 1 .. MaxRows
  BY RowIs DEF PagesInv, ListOf
<1>3. reader' \in Reader
  BY <1>1, <1>2 DEF Reader
<1>4. IsInjective(<<>>)
  BY DEF IsInjective
<1>5. QED BY <1>1, <1>3, <1>4 DEF PagesInv

LEMMA TurnedPage ==
  ASSUME PagesInv, turnPage
  PROVE  PagesInv'
<1> DEFINE S == Rest(reader.cursor)
           page == pageOf(reader.list, reader.cursor).page
           next == pageOf(reader.list, reader.cursor).next
           ids == [i \in DOMAIN page |-> page[i].id]
           all == reader.shown \o ids
<1>1. /\ reader' = [reader EXCEPT !.cursor = next, !.done = (next = 0), !.shown = all]
      /\ rows' = rows /\ ~reader.done
  BY DEF turnPage
<1>2. GoodPage(S, reader.list, page, next)
  BY PageIs DEF PagesInv
<1>3. ListOf(rows) /\ reader \in Reader /\ S \subseteq rows
  BY DEF PagesInv, Rest
<1> HIDE DEF S, page, next
<1>4. /\ page \in Seq(S) /\ \A i \in DOMAIN page : page[i] \in S
      /\ \A i, j \in DOMAIN page : page[i].id = page[j].id => i = j
  BY <1>2 DEF GoodPage
(* What the pages so far show comes before the rest, and of the rows at    *)
(* the start only the rest is still to be shown.                           *)
<1>5. /\ \A i \in DOMAIN reader.shown : \E q \in rows :
             q.id = reader.shown[i] /\ \A r \in S : newerThan(q, r)
      /\ reader.list # "games" =>
           \A r \in rows : r.id \in reader.begun /\ r \notin S => r.id \in ToSet(reader.shown)
  <2>1. CASE reader.cursor = 0
    <3>1. reader.shown = <<>>
      BY <1>1, <2>1 DEF PagesInv
    <3>2. S = rows
      BY <2>1 DEF S, Rest, after
    <3>3. QED BY <3>1, <3>2
  <2>2. CASE reader.cursor # 0
    <3>1. PICK c \in rows : Passed(reader, rows, c)
      BY <1>1, <2>2 DEF PagesInv
    <3>2. \A r \in rows : r \in S <=> newerThan(c, r)
      BY <1>3, <2>2, <3>1 DEF S, Rest, after, Passed, ListOf
    <3>3. ASSUME NEW q \in rows, UpTo(q, c), NEW r \in S PROVE newerThan(q, r)
      BY <1>3, <3>2, <3>3, NewerOrders DEF UpTo
    <3>4. ASSUME NEW r \in rows, r \notin S PROVE UpTo(r, c)
      BY <1>3, <3>2, <3>4, NewerOrders DEF UpTo
    <3>5. QED BY <3>1, <3>3, <3>4 DEF Passed
  <2>3. QED BY <2>1, <2>2
<1>6. ids \in Seq(1 .. MaxRows) /\ DOMAIN ids = DOMAIN page
  <2>1. \A i \in DOMAIN page : page[i].id \in 1 .. MaxRows
    BY <1>3, <1>4, RowIs DEF ListOf
  <2>2. Len(page) \in Nat /\ DOMAIN page = 1 .. Len(page)
    BY <1>4
  <2> DEFINE l == Len(page)
  <2> HIDE DEF l
  <2>3. ids \in [1 .. l -> 1 .. MaxRows] /\ l \in Nat
    BY <2>1, <2>2 DEF l
  <2>4. QED BY <2>2, <2>3, SeqDef DEF l
<1>7. IsInjective(ids) /\ \A i \in DOMAIN page : ids[i] = page[i].id
  BY <1>4 DEF IsInjective
<1> HIDE DEF ids
<1>8. \A i \in DOMAIN reader.shown, j \in DOMAIN ids : reader.shown[i] # ids[j]
  <2>1. SUFFICES ASSUME NEW i \in DOMAIN reader.shown, NEW j \in DOMAIN page, reader.shown[i] = page[j].id
                 PROVE  FALSE
    BY <1>6, <1>7
  <2>2. PICK q \in rows : q.id = page[j].id /\ newerThan(q, page[j])
    BY <1>4, <1>5, <2>1
  <2>3. q = page[j]
    BY <1>3, <1>4, <2>2 DEF ListOf
  <2>4. QED BY <1>3, <2>2, <2>3, NewerOrders
<1>9. reader.shown \in Seq(1 .. MaxRows) /\ IsInjective(reader.shown)
  BY <1>3 DEF PagesInv, Reader
<1>10. /\ all \in Seq(1 .. MaxRows) /\ IsInjective(all)
       /\ \A i \in DOMAIN all : \/ \E j \in DOMAIN reader.shown : all[i] = reader.shown[j]
                                \/ \E j \in DOMAIN ids : all[i] = ids[j]
       /\ \A j \in DOMAIN reader.shown : reader.shown[j] \in ToSet(all)
       /\ \A j \in DOMAIN ids : ids[j] \in ToSet(all)
  BY <1>6, <1>7, <1>8, <1>9, JoinedAll
<1> HIDE DEF all
<1>11. ToSet(reader.shown) \subseteq ToSet(all) /\ \A i \in DOMAIN page : page[i].id \in ToSet(all)
  BY <1>6, <1>7, <1>10 DEF ToSet
<1>12. next = 0 /\ reader.list # "games" => reader.begun \subseteq ToSet(all)
  <2> SUFFICES ASSUME next = 0, reader.list # "games", NEW b \in reader.begun PROVE b \in ToSet(all)
    OBVIOUS
  <2>1. PICK r \in rows : r.id = b
    BY DEF PagesInv
  <2>2. CASE r \in S
    BY <1>2, <1>11, <2>1, <2>2 DEF GoodPage
  <2>3. CASE r \notin S
    BY <1>5, <1>11, <2>1, <2>3
  <2>4. QED BY <2>2, <2>3
<1>13. next \in Nat
  <2>1. \A c \in S : c.id \in Nat
    BY <1>3, RowIs DEF ListOf
  <2>2. QED BY <1>2, <2>1 DEF GoodPage
<1>14. /\ reader' \in Reader /\ reader'.list = reader.list /\ reader'.begun = reader.begun
       /\ reader'.cursor = next /\ reader'.done = (next = 0) /\ reader'.shown = all
  BY <1>1, <1>3, <1>10, <1>13 DEF Reader
<1>15. next # 0 => \E c \in rows' : Passed(reader', rows', c)
  <2> SUFFICES ASSUME next # 0 PROVE \E c \in rows' : Passed(reader', rows', c)
    OBVIOUS
  <2>1. PICK c \in S : /\ c.id = next
                       /\ \A i \in DOMAIN page : UpTo(page[i], c)
                       /\ (reader.list # "games" =>
                             \A r \in S : UpTo(r, c) => \E i \in DOMAIN page : page[i] = r)
    BY <1>2 DEF GoodPage
  <2>2. ASSUME NEW i \in DOMAIN all PROVE \E q \in rows : q.id = all[i] /\ UpTo(q, c)
    <3>1. CASE \E j \in DOMAIN reader.shown : all[i] = reader.shown[j]
      BY <1>5, <2>1, <3>1 DEF UpTo
    <3>2. CASE \E j \in DOMAIN ids : all[i] = ids[j]
      BY <1>3, <1>4, <1>6, <1>7, <2>1, <3>2
    <3>3. QED BY <1>10, <3>1, <3>2
  <2>3. ASSUME reader.list # "games", NEW r \in rows, r.id \in reader.begun, UpTo(r, c)
        PROVE  r.id \in ToSet(all)
    <3>1. CASE r \in S
      BY <1>11, <2>1, <2>3, <3>1
    <3>2. CASE r \notin S
      BY <1>5, <1>11, <2>3, <3>2
    <3>3. QED BY <3>1, <3>2
  <2>4. Passed(reader', rows', c)
    BY <1>1, <1>14, <2>1, <2>2, <2>3 DEF Passed
  <2>5. QED BY <1>1, <1>3, <2>4
<1>16. reader'.begun \subseteq {r.id : r \in rows'}
  BY <1>1, <1>14 DEF PagesInv
<1>17. QED BY <1>1, <1>3, <1>10, <1>12, <1>14, <1>15, <1>16 DEF PagesInv

LEMMA PagesInvStep == PagesInv /\ [AdjustNext \/ PageNext]_officeVars => PagesInv'
<1> SUFFICES ASSUME PagesInv, [AdjustNext \/ PageNext]_officeVars PROVE PagesInv'
  OBVIOUS
<1>1. CASE UNCHANGED <<rows, reader>>
  BY <1>1 DEF PagesInv
<1>2. CASE AdjustNext
  <2>1. UNCHANGED <<rows, reader>>
    BY <1>2 DEF AdjustNext, otherEntry, requestAdjustment, findExisting, readCustody, updateCustody,
                commitAdjustment
  <2>2. QED BY <1>1, <2>1
<1>3. CASE PageNext
  BY <1>3, AddedRow, OpenedList, TurnedPage DEF PageNext
<1>4. CASE UNCHANGED officeVars
  BY <1>1, <1>4 DEF officeVars
<1>5. QED BY <1>2, <1>3, <1>4

LEMMA PagesInvMeans == PagesInv => PagesComplete
BY DEF PagesInv, PagesComplete

(* THEOREM.  For lists of any length and pages of any size: no page        *)
(* repeats a row, and whoever pages to the end of a list has seen every    *)
(* row that was there at the start, though rows were added meanwhile and   *)
(* some share a time (the cursors of transactions.routes.ts,               *)
(* players.routes.ts and games.routes.ts).                                 *)
THEOREM PagesLoseNothing == OfficeSpec => []PagesComplete
<1>1. OfficeInit => PagesInv
  BY PagesInitInv
<1>2. PagesInv /\ [AdjustNext \/ PageNext]_officeVars => PagesInv'
  BY PagesInvStep
<1>3. PagesInv => PagesComplete
  BY PagesInvMeans
<1>4. QED BY <1>1, <1>2, <1>3, PTL DEF OfficeSpec

=============================================================================
