---------------------------- MODULE CustodyFunds ----------------------------
(***************************************************************************)
(* One player's custody account: deposits and withdrawals confirmed        *)
(* against the chain (apps/gateway/src/services), entry-fee reservations   *)
(* (packages/db/src/stake.ts) and the reconciler that closes what clients  *)
(* leave open.                                                             *)
(*                                                                         *)
(* A task's step ends at an await.  Postgres runs at read committed, so an *)
(* account read early in a transaction may have changed when the           *)
(* transaction writes; only a write that names the version it read         *)
(* notices.  Every entry of this player moves the custody account, so its  *)
(* version also stands for those of the external and treasury accounts;    *)
(* entries of other players that meet this one on those two make the call  *)
(* fail, as CallFails allows.  The chain is external: a signed transaction *)
(* may land, and be seen, at any time or never.  The clock is left out: an *)
(* intent may be past its fifteen minutes whenever it is still open.       *)
(***************************************************************************)
EXTENDS Integers, FiniteSets, Sums

CONSTANTS
  Deposits, Withdrawals,  \* intents, by id
  Tiers,                  \* rooms with an entry fee
  entryFeeLamports,       \* of each tier
  Signatures,             \* transactions the player may have signed
  Transaction,            \* what each does on chain: ok, pool delta, treasury delta
  Amounts,                \* what an intent may be opened for
  MinLamports, ReviewThreshold, FeeBps,
  Opening,                \* lamports from earlier deposits
  Clients, Reconcilers,
  None,                   \* no signature, no holder
  Orphan,                 \* the holder of a lock whose task has died
  MaxRequests,            \* bound on client requests
  MaxMishaps              \* bound on failed calls, crashes and lapsed locks

Intents == Deposits \cup Withdrawals
Tasks == Clients \cup Reconcilers

ASSUME CustodyAssumption ==
  /\ IsFiniteSet(Intents) /\ IsFiniteSet(Tiers)
  /\ Deposits \cap Withdrawals = {}
  /\ entryFeeLamports \in [Tiers -> Nat \ {0}]
  /\ Transaction \in [Signatures -> [ok : BOOLEAN, pool : Int, treasury : Nat]]
  /\ \A s \in Signatures : ~Transaction[s].ok => Transaction[s].pool = 0
  /\ Amounts \subseteq Nat
  /\ MinLamports \in Nat \ {0} /\ ReviewThreshold \in Nat /\ FeeBps \in 0 .. 200
  /\ Opening \in Nat
  /\ Clients \cap Reconcilers = {}
  /\ None \notin Signatures \cup Tasks /\ Orphan \notin Tasks \cup {None}
  /\ MaxRequests \in Nat /\ MaxMishaps \in Nat

VARIABLES
  account,   \* the player's pool account: balance, reserved, version
  external,  \* balance of the external pool, minus the earlier deposits
  treasury,  \* balance of the treasury pool
  posted,    \* lamports of the entry posted under an intent's idempotency key, or 0
  row,       \* the deposit and withdrawal rows
  freed,     \* history: withdrawals whose reservation has been given back
  stakes,    \* tiers with a stake reservation
  chain,     \* transactions that have landed, and what the program owes the player
  lock,      \* who holds the Redis lock of an intent
  task,      \* what every request and reconciler is doing
  requests, mishaps

vars == <<account, external, treasury, posted, freed, row, stakes, chain, lock, task, requests, mishaps>>

books == <<account, external, treasury, posted, freed>>
bounds == <<requests, mishaps>>

DepositStatus == {"PENDING", "CONFIRMED", "FAILED", "EXPIRED"}
WithdrawalStatus == {"PENDING_REVIEW", "APPROVED", "SUBMITTED", "CONFIRMED", "FAILED"}

PC == {"idle", "row", "duplicate", "chain", "submit", "fail", "read", "commit", "free", "freed",
       "mark", "release", "unlock"}
Op == {"deposit", "withdrawal", "refused", "open", "stake", "unstake", "expire"}
Confirming == {"deposit", "withdrawal", "refused"}  \* tasks that hold an intent's lock

Account == [balance : Nat, reserved : Nat, version : Nat]
Row == [status : DepositStatus \cup WithdrawalStatus \cup {"none"}, lamports : Nat,
        sig : Signatures \cup {None}]

Task ==
  [pc : PC, op : Op, id : Intents \cup Tiers \cup {None}, sig : Signatures \cup {None},
   amount : Nat, seen : Account, todo : SUBSET Withdrawals]

Nothing == [balance |-> 0, reserved |-> 0, version |-> 0]
Idle == [pc |-> "idle", op |-> "open", id |-> None, sig |-> None, amount |-> 0,
         seen |-> Nothing, todo |-> {}]

TypeOK ==
  /\ account \in Account
  /\ external \in Int /\ treasury \in Nat
  /\ posted \in [Intents -> Nat]
  /\ row \in [Intents -> Row]
  /\ \A d \in Deposits : row[d].status \in DepositStatus \cup {"none"}
  /\ \A w \in Withdrawals : row[w].status \in WithdrawalStatus \cup {"none"}
  /\ freed \subseteq Withdrawals
  /\ stakes \subseteq Tiers
  /\ chain \in [landed : SUBSET Signatures, balance : Nat]
  /\ lock \in [Intents -> Tasks \cup {None, Orphan}]
  /\ task \in [Tasks -> Task]
  /\ requests \in 0 .. MaxRequests /\ mishaps \in 0 .. MaxMishaps

(* Some deposit intents may be open already. *)
Init ==
  /\ account = [balance |-> Opening, reserved |-> 0, version |-> 0]
  /\ external = 0 /\ treasury = 0
  /\ posted = [i \in Intents |-> 0]
  /\ \E D \in SUBSET Deposits, a \in { b \in Amounts : b >= MinLamports } :
       row = [i \in Intents |-> IF i \in D THEN [status |-> "PENDING", lamports |-> a, sig |-> None]
                                          ELSE [status |-> "none", lamports |-> 0, sig |-> None]]
  /\ freed = {}
  /\ stakes = {}
  /\ chain = [landed |-> {}, balance |-> Opening]
  /\ lock = [i \in Intents |-> None]
  /\ task = [x \in Tasks |-> Idle]
  /\ requests = 0 /\ mishaps = 0

(***************************************************************************)
(* The player and the chain.                                               *)
(***************************************************************************)

(* A deposit or a withdraw of the arena program.  The program holds a      *)
(* withdrawal to the player's balance; no intent is needed for either.     *)
Land(s) ==
  /\ s \notin chain.landed
  /\ chain.balance + Transaction[s].pool >= 0
  /\ chain' = [landed |-> chain.landed \cup {s}, balance |-> chain.balance + Transaction[s].pool]
  /\ UNCHANGED <<books, row, stakes, lock, task, bounds>>

(* verify-custody.ts.  ok: no error, the program invoked, the wallet signed. *)
verifyDeposit(s, expected) ==
  Transaction[s].ok /\ Transaction[s].pool > 0 /\ Transaction[s].pool >= expected

fee(gross) == (gross * FeeBps) \div 10000

verifyWithdrawal(s, gross) ==
  Transaction[s].ok /\ Transaction[s].pool = -gross /\ Transaction[s].treasury = fee(gross)

Verified(i, s) ==
  IF i \in Deposits THEN verifyDeposit(s, row[i].lamports) ELSE verifyWithdrawal(s, row[i].lamports)

(***************************************************************************)
(* Tasks.                                                                  *)
(***************************************************************************)

At(x, pc) == task[x].pc = pc
Go(x, pc) == task' = [task EXCEPT ![x].pc = pc]

Request == requests < MaxRequests /\ requests' = requests + 1

spendable(a) == IF a.balance > a.reserved THEN a.balance - a.reserved ELSE 0

createDepositIntent(d, a) ==
  /\ Request
  /\ row[d].status = "none"
  /\ a >= MinLamports
  /\ row' = [row EXCEPT ![d] = [status |-> "PENDING", lamports |-> a, sig |-> None]]
  /\ UNCHANGED <<books, stakes, chain, lock, task, mishaps>>

(* The reads of a transaction that will write the account. *)
BeginTransaction(x, op, id, a) ==
  /\ Request
  /\ At(x, "idle")
  /\ task' = [task EXCEPT ![x] = [Idle EXCEPT !.pc = "commit", !.op = op, !.id = id,
                                              !.amount = a, !.seen = account]]
  /\ UNCHANGED <<books, row, stakes, chain, lock, mishaps>>

createWithdrawalIntent(x, w, a) ==
  /\ row[w].status = "none"
  /\ \A y \in Tasks : task[y].id # w
  /\ a >= MinLamports
  /\ spendable(account) >= a
  /\ BeginTransaction(x, "open", w, a)

reserveEntryFee(x, t) ==
  /\ t \notin stakes
  /\ spendable(account) >= entryFeeLamports[t]
  /\ BeginTransaction(x, "stake", t, entryFeeLamports[t])

releaseEntryFee(x, t) ==
  /\ t \in stakes
  /\ BeginTransaction(x, "unstake", t, entryFeeLamports[t])

(* Clamped at zero. *)
Less(reserved, amount) == IF reserved > amount THEN reserved - amount ELSE 0

VersionHolds(x) == account.version = task[x].seen.version

Finish(x) == task' = [task EXCEPT ![x] = Idle]

CommitIntent(x) ==
  /\ At(x, "commit") /\ task[x].op = "open" /\ VersionHolds(x)
  /\ account' = [account EXCEPT !.reserved = task[x].seen.reserved + task[x].amount,
                                !.version = @ + 1]
  /\ row' = [row EXCEPT ![task[x].id] =
               [status |-> IF task[x].amount >= ReviewThreshold THEN "PENDING_REVIEW"
                                                                ELSE "APPROVED",
                lamports |-> task[x].amount, sig |-> None]]
  /\ Finish(x)
  /\ UNCHANGED <<external, treasury, posted, freed, stakes, chain, lock, bounds>>

CommitStake(x) ==
  /\ At(x, "commit") /\ task[x].op = "stake" /\ VersionHolds(x)
  /\ account' = [account EXCEPT !.reserved = task[x].seen.reserved + task[x].amount,
                                !.version = @ + 1]
  /\ stakes' = stakes \cup {task[x].id}
  /\ Finish(x)
  /\ UNCHANGED <<external, treasury, posted, freed, row, chain, lock, bounds>>

CommitRelease(x) ==
  /\ At(x, "commit") /\ task[x].op = "unstake" /\ VersionHolds(x)
  /\ account' = [account EXCEPT !.reserved = Less(task[x].seen.reserved, task[x].amount),
                                !.version = @ + 1]
  /\ stakes' = stakes \ {task[x].id}
  /\ Finish(x)
  /\ UNCHANGED <<external, treasury, posted, freed, row, chain, lock, bounds>>

(***************************************************************************)
(* confirmDeposit and confirmWithdrawal, one action per await.             *)
(***************************************************************************)

(* The lock is refused while it is held: nothing happens then. *)
Confirm(x, i, s) ==
  /\ At(x, "idle")
  /\ lock[i] = None
  /\ lock' = [lock EXCEPT ![i] = x]
  /\ task' = [task EXCEPT ![x] = [Idle EXCEPT !.pc = "row", !.id = i, !.sig = s,
                !.op = IF i \in Deposits THEN "deposit" ELSE "withdrawal"]]
  /\ UNCHANGED <<books, row, stakes, chain, mishaps>>

ClientConfirms(x, i, s) ==
  /\ Request
  /\ row[i].status # "none"
  /\ Confirm(x, i, s)

(* What a step leaves alone that only moves its task. *)
Local == UNCHANGED <<books, row, stakes, chain, lock, bounds>>

ReadRow(x) ==
  /\ At(x, "row")
  /\ Go(x, IF row[task[x].id].status \in {"PENDING", "APPROVED", "SUBMITTED"}
           THEN "duplicate" ELSE "release")
  /\ Local

(* txSignature is unique within each table. *)
SameTable(i) == IF i \in Deposits THEN Deposits ELSE Withdrawals
Recorded(i, s) == \E j \in SameTable(i) \ {i} : row[j].sig = s

ReadDuplicate(x) ==
  /\ At(x, "duplicate")
  /\ Go(x, IF Recorded(task[x].id, task[x].sig) THEN "release" ELSE "chain")
  /\ Local

getParsedTransaction(x) ==
  /\ At(x, "chain")
  /\ LET i == task[x].id
         s == task[x].sig IN
     Go(x, IF s \in chain.landed THEN IF Verified(i, s) THEN "read" ELSE "fail"
           ELSE IF i \in Deposits THEN "release" ELSE "submit")
  /\ Local

(* A unique violation throws. *)
Update(i, status, s) ==
  row' = IF Recorded(i, s) THEN row ELSE [row EXCEPT ![i].status = status, ![i].sig = s]

MarkSubmitted(x) ==
  /\ At(x, "submit")
  /\ Update(task[x].id, "SUBMITTED", task[x].sig)
  /\ Go(x, "release")
  /\ UNCHANGED <<books, stakes, chain, lock, bounds>>

MarkFailed(x) ==
  /\ At(x, "fail")
  /\ row' = [row EXCEPT ![task[x].id].status = "FAILED"]
  /\ task' = [task EXCEPT ![x].pc = IF task[x].op = "deposit" THEN "release" ELSE "free",
                          ![x].op = IF @ = "withdrawal" THEN "refused" ELSE @]
  /\ UNCHANGED <<books, stakes, chain, lock, bounds>>

(* The entry of a verified intent: what the chain says of a deposit, what  *)
(* the row says of a withdrawal.                                           *)
Lamports(i, s) == IF i \in Deposits THEN Transaction[s].pool ELSE row[i].lamports

postEntryReads(x) ==
  /\ At(x, "read")
  /\ task' = [task EXCEPT ![x].pc = "commit", ![x].seen = account,
                          ![x].amount = Lamports(task[x].id, task[x].sig)]
  /\ Local

(* The checks of postEntry in their order.  A withdrawal's first leg       *)
(* debits custody, and is refused before its idempotency key is looked at; *)
(* a deposit's first leg debits external, which may go negative.           *)
Insufficient(x) == task[x].op = "withdrawal" /\ task[x].seen.balance < task[x].amount

(* A version that moved, or a balance that is short, rolls back. *)
Rollback(x) ==
  /\ At(x, "commit")
  /\ ~VersionHolds(x) \/ Insufficient(x)
  /\ IF task[x].op \in Confirming THEN Go(x, "release") ELSE Finish(x)
  /\ Local

AfterPost(x) == IF task[x].op = "deposit" THEN "mark" ELSE "free"

KeyIgnored(i) == TRUE  \* mutant: no unique idempotency key

Unposted(i) == posted[i] = 0

AlreadyPosted(x) ==
  /\ At(x, "commit") /\ VersionHolds(x)
  /\ task[x].op \in {"deposit", "withdrawal"} /\ ~Insufficient(x)
  /\ ~Unposted(task[x].id)
  /\ Go(x, AfterPost(x))
  /\ Local

postEntry(x) ==
  /\ At(x, "commit") /\ VersionHolds(x)
  /\ task[x].op \in {"deposit", "withdrawal"} /\ ~Insufficient(x)
  /\ Unposted(task[x].id)
  /\ posted' = [posted EXCEPT ![task[x].id] = task[x].amount]
  /\ \/ /\ task[x].op = "deposit"
        /\ account' = [account EXCEPT !.balance = task[x].seen.balance + task[x].amount,
                                      !.version = @ + 1]
        /\ external' = external - task[x].amount
        /\ UNCHANGED treasury
     \/ /\ task[x].op = "withdrawal"
        /\ account' = [account EXCEPT !.balance = task[x].seen.balance - task[x].amount,
                                      !.version = @ + 1]
        /\ external' = external + task[x].amount - fee(task[x].amount)
        /\ treasury' = treasury + fee(task[x].amount)
  /\ Go(x, AfterPost(x))
  /\ UNCHANGED <<freed, row, stakes, chain, lock, bounds>>

(* The loop of expireStaleWithdrawals over the rows it has left. *)
ExpireNext(x, left) ==
  IF left = {} THEN Finish(x)
  ELSE \E w \in left :
         task' = [task EXCEPT ![x] = [Idle EXCEPT !.pc = "fail", !.op = "expire", !.id = w,
                                                  !.todo = left \ {w}]]

(* releaseReservation: a read, then a write that names no version. *)
releaseReads(x) ==
  /\ At(x, "free")
  /\ task' = [task EXCEPT ![x].pc = "freed", ![x].seen = account]
  /\ Local

releaseReservation(x) ==
  /\ At(x, "freed")
  /\ account' = [account EXCEPT !.reserved = Less(task[x].seen.reserved, row[task[x].id].lamports)]
  /\ freed' = freed \cup {task[x].id}
  /\ \/ task[x].op = "withdrawal" /\ Go(x, "mark")
     \/ task[x].op = "refused" /\ Go(x, "release")
     \/ task[x].op = "expire" /\ ExpireNext(x, task[x].todo)
  /\ UNCHANGED <<external, treasury, posted, row, stakes, chain, lock, bounds>>

MarkConfirmed(x) ==
  /\ At(x, "mark")
  /\ Update(task[x].id, "CONFIRMED", task[x].sig)
  /\ Go(x, "release")
  /\ UNCHANGED <<books, stakes, chain, lock, bounds>>

(* The release of acquireLock compares the token in one call and deletes   *)
(* the key in the next.                                                    *)
CompareToken(x) ==
  /\ At(x, "release")
  /\ IF lock[task[x].id] = x THEN Go(x, "unlock") ELSE Finish(x)
  /\ Local

Unlock(x) ==
  /\ At(x, "unlock")
  /\ lock' = [lock EXCEPT ![task[x].id] = None]
  /\ Finish(x)
  /\ UNCHANGED <<books, row, stakes, chain, bounds>>

(***************************************************************************)
(* The reconciler.                                                         *)
(***************************************************************************)

UnconfirmedDeposit(i) == row[i].status = "PENDING" /\ row[i].sig # None  \* mutant: SUBMITTED rows are left

(* confirmDeposit keeps no signature while a deposit is PENDING, so only   *)
(* withdrawals are ever found here.                                        *)
Unconfirmed(i) == row[i].status \in {"PENDING", "SUBMITTED"} /\ row[i].sig # None

Recover(x, i) ==
  /\ Unconfirmed(i)
  /\ Confirm(x, i, row[i].sig)
  /\ UNCHANGED requests

expireStaleDeposits(x, d) ==
  /\ At(x, "idle")
  /\ row[d].status = "PENDING" /\ row[d].sig = None
  /\ row' = [row EXCEPT ![d].status = "EXPIRED"]
  /\ UNCHANGED <<books, stakes, chain, lock, task, bounds>>

Stale == { w \in Withdrawals : row[w].status = "APPROVED" /\ row[w].sig = None }

(* The query; the rows are failed one after another, whatever they have    *)
(* become since.                                                           *)
expireStaleWithdrawals(x) ==
  /\ At(x, "idle")
  /\ \E old \in SUBSET Stale \ {{}} : ExpireNext(x, old)
  /\ Local

(***************************************************************************)
(* What goes wrong.                                                        *)
(***************************************************************************)

Mishap == mishaps < MaxMishaps /\ mishaps' = mishaps + 1

(* A call to Postgres or to the RPC node throws: finally releases the lock. *)
CallFails(x) ==
  /\ Mishap
  /\ task[x].pc \notin {"idle", "release", "unlock"}
  /\ IF task[x].op \in Confirming THEN Go(x, "release") ELSE Finish(x)
  /\ UNCHANGED <<books, row, stakes, chain, lock, requests>>

Crash(x) ==
  /\ Mishap
  /\ ~At(x, "idle")
  /\ Finish(x)
  /\ lock' = [i \in Intents |-> IF lock[i] = x THEN Orphan ELSE lock[i]]
  /\ UNCHANGED <<books, row, stakes, chain, requests>>

(* Thirty seconds pass: for a lock nobody will release, or under a task    *)
(* that is still at work.                                                  *)
OrphanExpires(i) ==
  /\ lock[i] = Orphan
  /\ lock' = [lock EXCEPT ![i] = None]
  /\ UNCHANGED <<books, row, stakes, chain, task, bounds>>

LockLapses(i) ==
  /\ Mishap
  /\ lock[i] \in Tasks
  /\ lock' = [lock EXCEPT ![i] = None]
  /\ UNCHANGED <<books, row, stakes, chain, task, requests>>

Step(x) ==
  \/ CommitIntent(x) \/ CommitStake(x) \/ CommitRelease(x)
  \/ ReadRow(x) \/ ReadDuplicate(x) \/ getParsedTransaction(x)
  \/ MarkSubmitted(x) \/ MarkFailed(x) \/ postEntryReads(x)
  \/ Rollback(x) \/ AlreadyPosted(x) \/ postEntry(x)
  \/ releaseReads(x) \/ releaseReservation(x) \/ MarkConfirmed(x)
  \/ CompareToken(x) \/ Unlock(x)

Client(x) ==
  \/ \E w \in Withdrawals, a \in Amounts : createWithdrawalIntent(x, w, a)
  \/ \E t \in Tiers : reserveEntryFee(x, t)
  \/ \E t \in Tiers : releaseEntryFee(x, t)
  \/ \E i \in Intents, s \in Signatures : ClientConfirms(x, i, s)

Reconciler(x) ==
  \/ \E i \in Intents : Recover(x, i)
  \/ \E d \in Deposits : expireStaleDeposits(x, d)
  \/ expireStaleWithdrawals(x)

Next ==
  \/ \E s \in Signatures : Land(s)
  \/ \E d \in Deposits, a \in Amounts : createDepositIntent(d, a)
  \/ \E x \in Clients : Client(x)
  \/ \E x \in Reconcilers : Reconciler(x)
  \/ \E x \in Tasks : Step(x) \/ CallFails(x) \/ Crash(x)
  \/ \E i \in Intents : OrphanExpires(i) \/ LockLapses(i)

Spec == Init /\ [][Next]_vars

(* A task that has begun goes on; a lock nobody holds expires; a pass of   *)
(* the reconciler comes round to every row it finds.                       *)
Fairness ==
  /\ \A x \in Tasks : WF_vars(Step(x))
  /\ \A i \in Intents : WF_vars(OrphanExpires(i))
  /\ \A x \in Reconcilers, i \in Intents : SF_vars(Recover(x, i))
  /\ \A x \in Reconcilers : SF_vars(expireStaleWithdrawals(x))

FairSpec == Spec /\ Fairness

(***************************************************************************)
(* Properties.                                                             *)
(***************************************************************************)

Posted(S) == Total([i \in S |-> posted[i]])

(* postEntry loses no update and posts no entry twice, whichever locks     *)
(* lapse and whoever crashes: every pool account is what its posted legs   *)
(* add up to (checkLedgerInvariant, held account by account).              *)
BooksMatchLegs ==
  /\ account.balance = Opening + Posted(Deposits) - Posted(Withdrawals)
  /\ account.balance + external + treasury = Opening
  /\ treasury = Total([w \in Withdrawals |-> fee(posted[w])])

(* A row says CONFIRMED only of money that moved: its entry is posted, for *)
(* at least what a deposit asked and exactly what a withdrawal asked, and  *)
(* its signature has landed and stands on no other confirmed row           *)
(* (confirmDeposit, confirmWithdrawal).                                    *)
ConfirmedIsOnChain ==
  \A i \in Intents : row[i].status = "CONFIRMED" =>
    /\ row[i].sig \in chain.landed
    /\ i \in Deposits => posted[i] >= row[i].lamports
    /\ i \in Withdrawals => posted[i] = row[i].lamports
    /\ \A j \in SameTable(i) \ {i} : row[j].sig # row[i].sig

(* Lamports spoken for: stakes, and withdrawals not yet given back. *)
Committed ==
  Total([t \in stakes |-> entryFeeLamports[t]])
    + Total([w \in Withdrawals \ freed |-> row[w].lamports])

(* Until the first reservation of a withdrawal is given back, reserved is  *)
(* exactly what stakes and withdrawals have spoken for, whichever requests *)
(* meet, and the balance covers what of it is still to be paid             *)
(* (reserveEntryFee, releaseEntryFee, createWithdrawalIntent, postEntry).  *)
(* From then on releaseReservation, which names no version, may undo       *)
(* another's reservation.                                                  *)
ReservedIsCommitted ==
  freed = {} =>
    /\ account.reserved = Committed
    /\ Committed - Posted(Withdrawals) <= account.balance

(* The books of one custody account under requests, the reconciler and     *)
(* lapsing locks: accounts are what their entries add up to and nothing    *)
(* posts twice, a confirmed row is backed by the chain, and what is        *)
(* reserved is what is spoken for (postEntry, the confirmations,           *)
(* reserveEntryFee, createWithdrawalIntent).                               *)
CustodyInv == TypeOK /\ BooksMatchLegs /\ ConfirmedIsOnChain /\ ReservedIsCommitted

(* An approved or submitted withdrawal does not stay open for ever: one    *)
(* that was never signed expires, one whose transaction landed is          *)
(* confirmed or refused, unless the balance no longer covers an entry that *)
(* may have been posted already (reconcileOnce).                           *)
WithdrawalEnds ==
  \A w \in Withdrawals :
    (\/ row[w].status = "APPROVED"
     \/ row[w].status = "SUBMITTED" /\ row[w].sig \in chain.landed)
    ~> \/ row[w].status \notin {"APPROVED", "SUBMITTED"}
       \/ row[w].status = "SUBMITTED" /\ row[w].sig \notin chain.landed
       \/ posted[w] > 0 /\ account.balance < row[w].lamports
=============================================================================
