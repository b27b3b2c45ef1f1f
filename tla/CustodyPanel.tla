---------------------------- MODULE CustodyPanel ----------------------------
(***************************************************************************)
(* Depositing and withdrawing from the wallet page (apps/web/src): the     *)
(* panel records an intent with the gateway, asks the wallet, waits for    *)
(* the chain and reports the signature back.  The page may be left, and    *)
(* any request, or its answer, be lost between two of these steps; a panel *)
(* that is left stops showing its flow, which runs on, and a new panel     *)
(* knows nothing of it.                                                    *)
(*                                                                         *)
(* A signature belongs to the intent it was signed for.  The gateway's     *)
(* operations are one step here, and the withdrawal fee is left out:       *)
(* CustodyFunds takes both apart.  What is typed is a pair of digit        *)
(* sequences, before and after the point.                                  *)
(***************************************************************************)
EXTENDS Integers, FiniteSets, Sequences, Sums

CONSTANTS
  Texts,            \* what the player may type
  Decimals,         \* digits of a SOL after the point
  MinLamports, ReviewThreshold,
  OpeningLamports,  \* on chain and in the books at the start
  Flows,            \* mutations that may run at once
  MaxIntents

ASSUME PanelAssumption ==
  /\ \A t \in Texts : {t.whole, t.fraction} \subseteq Seq(0..9)
  /\ {Decimals, MinLamports, ReviewThreshold, MaxIntents} \subseteq Nat \ {0}
  /\ OpeningLamports \in Nat

VARIABLES
  flow,     \* the mutation functions running
  intents,  \* the gateway's rows, their transactions, and what the player heard of them
  custody,  \* the player's pool account
  vault,    \* what the program holds for the player
  program   \* deployed, absent, or absent and known to the page to be missing

panelVars == <<flow, intents, custody, vault, program>>

NoFlow == [step |-> "idle", shown |-> FALSE, kind |-> "deposit", lamports |-> 0,
           text |-> [whole |-> <<>>, fraction |-> <<>>], id |-> 0]

PanelInit ==
  /\ flow = [f \in Flows |-> NoFlow]
  /\ intents = <<>>
  /\ custody = [balance |-> OpeningLamports, reserved |-> 0]
  /\ vault = OpeningLamports
  /\ program \in {"deployed", "absent"}

(***************************************************************************)
(* The gateway.                                                            *)
(***************************************************************************)
NewRow(f, status) ==
  [kind |-> flow[f].kind, lamports |-> flow[f].lamports, text |-> flow[f].text,
   status |-> status, signature |-> FALSE, tx |-> "unsigned",
   heard |-> IF flow[f].shown THEN "nothing" ELSE "open"]

spendableLamports == IF custody.balance > custody.reserved THEN custody.balance - custody.reserved ELSE 0

requiresReview(f) == flow[f].lamports >= ReviewThreshold

\* POST /wallet/deposits and /wallet/withdrawals: the row the intent makes.
openedRow(f) ==
  NewRow(f, IF flow[f].kind = "deposit" THEN "PENDING"
            ELSE IF requiresReview(f) THEN "PENDING_REVIEW" ELSE "APPROVED")

accepts(f) ==
  /\ Len(intents) < MaxIntents
  /\ flow[f].lamports >= MinLamports
  /\ flow[f].kind = "withdraw" => spendableLamports >= flow[f].lamports

openRow(f) ==
  /\ accepts(f)
  /\ intents' = Append(intents, openedRow(f))
  /\ custody' = IF flow[f].kind = "deposit" THEN custody
                ELSE [custody EXCEPT !.reserved = @ + flow[f].lamports]

releasedBy(row) ==
  [custody EXCEPT !.reserved = IF @ > row.lamports THEN @ - row.lamports ELSE 0]

\* A row that cannot be confirmed any more, or a balance that is short, throws.
throws(row) == [row |-> row, custody |-> custody, answer |-> "throws"]

\* The RPC node does not show the transaction, yet.  Only a withdrawal keeps
\* the signature it was told of.
notVisible(row) ==
  [row |-> IF row.kind = "deposit" THEN row
           ELSE [row EXCEPT !.status = "SUBMITTED", !.signature = TRUE],
   custody |-> custody, answer |-> "pending"]

refuted(row) ==
  [row |-> [row EXCEPT !.status = "FAILED"],
   custody |-> IF row.kind = "deposit" THEN custody ELSE releasedBy(row), answer |-> "failed"]

posts(row) ==
  [row |-> [row EXCEPT !.status = "CONFIRMED", !.signature = TRUE],
   custody |-> IF row.kind = "deposit" THEN [custody EXCEPT !.balance = @ + row.lamports]
               ELSE [releasedBy(row) EXCEPT !.balance = @ - row.lamports],
   answer |-> "confirmed"]

verified(row) == row.tx = "ok"

\* What POST /wallet/deposits/confirm and /wallet/withdrawals/confirm may do.
confirmations(row) ==
  IF row.status = "CONFIRMED" THEN {[row |-> row, custody |-> custody, answer |-> "confirmed"]}
  ELSE IF row.status \notin {"PENDING", "APPROVED", "SUBMITTED"} THEN {throws(row)}
  ELSE {notVisible(row)} \cup
       IF row.tx \notin {"ok", "err"} THEN {}
       ELSE IF ~verified(row) THEN {refuted(row)}
       ELSE IF row.kind = "withdraw" /\ custody.balance < row.lamports THEN {throws(row)}
       ELSE {posts(row)}

\* reconcileOnce: rows with a signature are confirmed again, and open rows
\* without one expire.
reconcileRow(i) ==
  /\ intents[i].signature /\ intents[i].status \in {"PENDING", "SUBMITTED"}
  /\ \E c \in confirmations(intents[i]) :
       intents' = [intents EXCEPT ![i] = c.row] /\ custody' = c.custody
  /\ UNCHANGED <<flow, vault, program>>

expireRow(i) ==
  /\ ~intents[i].signature /\ intents[i].status \in {"PENDING", "APPROVED"}
  /\ IF intents[i].kind = "deposit"
     THEN intents' = [intents EXCEPT ![i].status = "EXPIRED"] /\ UNCHANGED custody
     ELSE intents' = [intents EXCEPT ![i] = refuted(@).row]
          /\ custody' = refuted(intents[i]).custody
  /\ UNCHANGED <<flow, vault, program>>

(***************************************************************************)
(* The chain and the program.                                              *)
(***************************************************************************)
\* A deposit may fail for want of SOL, a withdrawal for want of a balance.
landTransfer(i) ==
  /\ intents[i].tx = "sent"
  /\ \E tx \in {"ok", "err"} :
       /\ tx = "ok" => program = "deployed" /\ (intents[i].kind = "withdraw" => vault >= intents[i].lamports)
       /\ intents' = [intents EXCEPT ![i].tx = tx]
       /\ vault' = IF tx = "err" THEN vault
                   ELSE IF intents[i].kind = "deposit" THEN vault + intents[i].lamports
                   ELSE vault - intents[i].lamports
  /\ UNCHANGED <<flow, custody, program>>

\* The query answers; until then the panel does not take the program for missing.
useProgramDeployed ==
  /\ program = "absent" /\ program' = "missing"
  /\ UNCHANGED <<flow, intents, custody, vault>>

(***************************************************************************)
(* The panel.                                                              *)
(***************************************************************************)
\* What the first n digits of s are worth.
digits(s) == LET worth[n \in 0..Len(s)] == IF n = 0 THEN 0 ELSE 10 * worth[n - 1] + s[n]
             IN  worth[Len(s)]

tens[n \in Nat] == IF n = 0 THEN 1 ELSE 10 * tens[n - 1]

padEnd(s) == s \o [i \in 1..(Decimals - Len(s)) |-> 0]

\* 0 also for a text that is no amount: submit refuses both.
solToLamports(t) ==
  IF Len(t.fraction) > Decimals \/ t.whole \o t.fraction = <<>> THEN 0
  ELSE digits(t.whole) * tens[Decimals] + digits(padEnd(t.fraction))

busy == \E f \in Flows : flow[f].shown
programMissing == program = "missing"

\* Flows are interchangeable: the first free one is taken.
submit(f, kind, t) ==
  /\ flow[f].step = "idle"
  /\ f = CHOOSE g \in Flows : flow[g].step = "idle"
  /\ ~busy /\ ~programMissing
  /\ solToLamports(t) > 0
  /\ flow' = [flow EXCEPT ![f] = [step |-> "creating-intent", shown |-> TRUE, kind |-> kind,
                                  lamports |-> solToLamports(t), text |-> t, id |-> 0]]
  /\ UNCHANGED <<intents, custody, vault, program>>

succeeded(status) == status = "confirmed"

\* The mutation settles, and submit clears the stage.
settles(f) == flow' = [flow EXCEPT ![f] = NoFlow]

\* The result submit shows; what a flow reports to a panel that is gone is lost.
swallows(f, row, status) ==  \* mutant: an error shows nothing
  IF ~flow[f].shown \/ status = "throws" THEN row
  ELSE [row EXCEPT !.heard = IF succeeded(status) THEN "done" ELSE "open"]

hears(f, row, status) ==
  IF ~flow[f].shown THEN row
  ELSE [row EXCEPT !.heard = IF succeeded(status) THEN "done" ELSE "open"]

\* The intent is answered; one under review ends the flow without a signature.
intentAnswered(f) ==
  /\ flow[f].step = "creating-intent"
  /\ openRow(f)
  /\ IF flow[f].kind = "withdraw" /\ requiresReview(f) THEN settles(f)
     ELSE flow' = [flow EXCEPT ![f].step = "awaiting-signature", ![f].id = Len(intents) + 1]
  /\ UNCHANGED <<vault, program>>

\* The answer is lost: the row stays, and nobody will sign for it.
intentAnswerLost(f) ==
  /\ flow[f].step = "creating-intent"
  /\ openRow(f)
  /\ settles(f)
  /\ UNCHANGED <<vault, program>>

\* The blockhash is fetched, the wallet asked, and the transaction sent.
signTransfer(f) ==
  /\ flow[f].step = "awaiting-signature"
  /\ flow' = [flow EXCEPT ![f].step = "sending"]
  /\ intents' = [intents EXCEPT ![flow[f].id].tx = "sent"]
  /\ UNCHANGED <<custody, vault, program>>

\* confirmTransaction resolves, whether or not the transaction failed on chain,
\* and the signature is reported; the answer may be lost.
confirmAnswered(f) ==
  /\ flow[f].step = "sending" /\ intents[flow[f].id].tx \in {"ok", "err"}
  /\ \E c \in confirmations(intents[flow[f].id]), lost \in BOOLEAN :
       LET status == IF lost THEN "throws" ELSE c.answer
       IN /\ intents' = [intents EXCEPT ![flow[f].id] = hears(f, c.row, status)]
          /\ custody' = c.custody
          /\ settles(f)
  /\ UNCHANGED <<vault, program>>

\* An await throws before it has done anything: a refused or lost request, a
\* wallet that rejects, a blockhash that expires.
flowThrows(f) ==
  /\ flow[f].step # "idle"
  /\ settles(f)
  /\ intents' = IF flow[f].id = 0 THEN intents
                ELSE [intents EXCEPT ![flow[f].id] = hears(f, @, "throws")]
  /\ UNCHANGED <<custody, vault, program>>

\* The player leaves the panel, or the page dies with its flows, and a new one
\* opens; what was running leaves the player without an answer.
abandoned ==
  [i \in 1..Len(intents) |->
     IF \E f \in Flows : flow[f].id = i /\ flow[f].shown THEN [intents[i] EXCEPT !.heard = "open"]
     ELSE intents[i]]

leavePanel ==
  /\ intents' = abandoned
  /\ \/ flow' = [f \in Flows |-> [flow[f] EXCEPT !.shown = FALSE]] /\ UNCHANGED program
     \/ flow' = [f \in Flows |-> NoFlow] /\ program' = IF programMissing THEN "absent" ELSE program
  /\ UNCHANGED <<custody, vault>>

PanelNext ==
  \/ \E f \in Flows :
       \/ \E kind \in {"deposit", "withdraw"}, t \in Texts : submit(f, kind, t)
       \/ intentAnswered(f) \/ intentAnswerLost(f) \/ signTransfer(f)
       \/ confirmAnswered(f) \/ flowThrows(f)
  \/ \E i \in 1..Len(intents) : landTransfer(i) \/ reconcileRow(i) \/ expireRow(i)
  \/ useProgramDeployed \/ leavePanel

PanelSpec == PanelInit /\ [][PanelNext]_panelVars

(***************************************************************************)
(* Properties.                                                             *)
(***************************************************************************)
\* A panel that reports a deposit or a withdrawal as done speaks of a transfer
\* that succeeded on chain and is in the books, though confirmTransaction
\* resolves for one that failed.
DoneIsBooked ==
  \A i \in 1..Len(intents) :
    intents[i].heard = "done" => intents[i].tx = "ok" /\ intents[i].status = "CONFIRMED"

\* A transfer that moved money and is not in the books is still being followed
\* by a flow on screen, or the player was told it is not done, or left before
\* the answer: no flow ends well over it.
UnbookedIsKnown ==
  \A i \in 1..Len(intents) :
    intents[i].tx = "ok" /\ intents[i].status # "CONFIRMED" =>
      \/ intents[i].heard = "open"
      \/ \E f \in Flows : flow[f].id = i /\ flow[f].shown

typed(t) == digits(t.whole) * tens[Decimals] + digits(t.fraction) * tens[Decimals - Len(t.fraction)]

typedIn(kind, S) ==
  Total([i \in 1..Len(intents) |->
           IF i \in S /\ intents[i].kind = kind THEN typed(intents[i].text) ELSE 0])

landed == {i \in 1..Len(intents) : intents[i].tx = "ok"}
booked == {i \in 1..Len(intents) : intents[i].status = "CONFIRMED"}

\* What the player typed is what moves: the program holds for the player the
\* opening amount and every transfer that succeeded, and the books every one
\* that was confirmed, each to the lamport of the decimal text.
TypedIsMoved ==
  /\ vault + typedIn("withdraw", landed) = OpeningLamports + typedIn("deposit", landed)
  /\ custody.balance + typedIn("withdraw", booked) = OpeningLamports + typedIn("deposit", booked)

\* However requests, answers and pages get lost, what was typed is what moves,
\* and the panel never reports as done what the books do not have (submit).
PanelInv == DoneIsBooked /\ UnbookedIsKnown /\ TypedIsMoved
=============================================================================
