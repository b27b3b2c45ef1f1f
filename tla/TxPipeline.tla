----------------------------- MODULE TxPipeline -----------------------------
(***************************************************************************)
(* How the service gets a signed transaction onto the chain                *)
(* (packages/solana/src): sendSigned wraps withRetry around withFailover   *)
(* around build and sendAndConfirm.  Every attempt on an endpoint builds   *)
(* a transaction with a fresh blockhash, sends it, and polls for its       *)
(* status until it lands, is refused, or can no longer be waited for.      *)
(* The pool's index is shared by every call in flight.  Endpoints and the  *)
(* chain are external: an answer may be lost, late or wrong-footed by a    *)
(* node that lags, and a leader may drop a transaction in silence.         *)
(***************************************************************************)
EXTENDS Integers, FiniteSets

CONSTANTS EndpointCount, \* endpoints of the pool
          MaxAttempts,   \* withRetry of sendSigned (4 in the code)
          MaxSends,      \* withRetry of one sendRawTransaction (3 in the code)
          MaxPolls       \* rounds of polling before timeoutMs

ASSUME PipelineAssumption == {EndpointCount, MaxAttempts, MaxSends, MaxPolls} \subseteq Nat \ {0}

VARIABLES index, \* RpcPool.index
          call,  \* the call's place in the nested loops
          txs    \* the transactions it has built, by the order they were built in

txVars == <<index, call, txs>>

\* tried: the endpoints of this attempt; moved: another call moved the index
\* during it; lost: a node took a transaction and its answer was lost; tx: the
\* number of the transaction under way.
TxInit ==
  /\ index = 0
  /\ call = [pc |-> "idle", attempt |-> 0, leg |-> 0, sends |-> 0, polls |-> 0,
             result |-> "none", tried |-> {}, moved |-> FALSE, lost |-> FALSE, tx |-> 0]
  /\ txs = <<>>

Latest == call.tx
Waiting(tx) == tx.live /\ tx.status = "none"

(***************************************************************************)
(* The chain, its nodes and the other calls on the pool.                   *)
(***************************************************************************)
\* A leader includes a transaction it holds while its blockhash is valid.
land(n) ==
  /\ txs[n].held /\ Waiting(txs[n])
  /\ \E outcome \in {"ok", "err"} : txs' = [txs EXCEPT ![n].status = outcome]
  /\ UNCHANGED <<index, call>>

\* A leader drops it, and nothing says so.
drop(n) ==
  /\ txs[n].held /\ txs[n].status = "none"
  /\ txs' = [txs EXCEPT ![n].held = FALSE]
  /\ UNCHANGED <<index, call>>

\* The block height passes its lastValidBlockHeight.
expire(n) ==
  /\ txs[n].live
  /\ txs' = [txs EXCEPT ![n].live = FALSE]
  /\ UNCHANGED <<index, call>>

\* Another call fails over.
failover ==
  /\ call.pc # "idle"
  /\ index' = (index + 1) % EndpointCount
  /\ call' = [call EXCEPT !.moved = TRUE]
  /\ UNCHANGED txs

(***************************************************************************)
(* Errors.  Of what the pipeline meets, a transient RPC failure may be     *)
(* tried again; a program error, a confirmation timeout and an RPC error   *)
(* nobody recognises may not.                                              *)
(***************************************************************************)
timeoutsToo(error) == error \in {"transient", "timeout"}  \* mutant: a timeout is sent again
isRetryable(error) == error = "transient"
\* The name under which toServiceError hands an error to the caller.
toServiceError(error) == IF error = "transient" THEN "rpc" ELSE error

\* One turn of withFailover's loop, on the endpoint the index names now.
leg(c, n, at) == [c EXCEPT !.pc = "build", !.leg = n, !.tried = @ \cup {at}]

\* fn threw: withFailover moves the shared index and goes round again, or
\* gives up; then withRetry sleeps before another attempt, or throws.
withFailover(c, error) ==
  LET next == (index + 1) % EndpointCount
      over == ~isRetryable(error) \/ (c.leg + 1 >= EndpointCount /\ c.attempt >= MaxAttempts)
  IN /\ index' = IF isRetryable(error) THEN next ELSE index
     /\ call' = IF over THEN [c EXCEPT !.pc = "done", !.result = toServiceError(error)]
                ELSE IF c.leg + 1 < EndpointCount THEN leg(c, c.leg + 1, next)
                ELSE [c EXCEPT !.pc = "backoff"]

(***************************************************************************)
(* The call.                                                               *)
(***************************************************************************)
sendSigned ==
  /\ call.pc = "idle"
  /\ call' = [leg(call, 0, index) EXCEPT !.attempt = 1]
  /\ UNCHANGED <<index, txs>>

\* The next attempt of withRetry, once the backoff is over.
withRetry ==
  /\ call.pc = "backoff"
  /\ call' = leg([call EXCEPT !.attempt = @ + 1, !.tried = {}, !.moved = FALSE], 0, index)
  /\ UNCHANGED <<index, txs>>

\* Of the transactions given up, those that landed or still may.
Mattering(tx) == tx.status = "ok" \/ (tx.held /\ Waiting(tx))
FreshTx == [held |-> FALSE, live |-> TRUE, status |-> "none"]
rebuilt == [n \in {m \in DOMAIN txs : Mattering(txs[m])} \cup {Latest + 1} |->
              IF n = Latest + 1 THEN FreshTx ELSE txs[n]]
sending(n) == [call EXCEPT !.pc = "send", !.sends = 0, !.polls = 0, !.tx = n]

\* TransactionBuilder.build: the blockhash of the last transaction, if it is
\* still the latest, makes the very same transaction again.
build ==
  /\ call.pc = "build"
  /\ \/ /\ \/ txs' = rebuilt /\ call' = sending(Latest + 1)
           \/ Latest # 0 /\ txs[Latest].live /\ UNCHANGED txs /\ call' = sending(Latest)
        /\ UNCHANGED index
     \/ UNCHANGED txs /\ \E error \in {"transient", "rpc"} : withFailover(call, error)

\* sendRawTransaction failed: the same bytes again, or the error goes up.
sendFailed(c, error) ==
  IF isRetryable(error) /\ c.sends + 1 < MaxSends
  THEN call' = [c EXCEPT !.sends = @ + 1] /\ UNCHANGED index
  ELSE withFailover(c, error)

\* sendRawTransaction under its own withRetry.  Preflight refuses what the
\* program refuses, an expired blockhash, and a transaction already on chain.
sendRawTransaction ==
  /\ call.pc = "send"
  /\ \/ /\ Waiting(txs[Latest])
        /\ txs' = [txs EXCEPT ![Latest].held = TRUE]
        /\ \/ call' = [call EXCEPT !.pc = "poll"] /\ UNCHANGED index
           \/ sendFailed([call EXCEPT !.lost = TRUE], "transient")
     \/ /\ UNCHANGED txs
        /\ \E error \in {"transient", "rpc"} \cup (IF Waiting(txs[Latest]) THEN {"program"} ELSE {}) :
             sendFailed(call, error)

\* One round of sendAndConfirm's loop.  The status may be read from a node
\* that has not seen the block; the height and the rebroadcast may fail.
sendAndConfirm ==
  /\ call.pc = "poll"
  /\ IF call.polls >= MaxPolls
     THEN withFailover(call, "timeout") /\ UNCHANGED txs
     ELSE \/ /\ txs[Latest].status = "ok"
             /\ call' = [call EXCEPT !.pc = "done", !.result = "confirmed"]
             /\ UNCHANGED <<index, txs>>
          \/ txs[Latest].status = "err" /\ withFailover(call, "program") /\ UNCHANGED txs
          \/ ~txs[Latest].live /\ withFailover(call, "timeout") /\ UNCHANGED txs
          \/ /\ call' = [call EXCEPT !.polls = @ + 1]
             /\ \E heard \in BOOLEAN : txs' = [txs EXCEPT ![Latest].held = @ \/ heard]
             /\ UNCHANGED index

TxNext ==
  \/ sendSigned \/ withRetry \/ build \/ sendRawTransaction \/ sendAndConfirm \/ failover
  \/ \E n \in DOMAIN txs : land(n) \/ drop(n) \/ expire(n)

TxSpec == TxInit /\ [][TxNext]_txVars

(***************************************************************************)
(* Properties.                                                             *)
(***************************************************************************)
Landed == {n \in DOMAIN txs : txs[n].status = "ok"}

\* A call moves money once.  However its attempts, its failovers and its
\* timeouts fall, no two of its transactions land, unless the answer to a
\* sendRawTransaction was lost and the rebuilt transaction got a new blockhash.
LandsOnce == call.lost \/ Cardinality(Landed) <= 1

\* What the caller is told is what happened: confirmed means a transaction
\* landed, and any error but the timeout, which says the transaction may still
\* land, means that none did or will, again unless an answer was lost.
AnswerIsTrue ==
  /\ call.result = "confirmed" => Landed # {}
  /\ call.result \in {"program", "rpc"} /\ ~call.lost =>
       \A n \in DOMAIN txs : ~Mattering(txs[n])

\* An attempt is over for want of an endpoint only when every endpoint of the
\* pool has failed it, unless another call moved the shared index meanwhile.
GivesUpAfterAll ==
  call.pc = "backoff" => call.moved \/ Cardinality(call.tried) = EndpointCount

\* However endpoints fail, answers get lost and transactions are late, a call
\* moves money once, tells its caller the truth, and gives up only when no
\* endpoint is left, with the exceptions above (sendSigned).
SendInv == LandsOnce /\ AnswerIsTrue /\ GivesUpAfterAll
=============================================================================
