--------------------------- MODULE AdmissionGuards ---------------------------
(***************************************************************************)
(* The token buckets of a realtime node: ConnectionGuard, one bucket per   *)
(* address with an eviction sweep, and the EventGuard of a socket, one     *)
(* bucket per kind of event.  Tokens are counted in parts, Cost to a token *)
(* and one part regained per unit of time, so a rate may be a fraction.    *)
(***************************************************************************)
EXTENDS Integers, Sequences, FiniteSets, FiniteSetsExt, Functions, Maps

CONSTANTS Addresses,
          Limited, Unlimited,     \* kinds of events with and without a limit
          AddressBurst, EventBurst,      \* tokens a bucket holds
          Cost,                   \* units of time that buy a token
          IdleTtl,
          MaxNow, MaxAdmitted     \* bounds of the model

ASSUME GuardConstants ==
  /\ {AddressBurst, EventBurst, Cost} \subseteq Nat \ {0}
  /\ {IdleTtl, MaxNow, MaxAdmitted} \subseteq Nat
  /\ Addresses \cap Limited = {}

VARIABLES now,
          attempts,     \* address -> bucket
          budgets,      \* kind of event -> bucket
          allowed       \* when each address or kind was let through
guardVars == <<now, attempts, budgets, allowed>>

Keys == Addresses \cup Limited

GuardInit ==
  /\ now = 0 /\ attempts = <<>> /\ budgets = <<>>
  /\ allowed = [k \in Keys |-> <<>>]

\* A bucket is full when it is made.
bucketOf(buckets, key, burst) ==
  IF key \in DOMAIN buckets THEN buckets[key] ELSE [tokens |-> burst * Cost, last |-> now]

refill(bucket, burst) ==
  [tokens |-> Min({burst * Cost, bucket.tokens + (now - bucket.last)}), last |-> now]

spend(bucket) == IF bucket.tokens < Cost THEN bucket ELSE [bucket EXCEPT !.tokens = @ - Cost]

admit(key, through) == allowed' = IF through THEN [allowed EXCEPT ![key] = Append(@, now)] ELSE allowed

\* A refused attempt refills its bucket all the same.
tryConsume(address) ==
  LET bucket == refill(bucketOf(attempts, address, AddressBurst), AddressBurst)
  IN  /\ attempts' = put(attempts, address, spend(bucket))
      /\ admit(address, bucket.tokens >= Cost)
      /\ UNCHANGED <<now, budgets>>

isQuiet(bucket) == now - bucket.last > IdleTtl  \* mutant: a throttled bucket is dropped too

\* Only a bucket that would be full again is dropped.
isIdle(bucket) ==
  /\ now - bucket.last > IdleTtl
  /\ bucket.tokens + (now - bucket.last) >= AddressBurst * Cost

sweep ==
  /\ attempts' = Restrict(attempts, {a \in DOMAIN attempts : ~isIdle(attempts[a])})
  /\ UNCHANGED <<now, budgets, allowed>>

allow(event) ==
  LET bucket == refill(bucketOf(budgets, event, EventBurst), EventBurst)
  IN  IF event \in Unlimited THEN UNCHANGED guardVars
      ELSE /\ budgets' = put(budgets, event, spend(bucket))
           /\ admit(event, bucket.tokens >= Cost)
           /\ UNCHANGED <<now, attempts>>

Elapse == now < MaxNow /\ now' = now + 1 /\ UNCHANGED <<attempts, budgets, allowed>>

Few == \A k \in Keys : Len(allowed[k]) <= MaxAdmitted

GuardNext ==
  \/ Elapse \/ sweep
  \/ Few /\ \E a \in Addresses : tryConsume(a)
  \/ Few /\ \E e \in Limited \cup Unlimited : allow(e)

GuardSpec == GuardInit /\ [][GuardNext]_guardVars

---------------------------------------------------------------------------

burstOf(key) == IF key \in Addresses THEN AddressBurst ELSE EventBurst

\* In every window of time a key is let through at most its burst and what
\* the window bought, however attempts are paced and whenever idle buckets
\* are swept away and made anew (tryConsume, sweep, allow).
WindowIsBounded ==
  \A k \in Keys : \A i, j \in DOMAIN allowed[k] :
    i <= j => (j - i + 1) * Cost <= burstOf(k) * Cost + (allowed[k][j] - allowed[k][i])
=============================================================================
