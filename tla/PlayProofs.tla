------------------------------ MODULE PlayProofs ------------------------------
(***************************************************************************)
(* Proofs about the parts of play.  Simulation, for any players, sizes,    *)
(* speeds and times: WorldSound, and SimInv, which follows from it.        *)
(* SpatialHash, for any cell size, radii and things: HashHolds, and        *)
(* QueryFindsAll, which follows from it.  AdmissionGuards, for any         *)
(* addresses, events, bursts and paces: BucketsInv, and WindowIsBounded,   *)
(* which follows from it.  GameClient, for any buffer, commands, clocks    *)
(* and sockets: ClientHolds, and ClientInv, which follows from it.         *)
(* WireProtocol, for any sizes of snapshots: WireInv, and                  *)
(* SnapshotSurvives, which follows from it.                                *)
(***************************************************************************)
EXTENDS Simulation, SpatialHash, AdmissionGuards, WireProtocol, GameClient, SumsProofs,
        SequenceTheorems

(***************************************************************************)
(* The least and the greatest of two.                                      *)
(***************************************************************************)
LEMMA MinOfTwo ==
  ASSUME NEW a \in Int, NEW b \in Int
  PROVE  Min({a, b}) = IF a <= b THEN a ELSE b
<1> DEFINE m == IF a <= b THEN a ELSE b
<1>1. m \in {a, b} /\ \A y \in {a, b} : m <= y
  OBVIOUS
<1>2. \A x \in {a, b} : (\A y \in {a, b} : x <= y) => x = m
  OBVIOUS
<1> HIDE DEF m
<1>3. Min({a, b}) = m
  BY <1>1, <1>2 DEF Min
<1>4. QED BY <1>3 DEF m

LEMMA MaxOfTwo ==
  ASSUME NEW a \in Int, NEW b \in Int
  PROVE  Max({a, b}) = IF a >= b THEN a ELSE b
<1> DEFINE m == IF a >= b THEN a ELSE b
<1>1. m \in {a, b} /\ \A y \in {a, b} : m >= y
  OBVIOUS
<1>2. \A x \in {a, b} : (\A y \in {a, b} : x >= y) => x = m
  OBVIOUS
<1> HIDE DEF m
<1>3. Max({a, b}) = m
  BY <1>1, <1>2 DEF Max
<1>4. QED BY <1>3 DEF m

-----------------------------------------------------------------------------
(***************************************************************************)
(* Token buckets.                                                          *)
(***************************************************************************)
LEMMA GuardFacts ==
  /\ AddressBurst \in Nat /\ AddressBurst >= 1 /\ EventBurst \in Nat /\ EventBurst >= 1
  /\ Cost \in Nat /\ Cost >= 1
  /\ Addresses \cap Limited = {}
BY GuardConstants

Price(n) == n * Cost

(* What a bucket holds at a time, and what one that was dropped or never   *)
(* made would hold.                                                        *)
Held(ledger, id, burst, time) ==
  IF id \in DOMAIN ledger
  THEN LET full == ledger[id].tokens + (time - ledger[id].last)
       IN  IF full <= Price(burst) THEN full ELSE Price(burst)
  ELSE Price(burst)

BucketOK(b, burst, time) ==
  /\ b \in [tokens : Nat, last : Nat]
  /\ b.tokens <= Price(burst) /\ b.last <= time

BucketsOK(ledger, all, burst, time) ==
  /\ ledger \in [DOMAIN ledger -> [tokens : Nat, last : Nat]] /\ DOMAIN ledger \subseteq all
  /\ \A k \in DOMAIN ledger : BucketOK(ledger[k], burst, time)

(* The window from any admission to now has paid for the admissions since  *)
(* and for what the bucket holds.                                          *)
Paid(times, level, burst, time) ==
  /\ times \in Seq(Nat)
  /\ \A i \in 1..Len(times) :
       /\ times[i] <= time
       /\ Price(Len(times) - i + 1) + level <= Price(burst) + (time - times[i])

Bounded(times, burst) ==
  \A i, j \in 1..Len(times) :
    i <= j => Price(j - i + 1) <= Price(burst) + (times[j] - times[i])

KeyOK(times, level, burst, time) == Paid(times, level, burst, time) /\ Bounded(times, burst)

BucketsInv ==
  /\ now \in Nat
  /\ allowed \in [Keys -> Seq(Nat)]
  /\ BucketsOK(attempts, Addresses, AddressBurst, now)
  /\ BucketsOK(budgets, Limited, EventBurst, now)
  /\ \A a \in Addresses :
       KeyOK(allowed[a], Held(attempts, a, AddressBurst, now), AddressBurst, now)
  /\ \A e \in Limited :
       KeyOK(allowed[e], Held(budgets, e, EventBurst, now), EventBurst, now)

LEMMA Prices ==
  ASSUME NEW n \in Int
  PROVE  Price(n) \in Int /\ Price(n + 1) = Price(n) + Cost
BY GuardFacts DEF Price

LEMMA PriceOfOne == Price(1) = Cost
BY GuardFacts DEF Price

LEMMA FullIsSome ==
  ASSUME NEW burst \in Nat, burst >= 1
  PROVE  Price(burst) \in Nat /\ Cost <= Price(burst)
<1>1. burst - 1 \in Nat /\ burst = (burst - 1) + 1
  OBVIOUS
<1>2. \A n \in Nat : Price(n) \in Nat
  BY GuardFacts DEF Price
<1>3. Price(burst) = Price(burst - 1) + Cost
  BY <1>1, Prices
<1>4. QED BY <1>1, <1>2, <1>3, GuardFacts

(* The tokens of a bucket and the level it gives its key.                  *)
LEMMA LevelType ==
  ASSUME NEW ledger, NEW all, NEW k \in all, NEW burst \in Nat, burst >= 1, NEW time \in Nat,
         BucketsOK(ledger, all, burst, time)
  PROVE  Held(ledger, k, burst, time) \in Nat /\ Held(ledger, k, burst, time) <= Price(burst)
<1> DEFINE full == Price(burst)
<1>1. full \in Nat
  BY FullIsSome
<1> HIDE DEF full
<1>2. CASE k \in DOMAIN ledger
  <2>1. ledger[k].tokens \in Nat /\ ledger[k].last \in Nat /\ ledger[k].last <= time
    BY <1>2 DEF BucketsOK, BucketOK
  <2>2. QED BY <1>1, <1>2, <2>1 DEF Held, full
<1>3. CASE k \notin DOMAIN ledger
  BY <1>1, <1>3 DEF Held, full
<1>4. QED BY <1>2, <1>3

(* Time passes: a level rises by no more than the window.                  *)
LEMMA Later ==
  ASSUME NEW ledger, NEW all, NEW k \in all, NEW burst \in Nat, burst >= 1, NEW time \in Nat,
         BucketsOK(ledger, all, burst, time), NEW times,
         KeyOK(times, Held(ledger, k, burst, time), burst, time)
  PROVE  /\ BucketsOK(ledger, all, burst, time + 1)
         /\ KeyOK(times, Held(ledger, k, burst, time + 1), burst, time + 1)
<1> DEFINE full == Price(burst)
           level == Held(ledger, k, burst, time)
           next == Held(ledger, k, burst, time + 1)
<1>1. full \in Nat
  BY FullIsSome
<1>2. BucketsOK(ledger, all, burst, time + 1)
  BY DEF BucketsOK, BucketOK
<1>3. level \in Nat /\ next \in Nat
  BY <1>2, LevelType
<1>4. next <= level + 1
  <2> HIDE DEF full
  <2>1. CASE k \in DOMAIN ledger
    <3>1. ledger[k].tokens \in Nat /\ ledger[k].last \in Nat
      BY <2>1 DEF BucketsOK, BucketOK
    <3>2. QED BY <1>1, <2>1, <3>1 DEF Held, full
  <2>2. CASE k \notin DOMAIN ledger
    BY <1>1, <2>2 DEF Held, full
  <2>3. QED BY <2>1, <2>2
<1> HIDE DEF level, next
<1>5. Paid(times, level, burst, time) /\ Bounded(times, burst)
  BY DEF KeyOK, level
<1>6. Paid(times, next, burst, time + 1)
  <2>1. SUFFICES ASSUME NEW i \in 1..Len(times)
                 PROVE  /\ times[i] <= time + 1
                        /\ Price(Len(times) - i + 1) + next <= full + (time + 1 - times[i])
    BY <1>5 DEF Paid
  <2>2. /\ times[i] <= time /\ times[i] \in Nat /\ Len(times) - i + 1 \in Int
        /\ Price(Len(times) - i + 1) + level <= full + (time - times[i])
    BY <1>5, <2>1 DEF Paid
  <2> DEFINE cost == Price(Len(times) - i + 1)
  <2>3. cost \in Int
    BY <2>2, Prices
  <2> HIDE DEF cost, full
  <2>4. cost + level <= full + (time - times[i])
    BY <2>2 DEF cost
  <2>5. cost + next <= full + (time + 1 - times[i])
    BY <1>1, <1>3, <1>4, <2>2, <2>3, <2>4
  <2>6. QED BY <2>2, <2>5 DEF cost
<1>7. QED BY <1>2, <1>5, <1>6 DEF KeyOK, next

(* What a bucket holds once it is brought up to a time.                    *)
Brought(ledger, id, burst, time) ==
  LET b == IF id \in DOMAIN ledger THEN ledger[id]
           ELSE [tokens |-> Price(burst), last |-> time]
  IN  [tokens |-> Min({Price(burst), b.tokens + (time - b.last)}), last |-> time]

LEMMA BroughtIsHeld ==
  ASSUME NEW ledger, NEW all, NEW k \in all, NEW burst \in Nat, burst >= 1, NEW time \in Nat,
         BucketsOK(ledger, all, burst, time)
  PROVE  Brought(ledger, k, burst, time) = [tokens |-> Held(ledger, k, burst, time), last |-> time]
<1> DEFINE full == Price(burst)
           level == Held(ledger, k, burst, time)
<1>1. full \in Nat
  BY FullIsSome
<1> HIDE DEF full
<1>2. CASE k \in DOMAIN ledger
  <2>1. ledger[k].tokens \in Nat /\ ledger[k].last \in Nat
    BY <1>2 DEF BucketsOK, BucketOK
  <2> DEFINE t == ledger[k].tokens + (time - ledger[k].last)
  <2>2. t \in Int
    BY <2>1
  <2>3. Brought(ledger, k, burst, time) = [tokens |-> Min({full, t}), last |-> time]
    BY <1>2 DEF Brought, full
  <2>4. level = IF t <= full THEN t ELSE full
    BY <1>2 DEF Held, full
  <2> HIDE DEF t
  <2>5. Min({full, t}) = level
    BY <1>1, <2>2, <2>4, MinOfTwo
  <2>6. QED BY <2>3, <2>5
<1>3. CASE k \notin DOMAIN ledger
  <2>1. level = full
    BY <1>3 DEF Held, full
  <2>2. Brought(ledger, k, burst, time) = [tokens |-> Min({full, full + (time - time)}), last |-> time]
    BY <1>3 DEF Brought, full
  <2>3. full + (time - time) = full
    BY <1>1
  <2>4. Min({full, full}) = full
    BY <1>1, MinOfTwo
  <2>5. QED BY <2>1, <2>2, <2>3, <2>4
<1>4. QED BY <1>2, <1>3

(* An attempt: the bucket of the key is brought up to date, and pays if it *)
(* can.                                                                    *)
Charged(ledger, id, burst, time) == put(ledger, id, spend(Brought(ledger, id, burst, time)))

Through(times, bucket, time) == IF bucket.tokens >= Cost THEN Append(times, time) ELSE times

LEMMA Attempt ==
  ASSUME NEW ledger, NEW all, NEW k \in all, NEW burst \in Nat, burst >= 1, NEW time \in Nat,
         BucketsOK(ledger, all, burst, time), NEW times,
         KeyOK(times, Held(ledger, k, burst, time), burst, time)
  PROVE  /\ BucketsOK(Charged(ledger, k, burst, time), all, burst, time)
         /\ \A x \in all \ {k} :
              Held(Charged(ledger, k, burst, time), x, burst, time) = Held(ledger, x, burst, time)
         /\ KeyOK(Through(times, Brought(ledger, k, burst, time), time),
                  Held(Charged(ledger, k, burst, time), k, burst, time), burst, time)
<1> DEFINE bucket == Brought(ledger, k, burst, time)
           after == Charged(ledger, k, burst, time)
           told == Through(times, bucket, time)
<1>a. after = put(ledger, k, spend(bucket)) /\ bucket = Brought(ledger, k, burst, time)
  BY DEF Charged
<1>t. told = IF bucket.tokens >= Cost THEN Append(times, time) ELSE times
  BY DEF Through
<1> HIDE DEF bucket, after, told
<1> DEFINE full == Price(burst)
           level == Held(ledger, k, burst, time)
           spare == IF level < Cost THEN level ELSE level - Cost
<1>1. full \in Nat /\ Cost <= full /\ Cost \in Nat /\ Cost >= 1
  BY FullIsSome, GuardFacts
<1>2. level \in Nat /\ level <= full
  BY LevelType
<1>3. bucket = [tokens |-> level, last |-> time]
  BY <1>a, BroughtIsHeld
<1>4. spend(bucket) = [tokens |-> spare, last |-> time]
  BY <1>3 DEF spend
<1>5. spare \in Nat /\ spare <= full
  BY <1>1, <1>2
<1>6. /\ DOMAIN after = DOMAIN ledger \cup {k} /\ after[k] = [tokens |-> spare, last |-> time]
      /\ \A x \in DOMAIN ledger \ {k} : after[x] = ledger[x]
  BY <1>4, <1>a DEF put
<1>7. after \in [DOMAIN after -> [tokens : Nat, last : Nat]]
  <2>1. after = [x \in DOMAIN ledger \cup {k} |-> IF x = k THEN spend(bucket) ELSE ledger[x]]
    BY <1>a DEF put
  <2>2. spend(bucket) \in [tokens : Nat, last : Nat]
    BY <1>4, <1>5
  <2>3. QED BY <2>1, <2>2 DEF BucketsOK
<1> HIDE DEF full, level, spare
<1>8. BucketsOK(after, all, burst, time)
  BY <1>5, <1>6, <1>7 DEF BucketsOK, BucketOK, full
<1>9. \A x \in all \ {k} : Held(after, x, burst, time) = Held(ledger, x, burst, time)
  BY <1>6 DEF Held
<1>10. Held(after, k, burst, time) = spare
  BY <1>1, <1>5, <1>6 DEF Held, full
<1>11. /\ times \in Seq(Nat) /\ Bounded(times, burst)
       /\ \A i \in 1..Len(times) :
            times[i] <= time /\ Price(Len(times) - i + 1) + level <= full + (time - times[i])
  BY DEF KeyOK, Paid, full, level
<1>12. CASE bucket.tokens >= Cost
  <2> DEFINE more == Append(times, time)
             n == Len(times)
  <2>1. level >= Cost /\ spare = level - Cost
    BY <1>1, <1>2, <1>3, <1>12 DEF spare
  <2>2. /\ more \in Seq(Nat) /\ Len(more) = n + 1 /\ more[n + 1] = time /\ n \in Nat
        /\ \A i \in 1..n : more[i] = times[i] /\ times[i] \in Nat
    BY <1>11
  <2> HIDE DEF more
  <2>3. ASSUME NEW i \in 1..n
        PROVE  Price(n + 1 - i + 1) + spare <= full + (time - times[i])
    <3> DEFINE cost == Price(n - i + 1)
    <3>1. cost \in Int /\ Price(n + 1 - i + 1) = cost + Cost
      <4>1. n - i + 1 \in Int /\ n + 1 - i + 1 = (n - i + 1) + 1
        BY <2>2
      <4>2. QED BY <4>1, Prices
    <3>2. cost + level <= full + (time - times[i]) /\ times[i] \in Nat
      BY <1>11, <2>2
    <3> HIDE DEF cost
    <3>3. QED BY <1>1, <1>2, <2>1, <3>1, <3>2
  <2>4. Price(n + 1 - (n + 1) + 1) = Cost
    <3>1. n + 1 - (n + 1) + 1 = 1
      BY <2>2
    <3>2. QED BY <3>1, PriceOfOne
  <2>5. Paid(more, spare, burst, time)
    <3>1. SUFFICES ASSUME NEW i \in 1..(n + 1)
                   PROVE  /\ more[i] <= time
                          /\ Price(n + 1 - i + 1) + spare <= full + (time - more[i])
      BY <2>2 DEF Paid, full
    <3>2. CASE i \in 1..n
      BY <1>11, <2>2, <2>3, <3>2
    <3>3. CASE i = n + 1
      BY <1>1, <1>2, <2>1, <2>2, <2>4, <3>3
    <3>4. QED BY <2>2, <3>2, <3>3
  <2>6. Bounded(more, burst)
    <3>1. SUFFICES ASSUME NEW i \in 1..(n + 1), NEW j \in 1..(n + 1), i <= j
                   PROVE  Price(j - i + 1) <= full + (more[j] - more[i])
      BY <2>2 DEF Bounded, full
    <3>2. CASE j \in 1..n
      <4>1. i \in 1..n /\ more[i] = times[i] /\ more[j] = times[j]
        BY <2>2, <3>1, <3>2
      <4>2. Price(j - i + 1) <= full + (times[j] - times[i])
        BY <1>11, <3>1, <3>2, <4>1 DEF Bounded, full
      <4>3. QED BY <4>1, <4>2
    <3>3. CASE j = n + 1 /\ i \in 1..n
      <4>1. Price(n + 1 - i + 1) + spare <= full + (time - times[i])
        BY <2>3, <3>3
      <4>2. n + 1 - i + 1 \in Int /\ Price(n + 1 - i + 1) \in Int
        BY <2>2, Prices
      <4> DEFINE cost == Price(n + 1 - i + 1)
      <4>3. cost + spare <= full + (time - times[i]) /\ cost \in Int /\ times[i] \in Nat
        BY <2>2, <3>3, <4>1, <4>2
      <4> HIDE DEF cost
      <4>4. cost <= full + (time - times[i])
        BY <1>1, <1>5, <4>3
      <4>5. QED BY <2>2, <3>3, <4>4 DEF cost
    <3>4. CASE j = n + 1 /\ i = n + 1
      <4>1. j - i + 1 = 1 /\ more[j] - more[i] = 0
        BY <2>2, <3>4
      <4>2. QED BY <1>1, <4>1, PriceOfOne
    <3>5. QED BY <2>2, <3>2, <3>3, <3>4
  <2>7. QED BY <1>8, <1>9, <1>10, <1>12, <1>t, <2>5, <2>6 DEF KeyOK, more, after, told, bucket
<1>13. CASE ~(bucket.tokens >= Cost)
  <2>1. spare = level
    BY <1>1, <1>2, <1>3, <1>13 DEF spare
  <2>2. QED BY <1>8, <1>9, <1>10, <1>13, <1>t, <2>1 DEF level, after, told, bucket
<1>14. QED BY <1>8, <1>9, <1>12, <1>13 DEF after, told, bucket

LEMMA BucketsInvStep == BucketsInv /\ [GuardNext]_guardVars => BucketsInv'
<1> SUFFICES ASSUME BucketsInv, [GuardNext]_guardVars PROVE BucketsInv'
  OBVIOUS
<1>1. /\ now \in Nat /\ allowed \in [Keys -> Seq(Nat)]
      /\ BucketsOK(attempts, Addresses, AddressBurst, now)
      /\ BucketsOK(budgets, Limited, EventBurst, now)
      /\ \A a \in Addresses :
           KeyOK(allowed[a], Held(attempts, a, AddressBurst, now), AddressBurst, now)
      /\ \A e \in Limited :
           KeyOK(allowed[e], Held(budgets, e, EventBurst, now), EventBurst, now)
  BY DEF BucketsInv
<1>2. CASE UNCHANGED guardVars
  BY <1>1, <1>2 DEF guardVars, BucketsInv
<1>3. CASE Elapse
  <2>1. now' = now + 1 /\ UNCHANGED <<attempts, budgets, allowed>>
    BY <1>3 DEF Elapse
  <2>2. /\ BucketsOK(attempts, Addresses, AddressBurst, now + 1)
        /\ BucketsOK(budgets, Limited, EventBurst, now + 1)
    BY <1>1 DEF BucketsOK, BucketOK
  <2>3. \A a \in Addresses :
          KeyOK(allowed[a], Held(attempts, a, AddressBurst, now + 1), AddressBurst, now + 1)
    BY <1>1, GuardFacts, Later
  <2>4. \A e \in Limited :
          KeyOK(allowed[e], Held(budgets, e, EventBurst, now + 1), EventBurst, now + 1)
    BY <1>1, GuardFacts, Later
  <2>5. QED BY <1>1, <2>1, <2>2, <2>3, <2>4 DEF BucketsInv
<1>4. CASE sweep
  <2>1. /\ attempts' = Restrict(attempts, {a \in DOMAIN attempts : ~isIdle(attempts[a])})
        /\ UNCHANGED <<now, budgets, allowed>>
    BY <1>4 DEF sweep
  <2>2. /\ DOMAIN attempts' = {a \in DOMAIN attempts : ~isIdle(attempts[a])}
        /\ \A a \in DOMAIN attempts' : attempts'[a] = attempts[a]
    BY <2>1 DEF Restrict
  <2>3. attempts' \in [DOMAIN attempts' -> [tokens : Nat, last : Nat]]
    BY <1>1, <2>1, <2>2 DEF BucketsOK, Restrict
  <2>4. BucketsOK(attempts', Addresses, AddressBurst, now)
    BY <1>1, <2>2, <2>3 DEF BucketsOK
  <2>5. ASSUME NEW a \in Addresses
        PROVE  Held(attempts', a, AddressBurst, now) = Held(attempts, a, AddressBurst, now)
    <3> DEFINE full == Price(AddressBurst)
    <3>1. full \in Nat
      BY FullIsSome, GuardFacts
    <3> HIDE DEF full
    <3>2. CASE a \in DOMAIN attempts /\ a \notin DOMAIN attempts'
      <4>1. attempts[a].tokens + (now - attempts[a].last) >= full
        BY <2>2, <3>2 DEF isIdle, full, Price
      <4>2. attempts[a].tokens \in Nat /\ attempts[a].last \in Nat
        BY <1>1, <3>2 DEF BucketsOK, BucketOK
      <4> DEFINE x == attempts[a].tokens + (now - attempts[a].last)
      <4>3. x \in Int /\ x >= full
        BY <1>1, <4>1, <4>2
      <4> HIDE DEF x
      <4>4. (IF x <= full THEN x ELSE full) = full
        BY ONLY <3>1, <4>3
      <4>5. Held(attempts, a, AddressBurst, now) = IF x <= full THEN x ELSE full
        BY <3>2 DEF Held, full, x
      <4>6. Held(attempts', a, AddressBurst, now) = full
        BY <3>2 DEF Held, full
      <4>7. QED BY <4>4, <4>5, <4>6
    <3>3. CASE a \notin DOMAIN attempts \/ a \in DOMAIN attempts'
      BY <2>2, <3>3 DEF Held
    <3>4. QED BY <3>2, <3>3
  <2>6. QED BY <1>1, <2>1, <2>4, <2>5 DEF BucketsInv
<1>5. ASSUME NEW a \in Addresses, tryConsume(a) PROVE BucketsInv'
  <2> DEFINE bucket == Brought(attempts, a, AddressBurst, now)
             times == IF bucket.tokens >= Cost THEN Append(allowed[a], now) ELSE allowed[a]
  <2>1. /\ attempts' = put(attempts, a, spend(bucket)) /\ UNCHANGED <<now, budgets>>
        /\ allowed' = IF bucket.tokens >= Cost THEN [allowed EXCEPT ![a] = Append(@, now)]
                      ELSE allowed
    BY <1>5 DEF tryConsume, admit, refill, bucketOf, Brought, Price
  <2>k. /\ a \in Addresses /\ AddressBurst \in Nat /\ AddressBurst >= 1 /\ now \in Nat
        /\ BucketsOK(attempts, Addresses, AddressBurst, now)
        /\ KeyOK(allowed[a], Held(attempts, a, AddressBurst, now), AddressBurst, now)
    BY <1>1, GuardFacts
  <2>p. /\ attempts' = Charged(attempts, a, AddressBurst, now) /\ times = Through(allowed[a], bucket, now)
        /\ times = IF bucket.tokens >= Cost THEN Append(allowed[a], now) ELSE allowed[a]
    BY <2>1 DEF Charged, Through
  <2> DEFINE charged == Charged(attempts, a, AddressBurst, now)
             through == Through(allowed[a], Brought(attempts, a, AddressBurst, now), now)
  <2>c. /\ BucketsOK(charged, Addresses, AddressBurst, now)
        /\ \A x \in Addresses \ {a} : Held(charged, x, AddressBurst, now) = Held(attempts, x, AddressBurst, now)
        /\ KeyOK(through, Held(charged, a, AddressBurst, now), AddressBurst, now)
    BY <2>k, Attempt
  <2>2. /\ BucketsOK(attempts', Addresses, AddressBurst, now)
        /\ \A x \in Addresses \ {a} : Held(attempts', x, AddressBurst, now) = Held(attempts, x, AddressBurst, now)
        /\ KeyOK(times, Held(attempts', a, AddressBurst, now), AddressBurst, now)
    BY <2>c, <2>p
  <2> HIDE DEF bucket, times
  <2>3. a \in Keys /\ allowed[a] \in Seq(Nat)
    BY <1>1 DEF Keys
  <2>4. /\ allowed' \in [Keys -> Seq(Nat)] /\ allowed'[a] = times
        /\ \A x \in Keys \ {a} : allowed'[x] = allowed[x]
    BY <1>1, <2>1, <2>3, <2>p
  <2>5. Limited \subseteq Keys \ {a} /\ Addresses \subseteq Keys
    BY GuardFacts DEF Keys
  <2>6. QED BY <1>1, <2>1, <2>2, <2>4, <2>5 DEF BucketsInv
<1>6. ASSUME NEW e \in Limited, e \notin Unlimited, allow(e) PROVE BucketsInv'
  <2> DEFINE bucket == Brought(budgets, e, EventBurst, now)
             times == IF bucket.tokens >= Cost THEN Append(allowed[e], now) ELSE allowed[e]
  <2>1. /\ budgets' = put(budgets, e, spend(bucket)) /\ UNCHANGED <<now, attempts>>
        /\ allowed' = IF bucket.tokens >= Cost THEN [allowed EXCEPT ![e] = Append(@, now)]
                      ELSE allowed
    BY <1>6 DEF allow, admit, refill, bucketOf, Brought, Price
  <2>k. /\ e \in Limited /\ EventBurst \in Nat /\ EventBurst >= 1 /\ now \in Nat
        /\ BucketsOK(budgets, Limited, EventBurst, now)
        /\ KeyOK(allowed[e], Held(budgets, e, EventBurst, now), EventBurst, now)
    BY <1>1, GuardFacts
  <2>p. /\ budgets' = Charged(budgets, e, EventBurst, now) /\ times = Through(allowed[e], bucket, now)
        /\ times = IF bucket.tokens >= Cost THEN Append(allowed[e], now) ELSE allowed[e]
    BY <2>1 DEF Charged, Through
  <2> DEFINE charged == Charged(budgets, e, EventBurst, now)
             through == Through(allowed[e], Brought(budgets, e, EventBurst, now), now)
  <2>c. /\ BucketsOK(charged, Limited, EventBurst, now)
        /\ \A x \in Limited \ {e} : Held(charged, x, EventBurst, now) = Held(budgets, x, EventBurst, now)
        /\ KeyOK(through, Held(charged, e, EventBurst, now), EventBurst, now)
    BY <2>k, Attempt
  <2>2. /\ BucketsOK(budgets', Limited, EventBurst, now)
        /\ \A x \in Limited \ {e} : Held(budgets', x, EventBurst, now) = Held(budgets, x, EventBurst, now)
        /\ KeyOK(times, Held(budgets', e, EventBurst, now), EventBurst, now)
    BY <2>c, <2>p
  <2> HIDE DEF bucket, times
  <2>3. e \in Keys /\ allowed[e] \in Seq(Nat)
    BY <1>1 DEF Keys
  <2>4. /\ allowed' \in [Keys -> Seq(Nat)] /\ allowed'[e] = times
        /\ \A x \in Keys \ {e} : allowed'[x] = allowed[x]
    BY <1>1, <2>1, <2>3, <2>p
  <2>5. Addresses \subseteq Keys \ {e} /\ Limited \subseteq Keys
    BY GuardFacts DEF Keys
  <2>6. QED BY <1>1, <2>1, <2>2, <2>4, <2>5 DEF BucketsInv
<1>7. ASSUME NEW e \in Unlimited, allow(e) PROVE UNCHANGED guardVars
  BY <1>7 DEF allow
<1>8. QED BY <1>2, <1>3, <1>4, <1>5, <1>6, <1>7 DEF GuardNext

(* In every window of time a key is let through at most its burst and what *)
(* the window bought, for any addresses, events, rates and attempts, and   *)
(* whenever idle buckets are swept away and made anew (tryConsume, sweep, *)
(* allow).                                                                 *)
THEOREM WindowsAreBounded == GuardSpec => []WindowIsBounded
<1>1. GuardInit => BucketsInv
  <2> SUFFICES ASSUME GuardInit PROVE BucketsInv
    OBVIOUS
  <2>1. /\ now = 0 /\ attempts = <<>> /\ budgets = <<>> /\ allowed = [k \in Keys |-> <<>>]
        /\ DOMAIN attempts = {} /\ DOMAIN budgets = {}
    BY DEF GuardInit
  <2>2. allowed \in [Keys -> Seq(Nat)] /\ \A k \in Keys : allowed[k] = <<>>
    BY <2>1
  <2>3. \A level, burst : KeyOK(<<>>, level, burst, now)
    BY DEF KeyOK, Paid, Bounded
  <2>4. /\ BucketsOK(attempts, Addresses, AddressBurst, now)
        /\ BucketsOK(budgets, Limited, EventBurst, now)
    BY <2>1 DEF BucketsOK
  <2>5. QED BY <2>1, <2>2, <2>3, <2>4 DEF BucketsInv, Keys
<1>2. BucketsInv /\ [GuardNext]_guardVars => BucketsInv'
  BY BucketsInvStep
<1>3. BucketsInv => WindowIsBounded
  <2> SUFFICES ASSUME BucketsInv, NEW k \in Keys, NEW i \in DOMAIN allowed[k],
                      NEW j \in DOMAIN allowed[k], i <= j
               PROVE  (j - i + 1) * Cost <= burstOf(k) * Cost + (allowed[k][j] - allowed[k][i])
    BY DEF WindowIsBounded
  <2>1. allowed[k] \in Seq(Nat) /\ DOMAIN allowed[k] = 1..Len(allowed[k])
    BY DEF BucketsInv
  <2>2. Bounded(allowed[k], burstOf(k))
    BY DEF BucketsInv, KeyOK, burstOf, Keys
  <2>3. QED BY <2>1, <2>2 DEF Bounded, Price
<1>4. QED BY <1>1, <1>2, <1>3, PTL DEF GuardSpec

-----------------------------------------------------------------------------
(***************************************************************************)
(* SpatialHash.                                                            *)
(***************************************************************************)

(* Rounding down never reverses an order.                                  *)
LEMMA DivMonotone ==
  ASSUME NEW c \in Nat \ {0}, NEW a \in Int, NEW b \in Int, a <= b
  PROVE  a \div c \in Int /\ b \div c \in Int /\ a \div c <= b \div c
  OBVIOUS

(* What is within a radius is within it on each axis.                      *)
LEMMA NearOnAxis ==
  ASSUME NEW d \in Int, NEW e \in Int, NEW r \in Nat, d * d + e * e <= r * r
  PROVE  -r <= d /\ d <= r /\ -r <= e /\ e <= r
<1>1. d * d >= 0 /\ e * e >= 0
  OBVIOUS
<1>2. d * d <= r * r /\ e * e <= r * r
  BY <1>1
<1>3. ASSUME NEW z \in Int, z * z <= r * r PROVE -r <= z /\ z <= r
  BY <1>3
<1>4. QED BY <1>2, <1>3

(* Where a placed thing lies.                                              *)
keyOf(table, id) == cellKey(table[id][1], table[id][2])

(* A bucket is not empty, holds placed things of its cell only, each once. *)
Sorted(key) ==
  /\ buckets[key] # <<>>
  /\ \A i \in DOMAIN buckets[key] : buckets[key][i] \in DOMAIN placed /\ keyOf(placed, buckets[key][i]) = key
  /\ \A i, j \in DOMAIN buckets[key] : buckets[key][i] = buckets[key][j] => i = j

(* A placed thing is in the bucket of its cell.                            *)
Found(id) ==
  /\ keyOf(placed, id) \in DOMAIN buckets
  /\ \E i \in DOMAIN buckets[keyOf(placed, id)] : buckets[keyOf(placed, id)][i] = id

(* The buckets hold what is placed and nothing else.                       *)
HashHolds ==
  /\ DOMAIN placed \subseteq Things /\ placed \in [DOMAIN placed -> Coordinates \X Coordinates]
  /\ buckets \in [DOMAIN buckets -> Seq(Things)]
  /\ \A key \in DOMAIN buckets : Sorted(key)
  /\ \A id \in DOMAIN placed : Found(id)

LEMMA HashBegins == HashInit => HashHolds
  BY DEF HashInit, HashHolds

(* The grid answers what it should from the buckets.                       *)
LEMMA HashAnswers == HashHolds => QueryFindsAll
<1> SUFFICES ASSUME HashHolds PROVE QueryFindsAll
  OBVIOUS
<1>1. placed = <<>> => buckets = <<>>
  <2> SUFFICES ASSUME placed = <<>> PROVE buckets = <<>>
    OBVIOUS
  <2>1. ASSUME NEW key \in DOMAIN buckets PROVE FALSE
    <3>1. buckets[key] # <<>> /\ buckets[key] \in Seq(Things)
      BY DEF HashHolds, Sorted
    <3>2. 1 \in DOMAIN buckets[key]
      BY <3>1
    <3>3. buckets[key][1] \in DOMAIN placed
      BY <3>2 DEF HashHolds, Sorted
    <3>4. QED BY <3>3
  <2>2. DOMAIN buckets = {}
    BY <2>1
  <2>3. buckets \in [{} -> Seq(Things)]
    BY <2>2 DEF HashHolds
  <2>4. QED BY <2>3
<1>2. ASSUME NEW x \in Coordinates, NEW y \in Coordinates, NEW radius \in Radii
      PROVE  /\ \A id \in DOMAIN placed :
                  within(x, y, placed[id], radius) => id \in queryCircle(x, y, radius)
             /\ queryCircle(x, y, radius) \subseteq DOMAIN placed
  <2>1. x \in Int /\ y \in Int /\ radius \in Nat
    BY HashConstants DEF Coordinates
  <2>2. ASSUME NEW id \in DOMAIN placed, within(x, y, placed[id], radius)
        PROVE  id \in queryCircle(x, y, radius)
    <3> DEFINE a == placed[id][1]
               b == placed[id][2]
    <3>1. a \in Int /\ b \in Int
      BY HashConstants DEF HashHolds, Coordinates
    <3>2. (a - x) * (a - x) + (b - y) * (b - y) <= radius * radius
      BY <2>2 DEF within
    <3> HIDE DEF a, b
    <3>3. a - x \in Int /\ b - y \in Int
      BY <3>1, <2>1
    <3>4. -radius <= a - x /\ a - x <= radius /\ -radius <= b - y /\ b - y <= radius
      BY <3>2, <3>3, <2>1, NearOnAxis
    <3>5. /\ x - radius \in Int /\ x + radius \in Int /\ y - radius \in Int /\ y + radius \in Int
          /\ x - radius <= a /\ a <= x + radius /\ y - radius <= b /\ b <= y + radius
      BY ONLY <3>1, <3>4, <2>1
    <3>6. /\ cellOf(x - radius) \in Int /\ cellOf(x + radius) \in Int /\ cellOf(a) \in Int
          /\ cellOf(x - radius) <= cellOf(a) /\ cellOf(a) <= cellOf(x + radius)
          /\ cellOf(y - radius) \in Int /\ cellOf(y + radius) \in Int /\ cellOf(b) \in Int
          /\ cellOf(y - radius) <= cellOf(b) /\ cellOf(b) <= cellOf(y + radius)
      BY <3>1, <3>5, DivMonotone, HashConstants DEF cellOf
    <3>7. keyOf(placed, id) = <<cellOf(a), cellOf(b)>>
      BY DEF keyOf, cellKey, a, b
    <3>8. keyOf(placed, id) \in cellsOf(x, y, radius)
      BY <3>6, <3>7 DEF cellsOf
    <3>9. id \in ToSet(bucketAt(keyOf(placed, id)))
      BY DEF HashHolds, Found, bucketAt, ToSet
    <3>10. QED BY <3>8, <3>9 DEF queryCircle
  <2>3. ASSUME NEW id \in queryCircle(x, y, radius) PROVE id \in DOMAIN placed
    <3>1. PICK key \in cellsOf(x, y, radius) : id \in ToSet(bucketAt(key))
      BY DEF queryCircle
    <3>2. key \in DOMAIN buckets
      BY <3>1 DEF bucketAt, ToSet
    <3>3. QED BY <3>1, <3>2 DEF bucketAt, ToSet, HashHolds, Sorted
  <2>4. QED BY <2>2, <2>3
<1>3. QED BY <1>1, <1>2 DEF QueryFindsAll

LEMMA HashPut ==
  ASSUME HashHolds, NEW id \in Things, Put(id) PROVE HashHolds'
<1>1. PICK x \in Coordinates, y \in Coordinates :
        insert(id, x, y) /\ placed' = put(placed, id, <<x, y>>)
  BY DEF Put
<1> DEFINE home == cellKey(x, y)
           grown == Append(bucketAt(home), id)
<1>2. id \notin DOMAIN placed
  BY DEF Put
<1>3. /\ DOMAIN placed' = DOMAIN placed \cup {id}
      /\ placed'[id] = <<x, y>> /\ \A other \in DOMAIN placed : placed'[other] = placed[other]
      /\ placed' \in [DOMAIN placed' -> Coordinates \X Coordinates]
      /\ DOMAIN placed' \subseteq Things
  BY <1>1, <1>2 DEF put, HashHolds
<1>4. keyOf(placed', id) = home /\ \A other \in DOMAIN placed : keyOf(placed', other) = keyOf(placed, other)
  BY <1>3 DEF keyOf
<1>5. bucketAt(home) \in Seq(Things)
  BY DEF bucketAt, HashHolds
<1>6. /\ grown \in Seq(Things) /\ grown # <<>> /\ Len(grown) = Len(bucketAt(home)) + 1
      /\ DOMAIN grown = 1 .. Len(bucketAt(home)) + 1 /\ DOMAIN bucketAt(home) = 1 .. Len(bucketAt(home))
      /\ grown[Len(bucketAt(home)) + 1] = id
      /\ \A i \in DOMAIN bucketAt(home) : grown[i] = bucketAt(home)[i]
      /\ Len(bucketAt(home)) \in Nat
  BY <1>5
<1> HIDE DEF home, grown
<1>7. /\ DOMAIN buckets' = DOMAIN buckets \cup {home}
      /\ buckets'[home] = grown /\ \A key \in DOMAIN buckets : key # home => buckets'[key] = buckets[key]
      /\ buckets' \in [DOMAIN buckets' -> Seq(Things)]
  BY <1>1, <1>6 DEF insert, put, HashHolds, home, grown
<1>8. ASSUME NEW i \in DOMAIN bucketAt(home)
      PROVE  /\ bucketAt(home)[i] \in DOMAIN placed /\ keyOf(placed, bucketAt(home)[i]) = home
             /\ \A j \in DOMAIN bucketAt(home) : bucketAt(home)[i] = bucketAt(home)[j] => i = j
  BY DEF bucketAt, HashHolds, Sorted
<1>9. ASSUME NEW i \in DOMAIN grown
      PROVE  \/ i \in DOMAIN bucketAt(home)
             \/ i = Len(bucketAt(home)) + 1
  BY <1>6
<1>10. ASSUME NEW key \in DOMAIN buckets' PROVE Sorted(key)'
  <2>1. CASE key = home
    <3>1. ASSUME NEW i \in DOMAIN grown
          PROVE  grown[i] \in DOMAIN placed' /\ keyOf(placed', grown[i]) = home
      BY <1>3, <1>4, <1>6, <1>8, <1>9
    <3>2. ASSUME NEW i \in DOMAIN grown, NEW j \in DOMAIN grown, grown[i] = grown[j]
          PROVE  i = j
      BY <1>2, <1>6, <1>8, <1>9, <3>2
    <3>3. QED BY <2>1, <3>1, <3>2, <1>6, <1>7 DEF Sorted
  <2>2. CASE key # home
    <3>1. key \in DOMAIN buckets /\ buckets'[key] = buckets[key]
      BY <1>7, <2>2
    <3>2. Sorted(key)
      BY <3>1 DEF HashHolds
    <3>3. QED BY <3>1, <3>2, <1>3, <1>4 DEF Sorted
  <2>3. QED BY <2>1, <2>2
<1>11. ASSUME NEW other \in DOMAIN placed' PROVE Found(other)'
  <2>1. CASE other = id
    BY <2>1, <1>4, <1>6, <1>7 DEF Found
  <2>2. CASE other # id
    <3>1. other \in DOMAIN placed /\ keyOf(placed', other) = keyOf(placed, other)
      BY <1>3, <1>4, <2>2
    <3>2. PICK i \in DOMAIN buckets[keyOf(placed, other)] : buckets[keyOf(placed, other)][i] = other
      BY <3>1 DEF HashHolds, Found
    <3>3. keyOf(placed, other) \in DOMAIN buckets
      BY <3>1 DEF HashHolds, Found
    <3>4. CASE keyOf(placed, other) = home
      <4>1. bucketAt(home) = buckets[keyOf(placed, other)]
        BY <3>3, <3>4 DEF bucketAt
      <4>2. i \in DOMAIN grown /\ grown[i] = other
        BY <3>2, <4>1, <1>6
      <4>3. QED BY <4>2, <3>1, <3>4, <1>7 DEF Found
    <3>5. CASE keyOf(placed, other) # home
      BY <3>1, <3>2, <3>3, <3>5, <1>7 DEF Found
    <3>6. QED BY <3>4, <3>5
  <2>3. QED BY <2>1, <2>2
<1>12. QED BY <1>3, <1>7, <1>10, <1>11 DEF HashHolds

(* Swapping with the last and dropping the last takes one element out.     *)
LEMMA SwapRemoveTakes ==
  ASSUME NEW bucket \in Seq(Things), NEW index \in DOMAIN bucket
  PROVE  LET rest == swapRemove(bucket, index)
         IN  /\ rest \in Seq(Things) /\ Len(rest) = Len(bucket) - 1
             /\ DOMAIN rest = 1 .. Len(bucket) - 1
             /\ \A i \in DOMAIN rest : rest[i] = IF i = index THEN bucket[Len(bucket)] ELSE bucket[i]
<1> DEFINE swapped == [bucket EXCEPT ![index] = bucket[Len(bucket)]]
<1>1. Len(bucket) \in Nat /\ DOMAIN bucket = 1 .. Len(bucket) /\ Len(bucket) >= 1
  OBVIOUS
<1>2. swapped \in Seq(Things) /\ Len(swapped) = Len(bucket) /\ DOMAIN swapped = DOMAIN bucket
  BY <1>1
<1>3. \A i \in DOMAIN bucket : swapped[i] = IF i = index THEN bucket[Len(bucket)] ELSE bucket[i]
  OBVIOUS
<1>4. swapRemove(bucket, index) = SubSeq(swapped, 1, Len(swapped) - 1)
  BY DEF swapRemove, Front, Last
<1> HIDE DEF swapped
<1>5. 1 \in 1 .. Len(swapped) + 1 /\ Len(swapped) - 1 \in 0 .. Len(swapped)
  BY <1>1, <1>2
<1>6. /\ SubSeq(swapped, 1, Len(swapped) - 1) \in Seq(Things)
      /\ Len(SubSeq(swapped, 1, Len(swapped) - 1)) = Len(swapped) - 1
      /\ \A i \in 1 .. Len(swapped) - 1 : SubSeq(swapped, 1, Len(swapped) - 1)[i] = swapped[i]
  BY <1>1, <1>2, <1>5
<1>7. DOMAIN swapRemove(bucket, index) = 1 .. Len(bucket) - 1
  BY <1>1, <1>2, <1>4, <1>6
<1>8. QED BY <1>1, <1>2, <1>3, <1>4, <1>6, <1>7

LEMMA HashTake ==
  ASSUME HashHolds, NEW id \in Things, Take(id) PROVE HashHolds'
<1>0. PICK home : home = keyOf(placed, id)
  OBVIOUS
<1> DEFINE bucket == buckets[home]
           index == CHOOSE i \in DOMAIN bucket : bucket[i] = id
           rest == swapRemove(bucket, index)
<1>1. /\ id \in DOMAIN placed /\ remove(id, placed[id][1], placed[id][2])
      /\ placed' = [other \in DOMAIN placed \ {id} |-> placed[other]]
  BY DEF Take, Restrict
<1>2. Found(id) /\ home \in DOMAIN buckets /\ bucket \in Seq(Things) /\ Sorted(home)
  BY <1>0, <1>1 DEF HashHolds, Found
<1>3. index \in DOMAIN bucket /\ bucket[index] = id
  BY <1>0, <1>2 DEF Found
<1>4. bucketAt(home) = bucket /\ id \in ToSet(bucket)
  BY <1>2, <1>3 DEF bucketAt, ToSet
<1>5. buckets' = IF rest = <<>> THEN [key \in DOMAIN buckets \ {home} |-> buckets[key]]
                 ELSE [buckets EXCEPT ![home] = rest]
  BY <1>0, <1>1, <1>4 DEF remove, keyOf, Restrict
<1> DEFINE n == Len(bucket)
<1>6. /\ rest \in Seq(Things) /\ Len(rest) = n - 1 /\ DOMAIN rest = 1 .. n - 1
      /\ \A i \in DOMAIN rest : rest[i] = IF i = index THEN bucket[n] ELSE bucket[i]
  BY <1>2, <1>3, SwapRemoveTakes
<1>7. n \in Nat /\ DOMAIN bucket = 1 .. n /\ n >= 1 /\ index \in 1 .. n
  BY <1>2, <1>3
<1>8. /\ \A i \in DOMAIN bucket : bucket[i] \in DOMAIN placed /\ keyOf(placed, bucket[i]) = home
      /\ \A i, j \in DOMAIN bucket : bucket[i] = bucket[j] => i = j
  BY <1>2 DEF Sorted
<1> HIDE DEF bucket, index, rest, n
<1>9. /\ DOMAIN placed' = DOMAIN placed \ {id} /\ DOMAIN placed' \subseteq Things
      /\ \A other \in DOMAIN placed' : placed'[other] = placed[other] /\ keyOf(placed', other) = keyOf(placed, other)
      /\ placed' \in [DOMAIN placed' -> Coordinates \X Coordinates]
  BY <1>1 DEF HashHolds, keyOf
<1>10. ASSUME NEW i \in DOMAIN rest
       PROVE  /\ rest[i] \in DOMAIN placed' /\ keyOf(placed, rest[i]) = home
              /\ \A j \in DOMAIN rest : rest[i] = rest[j] => i = j
  <2>1. /\ i \in 1 .. n /\ i # n /\ n \in 1 .. n
    BY <1>6, <1>7
  <2>2. rest[i] # id
    BY <2>1, <1>3, <1>6, <1>7, <1>8
  <2>3. rest[i] \in DOMAIN placed /\ keyOf(placed, rest[i]) = home
    BY <2>1, <1>6, <1>7, <1>8
  <2>4. ASSUME NEW j \in DOMAIN rest, rest[i] = rest[j] PROVE i = j
    <3>1. j \in 1 .. n /\ j # n
      BY <1>6, <1>7
    <3>2. QED BY <2>1, <2>4, <3>1, <1>6, <1>7, <1>8
  <2>5. QED BY <2>2, <2>3, <2>4, <1>9
<1>11. ASSUME NEW other \in DOMAIN placed', keyOf(placed, other) = home
       PROVE  \E i \in DOMAIN rest : rest[i] = other
  <2>1. other \in DOMAIN placed /\ other # id
    BY <1>9
  <2>2. PICK i \in DOMAIN bucket : bucket[i] = other
    BY <2>1, <1>11 DEF HashHolds, Found, bucket
  <2>3. i # index
    BY <2>1, <2>2, <1>3
  <2>4. CASE i = n
    <3>1. index \in DOMAIN rest
      BY <1>6, <1>7, <2>3, <2>4
    <3>2. QED BY <3>1, <1>6, <2>2, <2>4
  <2>5. CASE i # n
    <3>1. i \in DOMAIN rest
      BY <1>6, <1>7, <2>5
    <3>2. QED BY <3>1, <1>6, <2>2, <2>3
  <2>6. QED BY <2>4, <2>5
<1>12. ASSUME NEW key \in DOMAIN buckets, key # home
       PROVE  /\ key \in DOMAIN buckets' /\ buckets'[key] = buckets[key] /\ Sorted(key)'
  <2>1. key \in DOMAIN buckets' /\ buckets'[key] = buckets[key] /\ Sorted(key)
    BY <1>5, <1>12 DEF HashHolds
  <2>2. ASSUME NEW i \in DOMAIN buckets[key]
        PROVE  buckets[key][i] \in DOMAIN placed' /\ keyOf(placed', buckets[key][i]) = key
    <3>1. buckets[key][i] \in DOMAIN placed /\ keyOf(placed, buckets[key][i]) = key
      BY <2>1 DEF Sorted
    <3>2. buckets[key][i] # id
      BY <3>1, <1>0, <1>12
    <3>3. QED BY <3>1, <3>2, <1>9
  <2>3. QED BY <2>1, <2>2 DEF Sorted
<1>13. CASE rest = <<>>
  <2>1. /\ DOMAIN buckets' = DOMAIN buckets \ {home}
        /\ buckets' \in [DOMAIN buckets' -> Seq(Things)]
    BY <1>5, <1>13 DEF HashHolds
  <2>2. ASSUME NEW other \in DOMAIN placed' PROVE Found(other)'
    <3>1. keyOf(placed, other) # home
      BY <1>11, <1>13
    <3>2. Found(other)
      BY <1>9 DEF HashHolds
    <3>3. QED BY <3>1, <3>2, <1>9, <1>12 DEF Found
  <2>3. QED BY <2>1, <2>2, <1>9, <1>12 DEF HashHolds
<1>14. CASE rest # <<>>
  <2>1. /\ DOMAIN buckets' = DOMAIN buckets /\ buckets'[home] = rest
        /\ buckets' \in [DOMAIN buckets' -> Seq(Things)]
    BY <1>5, <1>6, <1>14, <1>2 DEF HashHolds
  <2>2. Sorted(home)'
    BY <2>1, <1>9, <1>10, <1>14 DEF Sorted
  <2>3. ASSUME NEW other \in DOMAIN placed' PROVE Found(other)'
    <3>1. Found(other) /\ keyOf(placed', other) = keyOf(placed, other)
      BY <1>9 DEF HashHolds
    <3>2. CASE keyOf(placed, other) = home
      BY <3>1, <3>2, <2>1, <1>2, <1>11 DEF Found
    <3>3. CASE keyOf(placed, other) # home
      BY <3>1, <3>3, <1>12 DEF Found
    <3>4. QED BY <3>2, <3>3
  <2>4. QED BY <2>1, <2>2, <2>3, <1>9, <1>12 DEF HashHolds
<1>15. QED BY <1>13, <1>14

(* The broad phase misses nothing and invents nothing.                     *)
THEOREM QueriesAreExact == HashSpec => []QueryFindsAll
<1>1. HashHolds /\ [HashNext]_hashVars => HashHolds'
  <2> SUFFICES ASSUME HashHolds, [HashNext]_hashVars PROVE HashHolds'
    OBVIOUS
  <2>1. CASE clear
    BY <2>1 DEF clear, HashHolds
  <2>2. ASSUME NEW id \in Things, Put(id) PROVE HashHolds'
    BY <2>2, HashPut
  <2>3. ASSUME NEW id \in Things, Take(id) PROVE HashHolds'
    BY <2>3, HashTake
  <2>4. CASE UNCHANGED hashVars
    BY <2>4 DEF hashVars, HashHolds, Sorted, Found, keyOf
  <2>5. QED BY <2>1, <2>2, <2>3, <2>4 DEF HashNext
<1>2. QED BY <1>1, HashBegins, HashAnswers, PTL DEF HashSpec

-----------------------------------------------------------------------------
(***************************************************************************)
(* Simulation: the constants, and the arithmetic of the ring.              *)
(***************************************************************************)

LEMMA ModWraps ==
  ASSUME NEW n \in Nat, n > 0, NEW x \in Int
  PROVE  /\ (0 <= x /\ x < n => x % n = x)
         /\ (n <= x /\ x < n + n => x % n = x - n)
         /\ x % n \in 0 .. n - 1
OBVIOUS

LEMMA TimesLarge ==
  ASSUME NEW n \in Nat, n > 0, NEW k \in Int, k >= 1
  PROVE  n * k >= n
<1>1. PICK j \in Nat : k = j + 1
  BY k - 1 \in Nat, k = (k - 1) + 1
<1>2. n * j \in Nat
  BY <1>1
<1>3. n * k = n * j + n
  BY <1>1
<1>4. QED BY <1>2, <1>3

LEMMA ModSucc ==
  ASSUME NEW n \in Nat, n > 0, NEW t \in Nat
  PROVE  /\ (t - 1) % n \in 0 .. n - 1 /\ t % n \in 0 .. n - 1
         /\ (t % n # 0 => t % n = ((t - 1) % n) + 1)
<1> DEFINE q == t \div n
           p == (t - 1) \div n
           r == t % n
           s == (t - 1) % n
           a == n * q
           b == n * p
<1>1. q \in Int /\ p \in Int /\ a \in Int /\ b \in Int /\ r \in 0 .. n - 1 /\ s \in 0 .. n - 1 /\ t = a + r /\ t - 1 = b + s
  OBVIOUS
<1>2. n * (q - p) = a - b /\ n * (p - q) = b - a
  BY <1>1
<1> HIDE DEF q, p, r, s
<1>3. q - p >= 1 => n * (q - p) >= n
  BY <1>1, TimesLarge
<1>4. p - q >= 1 => n * (p - q) >= n
  BY <1>1, TimesLarge
<1>5. p = q => a = b
  OBVIOUS
<1> HIDE DEF a, b
<1>6. (q - p >= 1 => a - b >= n) /\ (p - q >= 1 => b - a >= n)
  BY <1>2, <1>3, <1>4
<1>7. r # 0 => r = s + 1
  BY ONLY <1>1, <1>5, <1>6, n \in Nat, t \in Nat
<1>8. QED BY <1>1, <1>7 DEF r, s


LEMMA MinOfThree ==
  ASSUME NEW a \in Int, NEW b \in Int, NEW c \in Int
  PROVE  /\ Min({a, b, c}) \in {a, b, c}
         /\ Min({a, b, c}) <= a /\ Min({a, b, c}) <= b /\ Min({a, b, c}) <= c
<1> DEFINE m == IF a <= b THEN (IF a <= c THEN a ELSE c) ELSE (IF b <= c THEN b ELSE c)
<1>1. m \in {a, b, c} /\ \A y \in {a, b, c} : m <= y
  OBVIOUS
<1> HIDE DEF m
<1>2. Min({a, b, c}) \in {a, b, c} /\ \A y \in {a, b, c} : Min({a, b, c}) <= y
  BY <1>1 DEF Min
<1>3. QED BY <1>2

(* The constants, and the longest stretch a tick can add to a body.        *)
Longest == Max({Spacing, BoostSpeed})

LEMMA SimNats ==
  /\ StartMass \in Nat /\ StartMass >= 1 /\ Spacing \in Nat /\ Spacing >= 1
  /\ BaseSpeed \in Nat /\ BaseSpeed >= 1 /\ BoostSpeed \in Nat /\ BoostSpeed >= BaseSpeed
  /\ DrainUnit \in Nat /\ DrainUnit >= 1 /\ BaseLength \in Nat /\ BaseLength >= 1
  /\ DropMass \in Nat /\ DropMass >= 1 /\ MinDrops \in Nat /\ MinDrops >= 1
  /\ MaxDrops \in Nat /\ MaxDrops >= MinDrops /\ FoodBudget \in Nat /\ FoodBudget >= 1
  /\ SweepEvery \in Nat /\ SweepEvery >= 1 /\ SpineCapacity \in Nat /\ SpineCapacity >= 1
  /\ MinBoostMass \in Nat /\ TargetFood \in Nat /\ FoodLife \in Nat /\ MaxTick \in Nat
  /\ MaxId \in Nat /\ MaxQueue \in Nat /\ MaxSeq \in Nat
  /\ MaxLength \in Nat /\ MaxLength >= 1 /\ MaxLength < SpineCapacity
<1>1. /\ {StartMass, Spacing, BaseSpeed, BoostSpeed, DrainUnit, BaseLength, DropMass, MinDrops,
          MaxDrops, FoodBudget, SweepEvery, SpineCapacity} \subseteq Nat \ {0}
      /\ {MinBoostMass, TargetFood, FoodLife, MaxTick, MaxId, MaxQueue, MaxSeq} \subseteq Nat
      /\ MaxLength \in 1 .. SpineCapacity - 1
      /\ MinDrops <= MaxDrops /\ BaseSpeed <= BoostSpeed
  BY SimulationConstants
<1>2. /\ StartMass \in Nat \ {0} /\ Spacing \in Nat \ {0} /\ BaseSpeed \in Nat \ {0} /\ BoostSpeed \in Nat \ {0}
      /\ DrainUnit \in Nat \ {0} /\ BaseLength \in Nat \ {0} /\ DropMass \in Nat \ {0} /\ MinDrops \in Nat \ {0}
      /\ MaxDrops \in Nat \ {0} /\ FoodBudget \in Nat \ {0} /\ SweepEvery \in Nat \ {0}
      /\ SpineCapacity \in Nat \ {0}
  BY ONLY <1>1
<1>3. /\ MinBoostMass \in Nat /\ TargetFood \in Nat /\ FoodLife \in Nat /\ MaxTick \in Nat
      /\ MaxId \in Nat /\ MaxQueue \in Nat /\ MaxSeq \in Nat
  BY ONLY <1>1
<1>4. MaxLength \in 1 .. SpineCapacity - 1 /\ MinDrops <= MaxDrops /\ BaseSpeed <= BoostSpeed
  BY ONLY <1>1
<1>5. QED BY ONLY <1>2, <1>3, <1>4

LEMMA LongestIs == Longest \in Nat /\ Spacing <= Longest /\ BoostSpeed <= Longest
BY SimNats, MaxOfTwo DEF Longest

LEMMA LengthIs ==
  ASSUME NEW m \in Nat
  PROVE  lengthForMass(m) \in 1 .. MaxLength
<1>1. (m * 9) \div 10 \in Nat
  OBVIOUS
<1> DEFINE x == BaseLength + (m * 9) \div 10
<1>2. x \in Nat /\ x >= 1
  BY <1>1, SimNats
<1> HIDE DEF x
<1>3. Min({MaxLength, x}) = IF MaxLength <= x THEN MaxLength ELSE x
  BY <1>2, SimNats, MinOfTwo
<1>4. lengthForMass(m) = Min({MaxLength, x})
  BY DEF lengthForMass, x
<1>5. QED BY <1>2, <1>3, <1>4, SimNats

(***************************************************************************)
(* The ring of the spine.                                                  *)
(***************************************************************************)
Ring(h, i) == (h - i + SpineCapacity) % SpineCapacity
After(h) == (h + 1) % SpineCapacity

LEMMA RingIs ==
  ASSUME NEW h \in 0 .. SpineCapacity - 1
  PROVE  /\ Ring(h, 0) = h
         /\ \A i \in 0 .. SpineCapacity - 1 :
              Ring(h, i) \in 0 .. SpineCapacity - 1 /\ Ring(h, i) = (IF i <= h THEN h - i ELSE h - i + SpineCapacity)
         /\ \A i, j \in 0 .. SpineCapacity - 1 : Ring(h, i) = Ring(h, j) => i = j
         /\ After(h) \in 0 .. SpineCapacity - 1
         /\ \A i \in 1 .. SpineCapacity - 1 : Ring(After(h), i) = Ring(h, i - 1)
<1> DEFINE n == SpineCapacity
<1>1. n \in Nat /\ n > 0 /\ h \in 0 .. n - 1
  BY SimNats
<1> HIDE DEF n
<1>2. ASSUME NEW g \in 0 .. n - 1, NEW i \in 0 .. n - 1
      PROVE  (g - i + n) % n \in 0 .. n - 1 /\ (g - i + n) % n = (IF i <= g THEN g - i ELSE g - i + n)
  <2>1. g - i + n \in Int /\ 0 <= g - i + n /\ g - i + n < n + n
    BY <1>1, <1>2
  <2>2. i <= g => n <= g - i + n /\ (g - i + n) - n = g - i
    BY <1>1, <1>2
  <2>3. ~(i <= g) => g - i + n < n
    BY <1>1, <1>2
  <2>4. QED BY <1>1, <2>1, <2>2, <2>3, ModWraps
<1>3. (h + 1) % n \in 0 .. n - 1 /\ (h + 1) % n = (IF h + 1 < n THEN h + 1 ELSE 0)
  <2>1. h + 1 \in Int /\ 0 <= h + 1 /\ h + 1 < n + n
    BY <1>1
  <2>2. ~(h + 1 < n) => n <= h + 1 /\ (h + 1) - n = 0
    BY <1>1
  <2>3. QED BY <1>1, <2>1, <2>2, ModWraps
<1>4. /\ \A i \in 0 .. n - 1 : Ring(h, i) \in 0 .. n - 1 /\ Ring(h, i) = (IF i <= h THEN h - i ELSE h - i + n)
      /\ After(h) \in 0 .. n - 1
  BY <1>1, <1>2, <1>3 DEF Ring, After, n
<1>5. ASSUME NEW i \in 0 .. n - 1, NEW j \in 0 .. n - 1, Ring(h, i) = Ring(h, j) PROVE i = j
  <2>1. (IF i <= h THEN h - i ELSE h - i + n) = (IF j <= h THEN h - j ELSE h - j + n)
    BY <1>4, <1>5
  <2>2. QED BY ONLY <1>1, <2>1, i \in 0 .. n - 1, j \in 0 .. n - 1
<1>6. ASSUME NEW i \in 1 .. n - 1 PROVE Ring(After(h), i) = Ring(h, i - 1)
  <2>1. i \in 0 .. n - 1 /\ i - 1 \in 0 .. n - 1
    BY <1>1, <1>6
  <2>2. Ring(h, i - 1) = (IF i - 1 <= h THEN h - (i - 1) ELSE h - (i - 1) + n)
    BY <1>4, <2>1
  <2>3. After(h) \in 0 .. n - 1 /\ After(h) = (IF h + 1 < n THEN h + 1 ELSE 0)
    BY <1>3 DEF After, n
  <2> DEFINE g == After(h)
  <2> HIDE DEF g
  <2>4. Ring(g, i) = (IF i <= g THEN g - i ELSE g - i + n)
    BY <1>2, <2>1, <2>3 DEF Ring, g, n
  <2>5. Ring(g, i) = Ring(h, i - 1)
    BY ONLY <1>1, <2>1, <2>2, <2>3, <2>4 DEF g
  <2>6. QED BY <2>5 DEF g
<1>7. 0 \in 0 .. n - 1 /\ (0 <= h => h - 0 = h)
  BY <1>1
<1>8. Ring(h, 0) = h
  BY <1>1, <1>4, <1>7
<1>9. QED BY <1>4, <1>5, <1>6, <1>8 DEF n

(* The spine sp with its head in slot h is a path of n points; since is    *)
(* what the head travelled beyond the last one recorded.                   *)
Path(sp, h, n, since) ==
  /\ \A i \in 0 .. n - 1 : sp[Ring(h, i)] \in Nat
  /\ \A i \in 1 .. n - 1 : sp[Ring(h, i - 1)] - sp[Ring(h, i)] \in 1 .. Spacing + Longest
  /\ n >= 2 => sp[h] - sp[Ring(h, 1)] <= Longest + (IF since < Spacing THEN since ELSE 0)

Slots == 0 .. SpineCapacity - 1

LEMMA PathCut ==
  ASSUME NEW sp, NEW h, NEW since, NEW n \in Nat, NEW m \in 1 .. n, Path(sp, h, n, since)
  PROVE  Path(sp, h, m, since)
<1>1. (\A i \in 0 .. m - 1 : i \in 0 .. n - 1) /\ (\A i \in 1 .. m - 1 : i \in 1 .. n - 1) /\ (m >= 2 => n >= 2)
  OBVIOUS
<1>2. QED BY <1>1 DEF Path

(* The head slides on without a new point.                                 *)
LEMMA PathSlides ==
  ASSUME NEW sp \in [Slots -> Int], NEW h \in Slots, NEW n \in 1 .. MaxLength, NEW since \in Nat,
         Path(sp, h, n, since), NEW d \in 1 .. BoostSpeed, since + d < Spacing
  PROVE  Path([sp EXCEPT ![h] = sp[h] + d], h, n, since + d)
<1> DEFINE q == [sp EXCEPT ![h] = sp[h] + d]
<1>1. /\ n \in Nat /\ n >= 1 /\ d \in Nat /\ d >= 1 /\ Spacing \in Nat /\ Longest \in Nat
      /\ \A i \in 0 .. n - 1 : i \in Slots
  BY SimNats, LongestIs DEF Slots
<1>2. Ring(h, 0) = h /\ \A i \in 0 .. n - 1 : Ring(h, i) \in Slots
  BY <1>1, RingIs DEF Slots
<1>3. \A i \in 1 .. n - 1 : i \in 0 .. n - 1 /\ i - 1 \in 0 .. n - 1 /\ i # 0 /\ (i - 1 = 0 <=> i = 1)
  BY <1>1
<1>4. 0 \in Slots
  BY SimNats DEF Slots
<1>5. \A i \in 1 .. n - 1 : Ring(h, i) # h
  BY <1>1, <1>2, <1>3, <1>4, RingIs DEF Slots
<1>6. \A i \in 2 .. n - 1 : i \in 1 .. n - 1 /\ i - 1 \in 1 .. n - 1
  BY <1>1
<1>7. sp[h] \in Nat
  <2>1. 0 \in 0 .. n - 1
    BY <1>1
  <2>2. QED BY <1>2, <2>1 DEF Path
<1>8. q[h] = sp[h] + d /\ \A k \in Slots : k # h => q[k] = sp[k]
  OBVIOUS
<1> HIDE DEF q
<1>9. \A i \in 1 .. n - 1 : q[Ring(h, i)] = sp[Ring(h, i)]
  BY <1>2, <1>3, <1>5, <1>8
<1>10. ASSUME NEW i \in 0 .. n - 1 PROVE q[Ring(h, i)] \in Nat
  <2>1. CASE i = 0
    BY <1>1, <1>2, <1>7, <1>8, <2>1
  <2>2. CASE i # 0
    <3>1. i \in 1 .. n - 1
      BY <2>2
    <3>2. QED BY <1>9, <3>1 DEF Path
  <2>3. QED BY <2>1, <2>2
<1>11. n >= 2 => q[h] - q[Ring(h, 1)] <= Longest + (since + d)
                 /\ q[h] - q[Ring(h, 1)] \in 1 .. Spacing + Longest
  <2> SUFFICES ASSUME n >= 2 PROVE q[h] - q[Ring(h, 1)] <= Longest + (since + d)
                                   /\ q[h] - q[Ring(h, 1)] \in 1 .. Spacing + Longest
    OBVIOUS
  <2>1. 1 \in 1 .. n - 1 /\ 1 - 1 = 0
    BY <1>1
  <2>2. sp[h] - sp[Ring(h, 1)] \in 1 .. Spacing + Longest /\ sp[Ring(h, 1)] \in Nat
    BY <1>2, <1>3, <2>1 DEF Path
  <2>3. since < Spacing
    BY <1>1
  <2>4. sp[h] - sp[Ring(h, 1)] <= Longest + since
    BY <2>3 DEF Path
  <2>5. q[h] = sp[h] + d /\ q[Ring(h, 1)] = sp[Ring(h, 1)]
    BY <1>8, <1>9, <2>1
  <2> DEFINE x == sp[h]
             y == sp[Ring(h, 1)]
  <2> HIDE DEF x, y
  <2>6. x \in Nat /\ y \in Nat /\ x - y \in 1 .. Spacing + Longest /\ x - y <= Longest + since
    BY <1>7, <2>2, <2>4 DEF x, y
  <2>7. (x + d) - y <= Longest + (since + d) /\ (x + d) - y \in 1 .. Spacing + Longest
    BY ONLY <1>1, <2>6, since \in Nat, since + d < Spacing
  <2>8. QED BY <2>5, <2>7 DEF x, y
<1>12. ASSUME NEW i \in 1 .. n - 1 PROVE q[Ring(h, i - 1)] - q[Ring(h, i)] \in 1 .. Spacing + Longest
  <2>1. CASE i = 1
    <3>1. n >= 2 /\ i - 1 = 0
      BY <1>1, <2>1
    <3>2. QED BY <1>2, <1>11, <2>1, <3>1
  <2>2. CASE i # 1
    <3>1. i \in 2 .. n - 1
      BY <2>2
    <3>2. QED BY <1>6, <1>9, <3>1 DEF Path
  <2>3. QED BY <2>1, <2>2
<1>13. n >= 2 => q[h] - q[Ring(h, 1)] <= Longest + (IF since + d < Spacing THEN since + d ELSE 0)
  BY <1>11
<1>14. Path(q, h, n, since + d)
  BY <1>10, <1>12, <1>13 DEF Path
<1>15. QED BY <1>14 DEF q

(* A new point is pushed ahead of the head; of the body, at most one point *)
(* more remains.                                                           *)
LEMMA PathGrows ==
  ASSUME NEW sp \in [Slots -> Int], NEW h \in Slots, NEW n \in 1 .. MaxLength, NEW since \in Nat,
         Path(sp, h, n, since), NEW d \in 1 .. BoostSpeed, NEW m \in 1 .. MaxLength, m <= n + 1,
         NEW rest \in Nat
  PROVE  Path([sp EXCEPT ![After(h)] = sp[h] + d], After(h), m, rest)
<1> DEFINE g == After(h)
           q == [sp EXCEPT ![g] = sp[h] + d]
<1>1. /\ n \in Nat /\ n >= 1 /\ m \in Nat /\ m >= 1 /\ d \in Nat /\ d >= 1 /\ Spacing \in Nat
      /\ Longest \in Nat /\ d <= Longest
      /\ (\A i \in 0 .. m - 1 : i \in Slots) /\ (\A i \in 1 .. m - 1 : i \in 1 .. SpineCapacity - 1)
  BY SimNats, LongestIs DEF Slots
<1>2. g \in Slots /\ Ring(h, 0) = h
  BY RingIs DEF Slots
<1>3. Ring(g, 0) = g /\ \A i \in 0 .. m - 1 : Ring(g, i) \in Slots
  BY <1>1, <1>2, RingIs DEF Slots
<1>4. \A i \in 1 .. m - 1 : Ring(g, i) = Ring(h, i - 1)
  BY <1>1, RingIs DEF Slots
<1>5. \A i \in 1 .. m - 1 : i \in 0 .. m - 1 /\ i - 1 \in 0 .. n - 1 /\ i # 0
  BY <1>1
<1>6. 0 \in Slots
  BY SimNats DEF Slots
<1>7. \A i \in 1 .. m - 1 : Ring(g, i) # g
  <2> SUFFICES ASSUME NEW i \in 1 .. m - 1 PROVE Ring(g, i) # g
    OBVIOUS
  <2>1. i \in Slots /\ i # 0
    BY <1>1, <1>5
  <2>2. \A j, k \in Slots : Ring(g, j) = Ring(g, k) => j = k
    BY <1>2, RingIs DEF Slots
  <2>3. QED BY <1>3, <1>6, <2>1, <2>2
<1>8. sp[h] \in Nat
  <2>1. 0 \in 0 .. n - 1
    BY <1>1
  <2>2. QED BY <1>2, <2>1 DEF Path
<1>9. q[g] = sp[h] + d /\ \A k \in Slots : k # g => q[k] = sp[k]
  BY <1>2
<1> HIDE DEF q, g
<1>10. \A i \in 1 .. m - 1 : q[Ring(g, i)] = sp[Ring(h, i - 1)]
  BY <1>3, <1>4, <1>5, <1>7, <1>9
<1>11. ASSUME NEW i \in 0 .. m - 1 PROVE q[Ring(g, i)] \in Nat
  <2>1. CASE i = 0
    BY <1>1, <1>3, <1>8, <1>9, <2>1
  <2>2. CASE i # 0
    <3>1. i \in 1 .. m - 1
      BY <2>2
    <3>2. QED BY <1>5, <1>10, <3>1 DEF Path
  <2>3. QED BY <2>1, <2>2
<1>12. m >= 2 => q[g] - q[Ring(g, 1)] = d
  <2> SUFFICES ASSUME m >= 2 PROVE q[g] - q[Ring(g, 1)] = d
    OBVIOUS
  <2>1. 1 \in 1 .. m - 1 /\ 1 - 1 = 0
    BY <1>1
  <2>2. q[Ring(g, 1)] = sp[h]
    BY <1>2, <1>10, <2>1
  <2>3. QED BY <1>1, <1>8, <1>9, <2>2
<1>13. ASSUME NEW i \in 1 .. m - 1 PROVE q[Ring(g, i - 1)] - q[Ring(g, i)] \in 1 .. Spacing + Longest
  <2>1. CASE i = 1
    <3>1. m >= 2 /\ i - 1 = 0
      BY <1>1, <2>1
    <3>2. q[Ring(g, i - 1)] - q[Ring(g, i)] = d
      BY <1>3, <1>12, <2>1, <3>1
    <3>3. d \in 1 .. Spacing + Longest
      BY ONLY <1>1
    <3>4. QED BY <3>2, <3>3
  <2>2. CASE i # 1
    <3>1. i - 1 \in 1 .. m - 1 /\ i - 1 \in 1 .. n - 1
      BY <1>1, <2>2
    <3>2. q[Ring(g, i - 1)] = sp[Ring(h, (i - 1) - 1)] /\ q[Ring(g, i)] = sp[Ring(h, i - 1)]
      BY <1>10, <3>1
    <3>3. QED BY <3>1, <3>2 DEF Path
  <2>3. QED BY <2>1, <2>2
<1>14. m >= 2 => q[g] - q[Ring(g, 1)] <= Longest + (IF rest < Spacing THEN rest ELSE 0)
  <2>1. d <= Longest + (IF rest < Spacing THEN rest ELSE 0)
    BY ONLY <1>1, rest \in Nat
  <2>2. QED BY <1>12, <2>1
<1>15. Path(q, g, m, rest)
  BY <1>11, <1>13, <1>14 DEF Path
<1>16. QED BY <1>15 DEF q, g

SnakeRec ==
  [playerId : Owners, headIndex : Slots, spineLength : 1 .. MaxLength, spine : [Slots -> Int],
   mass : Nat \ {0}, boosting : BOOLEAN, alive : BOOLEAN, lastAckSeq : 0 .. MaxSeq, kills : Nat,
   boostDebt : 0 .. DrainUnit - 1, sinceLastPoint : Nat]

(* A snake, its body a path.                                               *)
SnakeInv(s) == s \in SnakeRec /\ Path(s.spine, s.headIndex, s.spineLength, s.sinceLastPoint)

LEMMA SnakeIs ==
  ASSUME NEW s, s \in SnakeRec
  PROVE  /\ s.playerId \in Owners /\ s.headIndex \in Slots /\ s.spineLength \in 1 .. MaxLength
         /\ s.spine \in [Slots -> Int] /\ s.mass \in Nat /\ s.mass >= 1 /\ s.boosting \in BOOLEAN
         /\ s.alive \in BOOLEAN /\ s.lastAckSeq \in 0 .. MaxSeq /\ s.kills \in Nat
         /\ s.boostDebt \in 0 .. DrainUnit - 1 /\ s.sinceLastPoint \in Nat /\ s.spineLength \in Nat
<1>1. /\ s.playerId \in Owners /\ s.headIndex \in Slots /\ s.spineLength \in 1 .. MaxLength
      /\ s.spine \in [Slots -> Int] /\ s.mass \in Nat \ {0} /\ s.boosting \in BOOLEAN
      /\ s.alive \in BOOLEAN /\ s.lastAckSeq \in 0 .. MaxSeq /\ s.kills \in Nat
      /\ s.boostDebt \in 0 .. DrainUnit - 1 /\ s.sinceLastPoint \in Nat
  BY DEF SnakeRec
<1>2. s.mass \in Nat /\ s.mass >= 1 /\ s.spineLength \in Nat
  BY ONLY <1>1, SimNats
<1>3. QED BY <1>1, <1>2

LEMMA MassSet ==
  ASSUME NEW s, SnakeInv(s), NEW mass \in Int
  PROVE  SnakeInv(setMass(s, mass)) /\ setMass(s, mass).playerId = s.playerId
<1> DEFINE m == Max({1, mass})
           n == Min({s.spineLength, lengthForMass(m), SpineCapacity})
           t == setMass(s, mass)
<1>1. m \in Nat /\ m >= 1
  BY MaxOfTwo
<1>2. s \in SnakeRec /\ s.spineLength \in 1 .. MaxLength
  BY DEF SnakeInv, SnakeRec
<1>3. n \in 1 .. s.spineLength
  <2> DEFINE a == s.spineLength
             b == lengthForMass(m)
             c == SpineCapacity
  <2>1. a \in Nat /\ a >= 1 /\ b \in Nat /\ b >= 1 /\ c \in Nat /\ c >= 1
    BY <1>1, <1>2, LengthIs, SimNats
  <2> HIDE DEF a, b, c
  <2>2. Min({a, b, c}) \in {a, b, c} /\ Min({a, b, c}) <= a
    <3>1. a \in Int /\ b \in Int /\ c \in Int
      BY ONLY <2>1
    <3>2. QED BY ONLY <3>1, MinOfThree
  <2>3. Min({a, b, c}) \in 1 .. a
    BY <2>1, <2>2
  <2>4. QED BY <2>3 DEF a, b, c
<1>4. t = [s EXCEPT !.mass = m, !.spineLength = n]
  BY <1>2 DEF setMass, SnakeRec
<1> HIDE DEF m, n
<1>5. m \in Nat \ {0} /\ n \in 1 .. MaxLength
  BY <1>1, <1>2, <1>3, SimNats
<1>6. t \in SnakeRec
  BY <1>2, <1>4, <1>5 DEF SnakeRec
<1>7. t.spine = s.spine /\ t.headIndex = s.headIndex /\ t.spineLength = n /\ t.sinceLastPoint = s.sinceLastPoint
      /\ t.playerId = s.playerId
  BY <1>2, <1>4 DEF SnakeRec
<1>8. Path(s.spine, s.headIndex, n, s.sinceLastPoint)
  <2>1. s.spineLength \in Nat
    BY <1>2, SimNats
  <2>2. QED BY <1>3, <2>1, PathCut DEF SnakeInv
<1>9. QED BY <1>6, <1>7, <1>8 DEF SnakeInv, t

LEMMA Drained ==
  ASSUME NEW s, SnakeInv(s)
  PROVE  SnakeInv(drain(s)) /\ drain(s).playerId = s.playerId
<1>1. s \in SnakeRec /\ s.mass - 1 \in Int
  BY SnakeIs DEF SnakeInv
<1>2. s.boostDebt \in 0 .. DrainUnit - 1 /\ DrainUnit \in Nat
  BY <1>1, SnakeIs, SimNats
<1>3. ASSUME NEW d \in 0 .. DrainUnit - 1
      PROVE  SnakeInv([s EXCEPT !.boostDebt = d]) /\ [s EXCEPT !.boostDebt = d].playerId = s.playerId
  BY <1>1 DEF SnakeInv, SnakeRec
<1> DEFINE debt == s.boostDebt + 1
<1>4. /\ (debt < DrainUnit => debt \in 0 .. DrainUnit - 1)
      /\ (~(debt < DrainUnit) => debt - DrainUnit \in 0 .. DrainUnit - 1)
  BY <1>2
<1> HIDE DEF debt
<1>5. drain(s) = IF ~canBoost(s) THEN s
                 ELSE IF debt < DrainUnit THEN [s EXCEPT !.boostDebt = debt]
                 ELSE setMass([s EXCEPT !.boostDebt = debt - DrainUnit], s.mass - 1)
  BY DEF drain, debt
<1>6. CASE ~canBoost(s)
  BY <1>5, <1>6
<1>7. CASE canBoost(s) /\ debt < DrainUnit
  BY <1>3, <1>4, <1>5, <1>7
<1>8. CASE canBoost(s) /\ ~(debt < DrainUnit)
  <2> DEFINE t == [s EXCEPT !.boostDebt = debt - DrainUnit]
  <2>1. SnakeInv(t) /\ t.playerId = s.playerId
    BY <1>3, <1>4, <1>8
  <2> HIDE DEF t
  <2>2. drain(s) = setMass(t, s.mass - 1)
    BY <1>5, <1>8 DEF t
  <2>3. QED BY <1>1, <2>1, <2>2, MassSet
<1>9. QED BY <1>6, <1>7, <1>8

LEMMA Advanced ==
  ASSUME NEW s, SnakeInv(s), NEW d \in 1 .. BoostSpeed
  PROVE  SnakeInv(advance(s, d)) /\ advance(s, d).playerId = s.playerId
<1> DEFINE h == s.headIndex
           sp == s.spine
           n == s.spineLength
           since == s.sinceLastPoint
           t == advance(s, d)
<1>1. /\ s \in SnakeRec /\ h \in Slots /\ sp \in [Slots -> Int] /\ n \in 1 .. MaxLength /\ n \in Nat /\ since \in Nat
      /\ s.mass \in Nat
  BY SnakeIs DEF SnakeInv
<1>2. Path(sp, h, n, since) /\ d \in Nat /\ Spacing \in Nat
  BY SimNats DEF SnakeInv
<1>3. sp[h] + d \in Int
  BY <1>1, <1>2
<1>4. CASE since + d >= Spacing
  <2> DEFINE rest == (since + d) - Spacing
             b == lengthForMass(s.mass)
             m == Min({n + 1, b, SpineCapacity})
             q == [sp EXCEPT ![After(h)] = sp[h] + d]
  <2>1. rest \in Nat
    BY <1>1, <1>2, <1>4
  <2>2. b \in 1 .. MaxLength
    BY <1>1, LengthIs
  <2>3. m \in 1 .. MaxLength /\ m <= n + 1
    <3> HIDE DEF n, b
    <3>1. n + 1 \in Nat /\ b \in Nat /\ b >= 1 /\ b <= MaxLength /\ n + 1 >= 1
      BY <1>1, <2>2, SimNats
    <3>2. m \in {n + 1, b, SpineCapacity} /\ m <= n + 1 /\ m <= b
      <4>1. n + 1 \in Int /\ b \in Int /\ SpineCapacity \in Int
        BY ONLY <3>1, SimNats
      <4>2. QED BY ONLY <4>1, MinOfThree
    <3>3. QED BY ONLY <3>1, <3>2, SimNats
  <2>4. After(h) \in Slots
    BY <1>1, RingIs DEF Slots
  <2>5. Path(q, After(h), m, rest)
    BY <1>1, <1>2, <2>1, <2>3, PathGrows
  <2>6. q \in [Slots -> Int]
    BY <1>1, <1>3, <2>4
  <2>7. t = [s EXCEPT !.sinceLastPoint = rest, !.headIndex = After(h), !.spine = q, !.spineLength = m]
    <3> DEFINE u == [s EXCEPT !.sinceLastPoint = rest]
    <3>1. t = pushPoint(u, sp[h] + d)
      BY <1>4 DEF advance, headOf
    <3>2. /\ u.headIndex = h /\ u.mass = s.mass /\ u.spineLength = n /\ u.spine = sp /\ u \in SnakeRec
          /\ u.sinceLastPoint = rest
      BY <1>1, <2>1 DEF SnakeRec
    <3>3. pushPoint(u, sp[h] + d) =
            [u EXCEPT !.headIndex = After(h), !.spine[After(h)] = sp[h] + d, !.spineLength = m]
      BY <3>2 DEF pushPoint, After, SnakeRec
    <3> HIDE DEF m
    <3>4. [u EXCEPT !.headIndex = After(h), !.spine[After(h)] = sp[h] + d, !.spineLength = m]
            = [u EXCEPT !.headIndex = After(h), !.spine = q, !.spineLength = m]
      BY <3>2 DEF SnakeRec
    <3> HIDE DEF q, h
    <3>5. [u EXCEPT !.headIndex = After(h), !.spine = q, !.spineLength = m]
            = [s EXCEPT !.sinceLastPoint = rest, !.headIndex = After(h), !.spine = q, !.spineLength = m]
      BY <1>1 DEF SnakeRec
    <3>6. QED BY <3>1, <3>3, <3>4, <3>5
  <2> HIDE DEF t, q, m, rest
  <2>8. t \in SnakeRec /\ t.spine = q /\ t.headIndex = After(h) /\ t.spineLength = m /\ t.sinceLastPoint = rest
        /\ t.playerId = s.playerId
    BY <1>1, <2>1, <2>3, <2>4, <2>6, <2>7 DEF SnakeRec
  <2>9. QED BY <2>5, <2>8 DEF SnakeInv, t
<1>5. CASE ~(since + d >= Spacing)
  <2> DEFINE q == [sp EXCEPT ![h] = sp[h] + d]
             rest == since + d
  <2>1. rest \in Nat /\ rest < Spacing
    BY <1>1, <1>2, <1>5
  <2>2. Path(q, h, n, rest)
    BY <1>1, <1>2, <2>1, PathSlides
  <2>3. q \in [Slots -> Int]
    BY <1>1, <1>3
  <2>4. t = [s EXCEPT !.sinceLastPoint = rest, !.spine[h] = sp[h] + d]
    BY <1>5 DEF advance, headOf
  <2>5. t = [s EXCEPT !.sinceLastPoint = rest, !.spine = q]
    BY <1>1, <2>4 DEF SnakeRec
  <2> HIDE DEF t, q, rest
  <2>6. t \in SnakeRec /\ t.spine = q /\ t.headIndex = h /\ t.spineLength = n /\ t.sinceLastPoint = rest
        /\ t.playerId = s.playerId
    BY <1>1, <2>1, <2>3, <2>5 DEF SnakeRec
  <2>7. QED BY <2>2, <2>6 DEF SnakeInv, t
<1>6. QED BY <1>4, <1>5

LEMMA CommandApplied ==
  ASSUME NEW s, SnakeInv(s), NEW command \in Command
  PROVE  SnakeInv(applyCommand(s, command)) /\ applyCommand(s, command).playerId = s.playerId
<1>1. s \in SnakeRec /\ command.seq \in 0 .. MaxSeq /\ command.boost \in BOOLEAN
  BY SimNats DEF SnakeInv, Command
<1> DEFINE t == [s EXCEPT !.boosting = command.boost, !.lastAckSeq = command.seq]
<1>2. t \in SnakeRec /\ t.spine = s.spine /\ t.headIndex = s.headIndex /\ t.spineLength = s.spineLength
      /\ t.sinceLastPoint = s.sinceLastPoint /\ t.playerId = s.playerId
  BY <1>1 DEF SnakeRec
<1>3. SnakeInv(t)
  BY <1>2 DEF SnakeInv
<1> HIDE DEF t
<1>4. applyCommand(s, command) = s \/ applyCommand(s, command) = t
  BY DEF applyCommand, t
<1>5. QED BY <1>2, <1>3, <1>4

LEMMA TimesMonotone ==
  ASSUME NEW a \in Nat, NEW k \in Nat
  PROVE  a * k \in Nat /\ a * (k + 1) - a * k = a
OBVIOUS

LEMMA NewSnakeIs ==
  ASSUME NEW p \in Owners
  PROVE  SnakeInv(newSnake(p)) /\ newSnake(p).playerId = p
<1> DEFINE n == lengthForMass(StartMass)
           c == SpineCapacity
           behind == [i \in 0 .. c - 1 |-> (c - i) % c]
           sp == [i \in 0 .. c - 1 |-> IF behind[i] < n THEN Spacing * (n - 1 - behind[i]) ELSE Unwritten]
           s == newSnake(p)
<1>1. n \in 1 .. MaxLength /\ n \in Nat /\ n >= 1 /\ n < c /\ c \in Nat /\ c > 0 /\ Spacing \in Nat
  <2>1. n \in 1 .. MaxLength
    BY SimNats, LengthIs
  <2> HIDE DEF n
  <2>2. QED BY <2>1, SimNats
<1>2. s = [playerId |-> p, headIndex |-> 0, spineLength |-> n, spine |-> sp,
           mass |-> StartMass, boosting |-> FALSE, alive |-> TRUE, lastAckSeq |-> 0, kills |-> 0,
           boostDebt |-> 0, sinceLastPoint |-> 0]
  BY DEF newSnake
<1> HIDE DEF n
<1>3. \A i \in 0 .. c - 1 : behind[i] \in Nat
  <2> SUFFICES ASSUME NEW i \in 0 .. c - 1 PROVE (c - i) % c \in Nat
    OBVIOUS
  <2>1. (c - i) % c \in 0 .. c - 1
    BY <1>1, ModWraps
  <2>2. QED BY <1>1, <2>1
<1>4. ASSUME NEW i \in 0 .. c - 1 PROVE sp[i] \in Int
  <2> DEFINE k == behind[i]
  <2>1. k \in Nat
    BY <1>3
  <2>2. sp[i] = IF k < n THEN Spacing * (n - 1 - k) ELSE Unwritten
    OBVIOUS
  <2> HIDE DEF k, sp
  <2>3. n - 1 - k \in Int
    BY <1>1, <2>1
  <2>4. Spacing * (n - 1 - k) \in Int
    BY <1>1, <2>3
  <2>5. Unwritten \in Int
    BY DEF Unwritten
  <2>6. QED BY <2>2, <2>4, <2>5
<1>5. ASSUME NEW o \in 0 .. n - 1 PROVE sp[Ring(0, o)] = Spacing * (n - 1 - o)
  <2>1. o \in 0 .. c - 1 /\ 0 \in 0 .. c - 1 /\ (o <= 0 <=> o = 0) /\ o < n
    BY <1>1
  <2>2. Ring(0, o) \in 0 .. c - 1 /\ Ring(0, o) = (IF o <= 0 THEN 0 - o ELSE 0 - o + c)
    BY <2>1, RingIs
  <2>3. behind[Ring(0, o)] = o
    <3>1. CASE o = 0
      <4>1. Ring(0, o) = 0 /\ c - 0 = c
        BY <1>1, <2>2, <3>1
      <4>2. c % c = 0
        <5>1. c \in Int /\ c <= c /\ c < c + c /\ c - c = 0
          BY <1>1
        <5>2. QED BY ONLY <1>1, <5>1, ModWraps
      <4>3. behind[0] = (c - 0) % c
        BY <2>1
      <4>4. QED BY <3>1, <4>1, <4>2, <4>3
    <3>2. CASE o # 0
      <4>1. Ring(0, o) = c - o /\ c - (c - o) = o /\ c - o \in 0 .. c - 1
        BY <1>1, <2>1, <2>2, <3>2
      <4>2. behind[c - o] = (c - (c - o)) % c
        BY <4>1
      <4>3. o % c = o
        BY <1>1, <2>1, ModWraps
      <4>4. QED BY <4>1, <4>2, <4>3
    <3>3. QED BY <3>1, <3>2
  <2> HIDE DEF behind
  <2>4. sp[Ring(0, o)] = IF behind[Ring(0, o)] < n THEN Spacing * (n - 1 - behind[Ring(0, o)]) ELSE Unwritten
    BY <2>2
  <2>5. QED BY <2>1, <2>3, <2>4
<1>6. sp \in [Slots -> Int]
  BY <1>4 DEF Slots
<1> HIDE DEF sp
<1>7. ASSUME NEW o \in 0 .. n - 1 PROVE sp[Ring(0, o)] \in Nat
  <2>1. n - 1 - o \in Nat
    BY <1>1
  <2>2. QED BY <1>1, <1>5, <2>1, TimesMonotone
<1>8. ASSUME NEW o \in 1 .. n - 1 PROVE sp[Ring(0, o - 1)] - sp[Ring(0, o)] = Spacing
  <2>1. o \in 0 .. n - 1 /\ o - 1 \in 0 .. n - 1 /\ n - 1 - o \in Nat /\ n - 1 - (o - 1) = (n - 1 - o) + 1
    BY <1>1
  <2>2. sp[Ring(0, o - 1)] = Spacing * ((n - 1 - o) + 1) /\ sp[Ring(0, o)] = Spacing * (n - 1 - o)
    BY <1>5, <2>1
  <2>3. QED BY <1>1, <2>1, <2>2, TimesMonotone
<1>9. Path(sp, 0, n, 0)
  <2>1. Spacing \in 1 .. Spacing + Longest /\ Spacing <= Longest /\ Longest \in Nat /\ 0 < Spacing
    BY SimNats, LongestIs
  <2>2. n >= 2 => sp[0] - sp[Ring(0, 1)] = Spacing
    <3>1. n >= 2 => 1 \in 1 .. n - 1 /\ 1 - 1 = 0
      BY <1>1
    <3>2. Ring(0, 0) = 0
      <4>1. 0 \in 0 .. SpineCapacity - 1
        BY SimNats
      <4>2. QED BY <4>1, RingIs
    <3>3. QED BY <1>8, <3>1, <3>2
  <2>3. Longest + 0 = Longest
    BY LongestIs
  <2>4. QED BY <1>7, <1>8, <2>1, <2>2, <2>3 DEF Path
<1>10. s \in SnakeRec
  <2>1. 0 \in Slots /\ 0 \in 0 .. MaxSeq /\ 0 \in 0 .. DrainUnit - 1 /\ StartMass \in Nat \ {0}
    BY SimNats DEF Slots
  <2>2. QED BY <1>1, <1>2, <1>6, <2>1 DEF SnakeRec
<1>11. QED BY <1>2, <1>9, <1>10 DEF SnakeInv, s

(***************************************************************************)
(* Loops.  From b, by steps st that keep the invariant I, there is a run   *)
(* of n steps, and every run keeps the invariant.                          *)
(***************************************************************************)
IsRun(u, b, st, I, n) ==
  /\ u = [k \in 0 .. n |-> u[k]]
  /\ u[0] = b
  /\ \A k \in 1 .. n : u[k] = st[k][u[k - 1]]
  /\ \A k \in 0 .. n : u[k] \in I[k]

LEMMA RunIs ==
  ASSUME NEW n \in Nat, NEW b, NEW I, NEW st, b \in I[0],
         \A k \in 1 .. n : \A d \in I[k - 1] : st[k][d] \in I[k]
  PROVE  \E u : IsRun(u, b, st, I, n)
<1> DEFINE T == {m \in Nat : m <= n => \E u : IsRun(u, b, st, I, m)}
<1>1. 0 \in T
  <2> DEFINE u == [k \in 0 .. 0 |-> b]
  <2>1. u[0] = b /\ \A k \in 0 .. 0 : u[k] = b /\ k = 0
    OBVIOUS
  <2>2. u = [k \in 0 .. 0 |-> u[k]]
    OBVIOUS
  <2> HIDE DEF u
  <2>3. \A k \in 1 .. 0 : FALSE
    OBVIOUS
  <2>4. IsRun(u, b, st, I, 0)
    BY <2>1, <2>2, <2>3 DEF IsRun
  <2>5. QED BY <2>4
<1>2. ASSUME NEW m \in Nat, m + 1 <= n, NEW u, IsRun(u, b, st, I, m) PROVE \E v : IsRun(v, b, st, I, m + 1)
  <2> DEFINE r == st[m + 1][u[m]]
             v == [k \in 0 .. (m + 1) |-> IF k = m + 1 THEN r ELSE u[k]]
  <2>1. /\ \A k \in 0 .. m : k \in 0 .. (m + 1) /\ k # m + 1
        /\ \A k \in 1 .. m : k \in 0 .. m /\ k - 1 \in 0 .. m
        /\ m \in 0 .. m /\ m + 1 \in 0 .. (m + 1) /\ m + 1 \in 1 .. n /\ (m + 1) - 1 = m /\ 0 \in 0 .. m
        /\ \A k \in 0 .. (m + 1) : k = m + 1 \/ k \in 0 .. m
        /\ \A k \in 1 .. (m + 1) : k = m + 1 \/ k \in 1 .. m
    BY <1>2
  <2>2. r \in I[m + 1]
    <3>1. u[m] \in I[m]
      BY <1>2, <2>1 DEF IsRun
    <3>2. QED BY <2>1, <3>1
  <2> HIDE DEF r
  <2>3. v[m + 1] = r /\ \A k \in 0 .. m : v[k] = u[k]
    BY <2>1
  <2>4. v = [k \in 0 .. (m + 1) |-> v[k]]
    OBVIOUS
  <2> HIDE DEF v
  <2>5. \A k \in 1 .. (m + 1) : v[k] = st[k][v[k - 1]]
    <3> SUFFICES ASSUME NEW k \in 1 .. (m + 1) PROVE v[k] = st[k][v[k - 1]]
      OBVIOUS
    <3>1. CASE k = m + 1
      BY <2>1, <2>3, <3>1 DEF r
    <3>2. CASE k \in 1 .. m
      <4>1. u[k] = st[k][u[k - 1]]
        BY <1>2, <3>2 DEF IsRun
      <4>2. QED BY <2>1, <2>3, <3>2, <4>1
    <3>3. QED BY <2>1, <3>1, <3>2
  <2>6. \A k \in 0 .. (m + 1) : v[k] \in I[k]
    BY <1>2, <2>1, <2>2, <2>3 DEF IsRun
  <2>7. v[0] = b
    BY <1>2, <2>1, <2>3 DEF IsRun
  <2>8. QED BY <2>4, <2>5, <2>6, <2>7 DEF IsRun
<1>3. \A m \in Nat : m \in T => m + 1 \in T
  <2> SUFFICES ASSUME NEW m \in Nat, m \in T, m + 1 <= n PROVE \E v : IsRun(v, b, st, I, m + 1)
    OBVIOUS
  <2>1. m <= n
    OBVIOUS
  <2>2. QED BY <1>2, <2>1
<1> HIDE DEF T
<1>4. n \in T
  BY <1>1, <1>3, NatInduct
<1>5. QED BY <1>4 DEF T

LEMMA RunKeeps ==
  ASSUME NEW n \in Nat, NEW I, NEW u, u[0] \in I[0],
         \A k \in 1 .. n : u[k - 1] \in I[k - 1] => u[k] \in I[k]
  PROVE  u[n] \in I[n]
<1> DEFINE T == {m \in Nat : m <= n => u[m] \in I[m]}
<1>1. 0 \in T
  OBVIOUS
<1>2. \A m \in Nat : m \in T => m + 1 \in T
  <2> SUFFICES ASSUME NEW m \in Nat, m \in T, m + 1 <= n PROVE u[m + 1] \in I[m + 1]
    OBVIOUS
  <2>1. m + 1 \in 1 .. n /\ (m + 1) - 1 = m /\ m <= n
    OBVIOUS
  <2>2. QED BY <2>1
<1> HIDE DEF T
<1>3. n \in T
  BY <1>1, <1>2, NatInduct
<1>4. QED BY <1>3 DEF T

LEMMA InputsHeard ==
  ASSUME NEW s, SnakeInv(s), NEW q \in Seq(Command)
  PROVE  SnakeInv(inOrder(applyCommand, s, q)) /\ inOrder(applyCommand, s, q).playerId = s.playerId
<1> DEFINE n == Len(q)
           G == {d \in SnakeRec : SnakeInv(d) /\ d.playerId = s.playerId}
           I == [k \in 0 .. n |-> G]
           st == [k \in 1 .. n |-> [d \in G |-> applyCommand(d, q[k])]]
           upto == CHOOSE upto : upto = [k \in 0 .. n |-> IF k = 0 THEN s ELSE applyCommand(upto[k - 1], q[k])]
<1>1. n \in Nat /\ \A k \in 1 .. n : q[k] \in Command
  OBVIOUS
<1>2. s \in G
  BY DEF SnakeInv
<1>3. ASSUME NEW d \in G, NEW k \in 1 .. n PROVE applyCommand(d, q[k]) \in G
  BY <1>1, <1>3, CommandApplied DEF SnakeInv
<1>0. inOrder(applyCommand, s, q) = upto[n]
  BY DEF inOrder
<1> HIDE DEF n, G, upto
<1>4. \A k \in 1 .. n : k \in 0 .. n /\ k - 1 \in 0 .. n /\ k # 0
  BY <1>1
<1>5. PICK u : IsRun(u, s, st, I, n)
  <2>1. s \in I[0]
    BY <1>1, <1>2
  <2>2. \A k \in 1 .. n : \A d \in I[k - 1] : st[k][d] \in I[k]
    BY <1>3, <1>4
  <2> HIDE DEF I, st
  <2>3. QED BY <1>1, <2>1, <2>2, RunIs
<1>6. u = [k \in 0 .. n |-> IF k = 0 THEN s ELSE applyCommand(u[k - 1], q[k])]
  <2>1. \A k \in 0 .. n : u[k] = IF k = 0 THEN s ELSE applyCommand(u[k - 1], q[k])
    <3> SUFFICES ASSUME NEW k \in 0 .. n PROVE u[k] = IF k = 0 THEN s ELSE applyCommand(u[k - 1], q[k])
      OBVIOUS
    <3>1. CASE k = 0
      BY <1>5, <3>1 DEF IsRun
    <3>2. CASE k # 0
      <4>1. k \in 1 .. n
        BY <3>2
      <4>2. u[k - 1] \in G
        BY <1>4, <1>5, <4>1 DEF IsRun
      <4>3. st[k][u[k - 1]] = applyCommand(u[k - 1], q[k])
        BY <4>1, <4>2
      <4>4. QED BY <1>5, <3>2, <4>1, <4>3 DEF IsRun
    <3>3. QED BY <3>1, <3>2
  <2>2. u = [k \in 0 .. n |-> u[k]]
    BY <1>5 DEF IsRun
  <2>3. [k \in 0 .. n |-> u[k]] = [k \in 0 .. n |-> IF k = 0 THEN s ELSE applyCommand(u[k - 1], q[k])]
    BY <2>1
  <2>4. QED BY <2>2, <2>3
<1>7. upto = [k \in 0 .. n |-> IF k = 0 THEN s ELSE applyCommand(upto[k - 1], q[k])]
  BY <1>6 DEF upto
<1>8. upto[n] \in I[n]
  <2>1. \A k \in 0 .. n : upto[k] = IF k = 0 THEN s ELSE applyCommand(upto[k - 1], q[k])
    BY <1>7
  <2>2. upto[0] \in I[0]
    BY <1>1, <1>2, <2>1
  <2>3. \A k \in 1 .. n : upto[k - 1] \in I[k - 1] => upto[k] \in I[k]
    BY <1>3, <1>4, <2>1
  <2> HIDE DEF I
  <2>4. QED BY <1>1, <2>2, <2>3, RunKeeps
<1>9. upto[n] \in G
  BY <1>1, <1>8
<1>10. QED BY <1>0, <1>9 DEF G

(***************************************************************************)
(* Food.                                                                   *)
(***************************************************************************)
Fields(w) ==
  w = [tick |-> w.tick, snakes |-> w.snakes, food |-> w.food, playerIndex |-> w.playerIndex,
       pendingInputs |-> w.pendingInputs, nextEntityId |-> w.nextEntityId]

Pellet == [mass : Nat, expires : Nat \cup {Never}]
Natural(food) == {f \in DOMAIN food : food[f].expires = Never}

(* The food of a world at tick t, its ids below next.                      *)
FoodIs(food, next, t) ==
  /\ next \in Nat /\ next >= 1
  /\ DOMAIN food \subseteq 1 .. next - 1 /\ food \in [DOMAIN food -> Pellet]
  /\ Cardinality(Natural(food)) <= TargetFood
  /\ \A f \in DOMAIN food :
       food[f].expires # Never => t <= food[f].expires + ((t - 1) % SweepEvery)

FoodInv(w) == FoodIs(w.food, w.nextEntityId, w.tick)

LEMMA Below ==
  ASSUME NEW n \in Nat
  PROVE  IsFiniteSet(1 .. n - 1)
<1>1. 1 \in Int /\ n - 1 \in Int
  OBVIOUS
<1>2. QED BY <1>1, FS_Interval

LEMMA FoodFinite ==
  ASSUME NEW food, NEW next, NEW t, FoodIs(food, next, t)
  PROVE  /\ IsFiniteSet(DOMAIN food) /\ IsFiniteSet(Natural(food))
         /\ Cardinality(DOMAIN food) \in Nat /\ Cardinality(Natural(food)) \in Nat
         /\ Cardinality(Natural(food)) <= Cardinality(DOMAIN food)
<1>1. IsFiniteSet(DOMAIN food)
  BY Below, FS_Subset DEF FoodIs
<1>2. Natural(food) \subseteq DOMAIN food
  BY DEF Natural
<1>3. QED BY <1>1, <1>2, FS_Subset, FS_CardinalityType

(* Pieces are added, with the ids that come next.                          *)
LEMMA FoodSpawned ==
  ASSUME NEW w, Fields(w), NEW n \in Nat, NEW mass \in Nat, NEW e, FoodInv(w), w.tick \in Nat,
         \/ e = Never /\ Cardinality(Natural(w.food)) + n <= TargetFood
         \/ e \in Nat /\ w.tick <= e
  PROVE  LET v == spawnFood(w, n, mass, e)
         IN  /\ Fields(v) /\ FoodInv(v)
             /\ v.tick = w.tick /\ v.snakes = w.snakes /\ v.playerIndex = w.playerIndex
             /\ v.pendingInputs = w.pendingInputs
             /\ v.nextEntityId \in Nat /\ v.nextEntityId >= w.nextEntityId
<1> DEFINE k == w.nextEntityId
           old == w.food
           ids == k .. k + n - 1
           food == [f \in DOMAIN old \cup ids |-> IF f \in ids THEN [mass |-> mass, expires |-> e] ELSE old[f]]
           v == spawnFood(w, n, mass, e)
<1>1. v = [w EXCEPT !.food = food, !.nextEntityId = k + n]
  BY DEF spawnFood, Fields
<1>2. /\ k \in Nat /\ k >= 1 /\ DOMAIN old \subseteq 1 .. k - 1 /\ old \in [DOMAIN old -> Pellet]
      /\ Cardinality(Natural(old)) <= TargetFood
      /\ \A f \in DOMAIN old : old[f].expires # Never => w.tick <= old[f].expires + ((w.tick - 1) % SweepEvery)
  BY DEF FoodInv, FoodIs
<1>3. ids \subseteq 1 .. (k + n) - 1 /\ (\A f \in DOMAIN old : f \notin ids /\ f \in 1 .. (k + n) - 1)
      /\ k + n \in Nat /\ k + n >= 1 /\ k + n >= k
  BY <1>2
<1>4. /\ Fields(v) /\ v.food = food /\ v.nextEntityId = k + n
      /\ v.tick = w.tick /\ v.snakes = w.snakes /\ v.playerIndex = w.playerIndex
      /\ v.pendingInputs = w.pendingInputs
  <2> HIDE DEF food, v, k
  <2>1. v = [tick |-> w.tick, snakes |-> w.snakes, food |-> food, playerIndex |-> w.playerIndex,
             pendingInputs |-> w.pendingInputs, nextEntityId |-> k + n]
    BY <1>1 DEF Fields
  <2>2. QED BY <2>1 DEF Fields
<1>5. e \in Nat \cup {Never}
  OBVIOUS
<1>6. food \in [DOMAIN food -> Pellet] /\ DOMAIN food = DOMAIN old \cup ids
  <2>1. [mass |-> mass, expires |-> e] \in Pellet
    BY <1>5 DEF Pellet
  <2> HIDE DEF ids, old
  <2>2. \A f \in DOMAIN old \cup ids : food[f] \in Pellet
    BY <1>2, <2>1
  <2>3. QED BY <2>2
<1>7. (\A f \in DOMAIN old : food[f] = old[f]) /\ (\A f \in ids : food[f].expires = e)
  BY <1>3
<1> HIDE DEF food
<1>8. Cardinality(Natural(food)) <= TargetFood
  <2>1. CASE e = Never
    <3>1. Natural(food) = Natural(old) \cup ids
      BY <1>3, <1>6, <1>7, <2>1 DEF Natural
    <3>2. IsFiniteSet(ids) /\ Cardinality(ids) = n
      <4>1. k \in Int /\ k + n - 1 \in Int
        BY <1>2
      <4>2. IsFiniteSet(ids) /\ Cardinality(ids) = IF k > k + n - 1 THEN 0 ELSE (k + n - 1) - k + 1
        BY ONLY <4>1, FS_Interval
      <4>3. (IF k > k + n - 1 THEN 0 ELSE (k + n - 1) - k + 1) = n
        BY ONLY <1>2, n \in Nat
      <4>4. QED BY <4>2, <4>3
    <3>3. IsFiniteSet(Natural(old)) /\ Cardinality(Natural(old)) \in Nat
      BY FoodFinite DEF FoodInv
    <3>4. Natural(old) \cap ids = {}
      BY <1>3 DEF Natural
    <3>5. Cardinality(Natural(food)) = Cardinality(Natural(old)) + n
      <4>1. Cardinality(Natural(old) \cup ids)
              = Cardinality(Natural(old)) + Cardinality(ids) - Cardinality(Natural(old) \cap ids)
        BY <3>2, <3>3, FS_Union
      <4>2. Cardinality(Natural(old) \cap ids) = 0
        BY <3>4, FS_EmptySet
      <4> DEFINE c == Cardinality(Natural(old))
      <4> HIDE DEF c
      <4>3. Cardinality(Natural(food)) = c + n - 0 /\ c \in Nat
        BY <3>1, <3>2, <3>3, <4>1, <4>2 DEF c
      <4>4. QED BY <4>3 DEF c
    <3>6. Never \notin Nat
      BY DEF Never
    <3>7. QED BY <2>1, <3>5, <3>6
  <2>2. CASE e \in Nat
    <3>1. e # Never
      BY <2>2 DEF Never
    <3>2. Natural(food) = Natural(old)
      BY <1>3, <1>6, <1>7, <3>1 DEF Natural
    <3>3. QED BY <1>2, <3>2
  <2>3. QED BY <2>1, <2>2
<1>9. ASSUME NEW f \in DOMAIN food, food[f].expires # Never
      PROVE  w.tick <= food[f].expires + ((w.tick - 1) % SweepEvery)
  <2>1. CASE f \in DOMAIN old
    BY <1>2, <1>7, <1>9, <2>1
  <2>2. CASE f \in ids
    <3>1. food[f].expires = e /\ e \in Nat /\ w.tick <= e
      BY <1>7, <1>9, <2>2
    <3>2. (w.tick - 1) % SweepEvery \in Nat
      <4>1. (w.tick - 1) % SweepEvery \in 0 .. SweepEvery - 1
        BY SimNats, ModSucc
      <4>2. QED BY <4>1, SimNats
    <3> DEFINE x == (w.tick - 1) % SweepEvery
    <3> HIDE DEF x
    <3>3. x \in Nat
      BY <3>2 DEF x
    <3>4. w.tick <= e + x
      BY <3>1, <3>3
    <3>5. QED BY <3>1, <3>4 DEF x
  <2>3. QED BY <1>6, <2>1, <2>2
<1>10. FoodIs(food, k + n, w.tick)
  BY <1>3, <1>6, <1>8, <1>9 DEF FoodIs
<1>11. FoodInv(v) /\ v.nextEntityId \in Nat /\ v.nextEntityId >= w.nextEntityId
  BY <1>3, <1>4, <1>10 DEF FoodInv
<1>12. QED BY <1>4, <1>11 DEF v

(* v is w but for its food and its ids.                                    *)
OnlyFood(w, v) ==
  /\ Fields(v) /\ FoodInv(v)
  /\ v.tick = w.tick /\ v.snakes = w.snakes /\ v.playerIndex = w.playerIndex
  /\ v.pendingInputs = w.pendingInputs
  /\ v.nextEntityId \in Nat /\ v.nextEntityId >= w.nextEntityId

LEMMA DivIs ==
  ASSUME NEW a \in Nat, NEW b \in Nat, b >= 1
  PROVE  a \div b \in Nat
<1>1. a \div b \in Int /\ a = b * (a \div b) + (a % b) /\ a % b \in 0 .. b - 1
  OBVIOUS
<1> DEFINE q == a \div b
<1> HIDE DEF q
<1>2. q \in Int /\ a = b * q + (a % b) /\ a % b \in 0 .. b - 1
  BY <1>1 DEF q
<1>3. CASE q <= -1
  <2>1. -q \in Int /\ -q >= 1
    BY <1>2, <1>3
  <2>2. b * (-q) >= b
    BY <2>1, TimesLarge
  <2>3. b * (-q) = -(b * q)
    BY <1>2
  <2>4. b * q \in Int
    BY <1>2
  <2>5. QED BY <1>2, <2>2, <2>3, <2>4
<1>4. QED BY <1>2, <1>3 DEF q

LEMMA MassScattered ==
  ASSUME NEW w, Fields(w), FoodInv(w), w.tick \in Nat, NEW s, SnakeInv(s)
  PROVE  OnlyFood(w, scatterMass(w, s))
<1> DEFINE total == (s.mass * 6) \div 10
           most == Max({MinDrops, total \div DropMass})
           drops == Min({MaxDrops, most})
<1>1. s.mass * 6 \in Nat
  BY SnakeIs DEF SnakeInv
<1>2. total \in Nat
  BY <1>1, DivIs
<1> HIDE DEF total
<1>3. total \div DropMass \in Nat
  BY <1>2, SimNats, DivIs
<1>4. most \in Nat /\ most >= 1
  BY <1>3, SimNats, MaxOfTwo
<1> HIDE DEF most
<1>5. drops \in Nat /\ drops >= 1
  BY <1>4, SimNats, MinOfTwo
<1>6. total \div drops \in Nat
  BY <1>2, <1>5, DivIs
<1>7. w.tick + FoodLife \in Nat /\ w.tick <= w.tick + FoodLife
  BY SimNats
<1>8. scatterMass(w, s) = spawnFood(w, drops, total \div drops, w.tick + FoodLife)
  BY DEF scatterMass, most, total
<1> HIDE DEF drops
<1>9. QED BY <1>5, <1>6, <1>7, <1>8, FoodSpawned DEF OnlyFood

LEMMA FoodMaintained ==
  ASSUME NEW w, Fields(w), FoodInv(w), w.tick \in Nat
  PROVE  OnlyFood(w, maintainFood(w))
<1> DEFINE c == Cardinality(DOMAIN w.food)
           l == Cardinality(Natural(w.food))
           most == Max({0, TargetFood - c})
           n == Min({FoodBudget, most})
<1>1. c \in Nat /\ l \in Nat /\ l <= c /\ l <= TargetFood
  BY FoodFinite DEF FoodInv, FoodIs
<1>2. maintainFood(w) = spawnFood(w, n, 1, Never)
  BY DEF maintainFood
<1> HIDE DEF c, l
<1>3. most = IF 0 >= TargetFood - c THEN 0 ELSE TargetFood - c
  <2>1. 0 \in Int /\ TargetFood - c \in Int
    BY <1>1, SimNats
  <2>2. QED BY ONLY <2>1, MaxOfTwo
<1>4. most \in Nat /\ l + most <= TargetFood
  <2> HIDE DEF most
  <2>1. QED BY ONLY <1>1, <1>3, SimNats
<1> HIDE DEF most
<1>5. n \in Nat /\ n <= most
  BY <1>4, SimNats, MinOfTwo
<1> HIDE DEF n
<1>6. l + n <= TargetFood
  BY ONLY <1>1, <1>4, <1>5, SimNats
<1>7. n \in Nat /\ Cardinality(Natural(w.food)) + n <= TargetFood /\ 1 \in Nat
  BY <1>5, <1>6 DEF l
<1>8. QED BY <1>2, <1>7, FoodSpawned DEF OnlyFood

(* Food is eaten or expires: what is left is restricted to S.              *)
LEMMA FoodLess ==
  ASSUME NEW food, NEW next, NEW t, FoodIs(food, next, t), NEW S, S \subseteq DOMAIN food
  PROVE  FoodIs(Restrict(food, S), next, t) /\ DOMAIN Restrict(food, S) = S
         /\ \A f \in S : Restrict(food, S)[f] = food[f]
<1> DEFINE less == Restrict(food, S)
<1>1. less = [f \in S |-> food[f]]
  BY DEF Restrict
<1> HIDE DEF less
<1>2. DOMAIN less = S /\ \A f \in S : less[f] = food[f]
  BY <1>1
<1>3. less \in [S -> Pellet]
  BY <1>1 DEF FoodIs
<1>4. Natural(less) \subseteq Natural(food)
  BY <1>2 DEF Natural
<1>5. Cardinality(Natural(less)) <= TargetFood
  <2>1. IsFiniteSet(Natural(food)) /\ Cardinality(Natural(food)) \in Nat
    BY FoodFinite
  <2>2. Cardinality(Natural(less)) <= Cardinality(Natural(food)) /\ Cardinality(Natural(less)) \in Nat
    BY <1>4, <2>1, FS_Subset, FS_CardinalityType
  <2>3. Cardinality(Natural(food)) <= TargetFood
    BY DEF FoodIs
  <2>4. QED BY <2>1, <2>2, <2>3, SimNats
<1>6. FoodIs(less, next, t)
  BY <1>2, <1>3, <1>5 DEF FoodIs
<1>7. QED BY <1>2, <1>6 DEF less

LEMMA FoodExpired ==
  ASSUME NEW w, Fields(w), FoodInv(w), w.tick \in Nat
  PROVE  LET v == [expireFood(w) EXCEPT !.tick = @ + 1]
         IN  /\ Fields(v) /\ FoodInv(v) /\ v.tick = w.tick + 1 /\ v.snakes = w.snakes
             /\ v.playerIndex = w.playerIndex /\ v.pendingInputs = w.pendingInputs
             /\ v.nextEntityId = w.nextEntityId
<1> DEFINE t == w.tick
           S == {f \in DOMAIN w.food : ~isExpired(w, f)}
           food == IF t % SweepEvery # 0 THEN w.food ELSE Restrict(w.food, S)
           v == [expireFood(w) EXCEPT !.tick = @ + 1]
<1>1. expireFood(w) = [w EXCEPT !.food = food]
  BY DEF expireFood, Fields
<1> HIDE DEF food
<1>2. v = [tick |-> t + 1, snakes |-> w.snakes, food |-> food, playerIndex |-> w.playerIndex,
           pendingInputs |-> w.pendingInputs, nextEntityId |-> w.nextEntityId]
  <2>1. expireFood(w) = [tick |-> t, snakes |-> w.snakes, food |-> food, playerIndex |-> w.playerIndex,
                         pendingInputs |-> w.pendingInputs, nextEntityId |-> w.nextEntityId]
    BY <1>1 DEF Fields
  <2>2. QED BY <2>1
<1> HIDE DEF v
<1>3. /\ Fields(v) /\ v.tick = t + 1 /\ v.snakes = w.snakes /\ v.playerIndex = w.playerIndex
      /\ v.pendingInputs = w.pendingInputs /\ v.nextEntityId = w.nextEntityId /\ v.food = food
  BY <1>2 DEF Fields
<1>4. FoodIs(w.food, w.nextEntityId, t)
  BY DEF FoodInv
<1>5. FoodIs(food, w.nextEntityId, t) /\ \A f \in DOMAIN food :
        food[f].expires # Never => t % SweepEvery # 0 \/ t < food[f].expires
  <2>1. CASE t % SweepEvery # 0
    BY <1>4, <2>1 DEF food
  <2>2. CASE t % SweepEvery = 0
    <3>1. food = Restrict(w.food, S)
      BY <2>2 DEF food
    <3>2. S \subseteq DOMAIN w.food
      OBVIOUS
    <3>3. FoodIs(food, w.nextEntityId, t) /\ DOMAIN food = S /\ \A f \in S : food[f] = w.food[f]
      BY <1>4, <3>1, <3>2, FoodLess
    <3>4. \A f \in DOMAIN w.food : w.food[f].expires \in Nat \cup {Never}
      BY <1>4 DEF FoodIs, Pellet
    <3>5. ASSUME NEW f \in DOMAIN food, food[f].expires # Never PROVE t < food[f].expires
      <4>1. f \in S /\ food[f] = w.food[f] /\ w.food[f].expires # Never /\ w.food[f].expires \in Nat
        BY <3>3, <3>4, <3>5
      <4>2. ~(t >= w.food[f].expires)
        BY <4>1 DEF isExpired
      <4>3. t < w.food[f].expires
        BY <4>1, <4>2
      <4>4. QED BY <4>1, <4>3
    <3>6. QED BY <3>3, <3>5
  <2>3. QED BY <2>1, <2>2
<1> DEFINE x == (t - 1) % SweepEvery
           y == t % SweepEvery
<1>6. x \in Nat /\ y \in Nat /\ (y # 0 => y = x + 1) /\ (t + 1) - 1 = t
  <2>1. x \in 0 .. SweepEvery - 1 /\ y \in 0 .. SweepEvery - 1 /\ (y # 0 => y = x + 1)
    <3>1. SweepEvery \in Nat /\ SweepEvery > 0 /\ w.tick \in Nat
      BY SimNats
    <3>2. QED BY ONLY <3>1, ModSucc
  <2>2. QED BY <2>1, SimNats
<1>7. ASSUME NEW f \in DOMAIN food, food[f].expires # Never
      PROVE  t + 1 <= food[f].expires + (((t + 1) - 1) % SweepEvery)
  <2>1. food[f].expires \in Nat
    BY <1>5, <1>7 DEF FoodIs, Pellet
  <2>2. t <= food[f].expires + x /\ (y # 0 \/ t < food[f].expires)
    BY <1>5, <1>7 DEF FoodIs
  <2> DEFINE e == food[f].expires
  <2> HIDE DEF e, x, y
  <2>3. t + 1 <= e + y
    BY <1>6, <2>1, <2>2 DEF e
  <2>4. QED BY <1>6, <2>3 DEF e, y
<1>8. FoodIs(food, w.nextEntityId, t + 1)
  BY <1>5, <1>7 DEF FoodIs
<1>9. FoodInv(v)
  BY <1>3, <1>8 DEF FoodInv
<1>10. QED BY <1>3, <1>9 DEF v

SnakesInv(w) ==
  /\ w.snakes = [id \in DOMAIN w.snakes |-> w.snakes[id]]
  /\ \A id \in DOMAIN w.snakes :
       id \in Nat /\ 1 <= id /\ id < w.nextEntityId /\ SnakeInv(w.snakes[id])

(* Each player has one snake, and inputs wait only for snakes.             *)
SeatsInv(w) ==
  /\ DOMAIN w.playerIndex \subseteq Owners
  /\ \A p \in DOMAIN w.playerIndex :
       w.playerIndex[p] \in DOMAIN w.snakes /\ w.snakes[w.playerIndex[p]].playerId = p
  /\ \A id \in DOMAIN w.snakes :
       w.snakes[id].playerId \in DOMAIN w.playerIndex /\ w.playerIndex[w.snakes[id].playerId] = id
  /\ DOMAIN w.pendingInputs \subseteq DOMAIN w.snakes
  /\ \A id \in DOMAIN w.pendingInputs : w.pendingInputs[id] \in Seq(Command)

WorldInv(w) ==
  Fields(w) /\ w.tick \in 0 .. MaxTick /\ FoodInv(w) /\ SnakesInv(w) /\ SeatsInv(w)

LEMMA WorldIs ==
  ASSUME NEW w, WorldInv(w)
  PROVE  w.tick \in Nat /\ w.nextEntityId \in Nat /\ w.nextEntityId >= 1
BY SimNats DEF WorldInv, FoodInv, FoodIs

LEMMA FoodChanged ==
  ASSUME NEW w, WorldInv(w), NEW v, OnlyFood(w, v)
  PROVE  WorldInv(v)
<1>1. v.nextEntityId \in Nat /\ w.nextEntityId \in Nat /\ v.nextEntityId >= w.nextEntityId
  BY WorldIs DEF OnlyFood
<1>2. \A id \in Nat : id < w.nextEntityId => id < v.nextEntityId
  BY ONLY <1>1
<1>3. SnakesInv(v)
  BY <1>2 DEF WorldInv, SnakesInv, OnlyFood
<1>4. SeatsInv(v)
  BY DEF WorldInv, SeatsInv, OnlyFood
<1>5. QED BY <1>3, <1>4 DEF WorldInv, OnlyFood

LEMMA FoodLater ==
  ASSUME NEW food, NEW n, NEW t, FoodIs(food, n, t), NEW m \in Nat, m >= n
  PROVE  FoodIs(food, m, t)
<1>1. n \in Nat /\ n >= 1
  BY DEF FoodIs
<1>2. 1 .. n - 1 \subseteq 1 .. m - 1 /\ m >= 1
  BY <1>1
<1>3. QED BY <1>2 DEF FoodIs

LEMMA SnakeSpawned ==
  ASSUME NEW w, WorldInv(w), NEW p \in Owners
  PROVE  WorldInv(spawnSnake(w, p))
<1> DEFINE k == w.nextEntityId
           snakes == put(w.snakes, k, newSnake(p))
           index == put(w.playerIndex, p, k)
           v == spawnSnake(w, p)
<1>1. k \in Nat /\ k >= 1
  BY WorldIs
<1>2. CASE p \in DOMAIN w.playerIndex
  <2>1. w.playerIndex[p] \in DOMAIN w.snakes
    BY <1>2 DEF WorldInv, SeatsInv
  <2>2. v = w
    BY <1>2, <2>1 DEF spawnSnake
  <2>3. QED BY <2>2
<1>3. CASE p \notin DOMAIN w.playerIndex
  <2>1. v = [w EXCEPT !.snakes = snakes, !.playerIndex = index, !.nextEntityId = k + 1]
    <3>1. v = [w EXCEPT !.snakes = put(@, w.nextEntityId, newSnake(p)),
                        !.playerIndex = put(@, p, w.nextEntityId), !.nextEntityId = @ + 1]
      BY <1>3 DEF spawnSnake
    <3>2. QED BY <3>1 DEF WorldInv, Fields
  <2>2. snakes = [id \in DOMAIN w.snakes \cup {k} |-> IF id = k THEN newSnake(p) ELSE w.snakes[id]]
    BY DEF put
  <2>3. index = [q \in DOMAIN w.playerIndex \cup {p} |-> IF q = p THEN k ELSE w.playerIndex[q]]
    BY DEF put
  <2> HIDE DEF snakes, index, k, v
  <2>4. /\ Fields(v) /\ v.tick = w.tick /\ v.snakes = snakes /\ v.food = w.food /\ v.playerIndex = index
        /\ v.pendingInputs = w.pendingInputs /\ v.nextEntityId = k + 1
    <3>1. v = [tick |-> w.tick, snakes |-> snakes, food |-> w.food, playerIndex |-> index,
               pendingInputs |-> w.pendingInputs, nextEntityId |-> k + 1]
      BY <2>1 DEF WorldInv, Fields
    <3>2. QED BY <3>1 DEF Fields
  <2>5. \A id \in DOMAIN w.snakes : id \in Nat /\ 1 <= id /\ id < k /\ id # k /\ SnakeInv(w.snakes[id])
    BY <1>1 DEF WorldInv, SnakesInv, k
  <2>6. SnakeInv(newSnake(p)) /\ newSnake(p).playerId = p
    BY NewSnakeIs
  <2>7. SnakesInv(v)
    <3>1. \A id \in DOMAIN snakes : (id = k \/ id \in DOMAIN w.snakes) /\ SnakeInv(snakes[id])
      BY <2>2, <2>5, <2>6
    <3>2. k < k + 1 /\ \A id \in Nat : id < k => id < k + 1
      BY <1>1
    <3>3. snakes = [id \in DOMAIN snakes |-> snakes[id]]
      BY <2>2
    <3>4. QED BY <1>1, <2>4, <2>5, <3>1, <3>2, <3>3 DEF SnakesInv, k
  <2>8. SeatsInv(v)
    <3>1. /\ DOMAIN w.playerIndex \subseteq Owners
          /\ \A q \in DOMAIN w.playerIndex :
               w.playerIndex[q] \in DOMAIN w.snakes /\ w.snakes[w.playerIndex[q]].playerId = q
          /\ \A id \in DOMAIN w.snakes :
               w.snakes[id].playerId \in DOMAIN w.playerIndex /\ w.playerIndex[w.snakes[id].playerId] = id
          /\ DOMAIN w.pendingInputs \subseteq DOMAIN w.snakes
          /\ \A id \in DOMAIN w.pendingInputs : w.pendingInputs[id] \in Seq(Command)
      BY DEF WorldInv, SeatsInv
    <3>2. DOMAIN index = DOMAIN w.playerIndex \cup {p} /\ DOMAIN snakes = DOMAIN w.snakes \cup {k}
      BY <2>2, <2>3
    <3>3. index[p] = k /\ snakes[k] = newSnake(p) /\ \A q \in DOMAIN w.playerIndex : index[q] = w.playerIndex[q]
      BY <1>3, <2>2, <2>3
    <3>4. \A id \in DOMAIN w.snakes : snakes[id] = w.snakes[id]
      BY <2>2, <2>5
    <3>5. \A q \in DOMAIN index : index[q] \in DOMAIN snakes /\ snakes[index[q]].playerId = q
      BY <2>6, <3>1, <3>2, <3>3, <3>4
    <3>6. \A id \in DOMAIN snakes : snakes[id].playerId \in DOMAIN index /\ index[snakes[id].playerId] = id
      BY <2>6, <3>1, <3>2, <3>3, <3>4
    <3>7. QED BY <2>4, <3>1, <3>2, <3>5, <3>6 DEF SeatsInv
  <2>9. FoodInv(v)
    <3>1. k + 1 \in Nat /\ k + 1 >= k
      BY <1>1
    <3>2. QED BY <2>4, <3>1, FoodLater DEF WorldInv, FoodInv, k
  <2>10. WorldInv(v)
    BY <2>4, <2>7, <2>8, <2>9 DEF WorldInv
  <2>11. QED BY <2>10 DEF v
<1>4. QED BY <1>2, <1>3

LEMMA Forgotten ==
  ASSUME NEW w, WorldInv(w), NEW p \in DOMAIN w.playerIndex
  PROVE  WorldInv(forget(w, w.playerIndex[p], p))
<1> DEFINE k == w.playerIndex[p]
           snakes == without(w.snakes, k)
           index == without(w.playerIndex, p)
           pending == without(w.pendingInputs, k)
           v == forget(w, k, p)
<1>1. /\ snakes = [id \in DOMAIN w.snakes \ {k} |-> w.snakes[id]]
      /\ index = [q \in DOMAIN w.playerIndex \ {p} |-> w.playerIndex[q]]
      /\ pending = [id \in DOMAIN w.pendingInputs \ {k} |-> w.pendingInputs[id]]
  BY DEF without, Restrict
<1>2. v = [w EXCEPT !.snakes = snakes, !.playerIndex = index, !.pendingInputs = pending]
  BY DEF forget, WorldInv, Fields
<1> HIDE DEF snakes, index, pending, v
<1>3. /\ Fields(v) /\ v.tick = w.tick /\ v.snakes = snakes /\ v.food = w.food /\ v.playerIndex = index
      /\ v.pendingInputs = pending /\ v.nextEntityId = w.nextEntityId
  <2>1. v = [tick |-> w.tick, snakes |-> snakes, food |-> w.food, playerIndex |-> index,
             pendingInputs |-> pending, nextEntityId |-> w.nextEntityId]
    BY <1>2 DEF WorldInv, Fields
  <2>2. QED BY <2>1 DEF Fields
<1>4. /\ DOMAIN snakes = DOMAIN w.snakes \ {k} /\ DOMAIN index = DOMAIN w.playerIndex \ {p}
      /\ DOMAIN pending = DOMAIN w.pendingInputs \ {k}
      /\ (\A id \in DOMAIN snakes : snakes[id] = w.snakes[id])
      /\ (\A q \in DOMAIN index : index[q] = w.playerIndex[q])
      /\ (\A id \in DOMAIN pending : pending[id] = w.pendingInputs[id])
  BY <1>1
<1>5. /\ DOMAIN w.playerIndex \subseteq Owners
      /\ \A q \in DOMAIN w.playerIndex :
           w.playerIndex[q] \in DOMAIN w.snakes /\ w.snakes[w.playerIndex[q]].playerId = q
      /\ \A id \in DOMAIN w.snakes :
           w.snakes[id].playerId \in DOMAIN w.playerIndex /\ w.playerIndex[w.snakes[id].playerId] = id
      /\ DOMAIN w.pendingInputs \subseteq DOMAIN w.snakes
      /\ \A id \in DOMAIN w.pendingInputs : w.pendingInputs[id] \in Seq(Command)
  BY DEF WorldInv, SeatsInv
<1>6. \A q \in DOMAIN index : index[q] \in DOMAIN snakes /\ snakes[index[q]].playerId = q
  BY <1>4, <1>5
<1>7. \A id \in DOMAIN snakes : snakes[id].playerId \in DOMAIN index /\ index[snakes[id].playerId] = id
  BY <1>4, <1>5
<1>8. SeatsInv(v)
  BY <1>3, <1>4, <1>5, <1>6, <1>7 DEF SeatsInv
<1>9. SnakesInv(v)
  <2>1. snakes = [id \in DOMAIN snakes |-> snakes[id]]
    BY <1>1
  <2>2. QED BY <1>3, <1>4, <2>1 DEF WorldInv, SnakesInv
<1>10. WorldInv(v)
  BY <1>3, <1>8, <1>9 DEF WorldInv, FoodInv
<1>11. QED BY <1>10 DEF v

LEMMA SnakeDespawned ==
  ASSUME NEW w, WorldInv(w), NEW p \in Owners, NEW scatter \in BOOLEAN
  PROVE  WorldInv(despawnSnake(w, p, scatter))
<1>1. CASE p \notin DOMAIN w.playerIndex
  BY <1>1 DEF despawnSnake
<1>2. CASE p \in DOMAIN w.playerIndex
  <2> DEFINE k == w.playerIndex[p]
             v == IF scatter /\ k \in DOMAIN w.snakes THEN scatterMass(w, w.snakes[k]) ELSE w
  <2>1. despawnSnake(w, p, scatter) = forget(v, k, p)
    BY <1>2 DEF despawnSnake
  <2>2. WorldInv(v) /\ v.playerIndex = w.playerIndex
    <3>1. CASE scatter /\ k \in DOMAIN w.snakes
      <4>1. SnakeInv(w.snakes[k]) /\ Fields(w) /\ FoodInv(w) /\ w.tick \in Nat
        BY <3>1, WorldIs DEF WorldInv, SnakesInv
      <4>2. OnlyFood(w, scatterMass(w, w.snakes[k]))
        BY <4>1, MassScattered
      <4> DEFINE u == scatterMass(w, w.snakes[k])
      <4> HIDE DEF u
      <4>3. WorldInv(u) /\ u.playerIndex = w.playerIndex
        BY <4>2, FoodChanged DEF u, OnlyFood
      <4>4. v = u
        BY <3>1 DEF u
      <4>5. QED BY <4>3, <4>4
    <3>2. QED BY <3>1
  <2> HIDE DEF v
  <2>3. p \in DOMAIN v.playerIndex /\ k = v.playerIndex[p]
    BY <1>2, <2>2
  <2> HIDE DEF k
  <2>4. QED BY <2>1, <2>2, <2>3, Forgotten
<1>3. QED BY <1>1, <1>2

LEMMA InputEnqueued ==
  ASSUME NEW w, WorldInv(w), NEW p \in Owners, NEW command \in Command
  PROVE  WorldInv(enqueueInput(w, p, command))
<1>1. CASE p \notin DOMAIN w.playerIndex
  BY <1>1 DEF enqueueInput
<1>2. CASE p \in DOMAIN w.playerIndex
  <2> DEFINE k == w.playerIndex[p]
             queue == IF k \in DOMAIN w.pendingInputs THEN w.pendingInputs[k] ELSE <<>>
             more == Append(queue, command)
             pending == put(w.pendingInputs, k, more)
             v == enqueueInput(w, p, command)
  <2>1. v = [w EXCEPT !.pendingInputs = pending]
    BY <1>2 DEF enqueueInput, WorldInv, Fields
  <2>2. queue \in Seq(Command)
    BY DEF WorldInv, SeatsInv
  <2> HIDE DEF queue
  <2>3. more \in Seq(Command)
    BY <2>2
  <2> HIDE DEF more
  <2>4. pending = [id \in DOMAIN w.pendingInputs \cup {k} |-> IF id = k THEN more ELSE w.pendingInputs[id]]
    BY DEF put
  <2> HIDE DEF pending, v
  <2>5. /\ Fields(v) /\ v.tick = w.tick /\ v.snakes = w.snakes /\ v.food = w.food /\ v.playerIndex = w.playerIndex
        /\ v.pendingInputs = pending /\ v.nextEntityId = w.nextEntityId
    <3>1. v = [tick |-> w.tick, snakes |-> w.snakes, food |-> w.food, playerIndex |-> w.playerIndex,
               pendingInputs |-> pending, nextEntityId |-> w.nextEntityId]
      BY <2>1 DEF WorldInv, Fields
    <3>2. QED BY <3>1 DEF Fields
  <2>6. SeatsInv(v)
    BY <1>2, <2>3, <2>4, <2>5 DEF WorldInv, SeatsInv
  <2>7. WorldInv(v)
    BY <2>5, <2>6 DEF WorldInv, FoodInv, SnakesInv
  <2>8. QED BY <2>7 DEF v
<1>3. QED BY <1>1, <1>2

(* v is w but for its snakes, which stay the players', its inputs and its  *)
(* food.                                                                   *)
Moved(w, v) ==
  /\ Fields(v) /\ FoodInv(v)
  /\ v.tick = w.tick /\ v.playerIndex = w.playerIndex /\ v.nextEntityId = w.nextEntityId
  /\ DOMAIN v.snakes = DOMAIN w.snakes /\ v.snakes = [id \in DOMAIN w.snakes |-> v.snakes[id]]
  /\ \A id \in DOMAIN w.snakes : SnakeInv(v.snakes[id]) /\ v.snakes[id].playerId = w.snakes[id].playerId
  /\ DOMAIN v.pendingInputs = DOMAIN w.pendingInputs
  /\ \A id \in DOMAIN w.pendingInputs : v.pendingInputs[id] \in Seq(Command)

LEMMA SnakesMoved ==
  ASSUME NEW w, WorldInv(w), NEW v, Moved(w, v)
  PROVE  WorldInv(v)
<1>1. SnakesInv(v)
  BY DEF Moved, WorldInv, SnakesInv
<1>2. SeatsInv(v)
  <2>1. /\ DOMAIN v.snakes = DOMAIN w.snakes /\ v.playerIndex = w.playerIndex
        /\ DOMAIN v.pendingInputs = DOMAIN w.pendingInputs
        /\ (\A id \in DOMAIN w.snakes : v.snakes[id].playerId = w.snakes[id].playerId)
        /\ (\A id \in DOMAIN w.pendingInputs : v.pendingInputs[id] \in Seq(Command))
    BY DEF Moved
  <2>2. SeatsInv(w)
    BY DEF WorldInv
  <2>3. QED BY <2>1, <2>2 DEF SeatsInv
<1>3. QED BY <1>1, <1>2 DEF Moved, WorldInv

LEMMA InputsApplied ==
  ASSUME NEW w, WorldInv(w)
  PROVE  Moved(w, applyInputs(w))
<1> DEFINE heard(id) == id \in DOMAIN w.pendingInputs /\ w.snakes[id].alive
           snakes == [id \in DOMAIN w.snakes |->
                        IF heard(id) THEN inOrder(applyCommand, w.snakes[id], w.pendingInputs[id])
                        ELSE w.snakes[id]]
           pending == [id \in DOMAIN w.pendingInputs |-> <<>>]
           v == applyInputs(w)
<1>1. v = [w EXCEPT !.snakes = snakes, !.pendingInputs = pending]
  BY DEF applyInputs, WorldInv, Fields
<1>2. ASSUME NEW id \in DOMAIN w.snakes
      PROVE  SnakeInv(snakes[id]) /\ snakes[id].playerId = w.snakes[id].playerId
  <2>1. SnakeInv(w.snakes[id])
    BY DEF WorldInv, SnakesInv
  <2>2. CASE heard(id)
    <3>1. w.pendingInputs[id] \in Seq(Command)
      BY <2>2 DEF WorldInv, SeatsInv
    <3>2. snakes[id] = inOrder(applyCommand, w.snakes[id], w.pendingInputs[id])
      BY <2>2
    <3> HIDE DEF snakes
    <3>3. QED BY <2>1, <3>1, <3>2, InputsHeard
  <2>3. CASE ~heard(id)
    BY <2>1, <2>3
  <2>4. QED BY <2>2, <2>3
<1>3. /\ DOMAIN snakes = DOMAIN w.snakes /\ snakes = [id \in DOMAIN w.snakes |-> snakes[id]]
      /\ DOMAIN pending = DOMAIN w.pendingInputs
  OBVIOUS
<1>4. \A id \in DOMAIN w.pendingInputs : pending[id] \in Seq(Command)
  OBVIOUS
<1> HIDE DEF snakes, pending, v
<1>5. /\ Fields(v) /\ v.tick = w.tick /\ v.snakes = snakes /\ v.food = w.food /\ v.playerIndex = w.playerIndex
      /\ v.pendingInputs = pending /\ v.nextEntityId = w.nextEntityId
  <2>1. v = [tick |-> w.tick, snakes |-> snakes, food |-> w.food, playerIndex |-> w.playerIndex,
             pendingInputs |-> pending, nextEntityId |-> w.nextEntityId]
    BY <1>1 DEF WorldInv, Fields
  <2>2. QED BY <2>1 DEF Fields
<1>6. FoodInv(v)
  BY <1>5 DEF WorldInv, FoodInv
<1>7. Moved(w, v)
  BY <1>2, <1>3, <1>4, <1>5, <1>6 DEF Moved
<1>8. QED BY <1>7 DEF v

LEMMA SnakesAdvanced ==
  ASSUME NEW w, WorldInv(w)
  PROVE  Moved(w, moveSnakes(w))
<1> DEFINE distance(s) == IF canBoost(s) THEN BoostSpeed ELSE BaseSpeed
           snakes == [id \in DOMAIN w.snakes |->
                        IF w.snakes[id].alive THEN advance(drain(w.snakes[id]), distance(w.snakes[id]))
                        ELSE w.snakes[id]]
           v == moveSnakes(w)
<1>1. v = [w EXCEPT !.snakes = snakes]
  BY DEF moveSnakes, WorldInv, Fields
<1>2. ASSUME NEW id \in DOMAIN w.snakes
      PROVE  SnakeInv(snakes[id]) /\ snakes[id].playerId = w.snakes[id].playerId
  <2> DEFINE s == w.snakes[id]
             d == distance(s)
             t == drain(s)
  <2>1. SnakeInv(s)
    BY DEF WorldInv, SnakesInv
  <2>2. d \in 1 .. BoostSpeed
    BY SimNats
  <2>3. SnakeInv(t) /\ t.playerId = s.playerId
    BY <2>1, Drained
  <2>4. snakes[id] = IF s.alive THEN advance(t, d) ELSE s
    OBVIOUS
  <2> HIDE DEF t, d, s, snakes
  <2>5. SnakeInv(advance(t, d)) /\ advance(t, d).playerId = t.playerId
    BY <2>2, <2>3, Advanced
  <2>6. SnakeInv(snakes[id]) /\ snakes[id].playerId = s.playerId
    BY <2>1, <2>3, <2>4, <2>5
  <2>7. QED BY <2>6 DEF s
<1>3. DOMAIN snakes = DOMAIN w.snakes /\ snakes = [id \in DOMAIN w.snakes |-> snakes[id]]
  OBVIOUS
<1> HIDE DEF snakes, v
<1>5. /\ Fields(v) /\ v.tick = w.tick /\ v.snakes = snakes /\ v.food = w.food /\ v.playerIndex = w.playerIndex
      /\ v.pendingInputs = w.pendingInputs /\ v.nextEntityId = w.nextEntityId
  <2>1. v = [tick |-> w.tick, snakes |-> snakes, food |-> w.food, playerIndex |-> w.playerIndex,
             pendingInputs |-> w.pendingInputs, nextEntityId |-> w.nextEntityId]
    BY <1>1 DEF WorldInv, Fields
  <2>2. QED BY <2>1 DEF Fields
<1>6. FoodInv(v)
  BY <1>5 DEF WorldInv, FoodInv
<1>7. \A id \in DOMAIN w.pendingInputs : w.pendingInputs[id] \in Seq(Command)
  BY DEF WorldInv, SeatsInv
<1>8. Moved(w, v)
  BY <1>2, <1>3, <1>5, <1>6, <1>7 DEF Moved
<1>9. QED BY <1>8 DEF v

LEMMA FoodConsumed ==
  ASSUME NEW w, WorldInv(w), NEW eater
  PROVE  Moved(w, consumeFood(w, eater))
<1> DEFINE eaten(id) == {f \in DOMAIN w.food : eater[f] = id}
           gain(id) == Total([f \in eaten(id) |-> w.food[f].mass])
           snakes == [id \in DOMAIN w.snakes |->
                        IF eaten(id) = {} THEN w.snakes[id]
                        ELSE setMass(w.snakes[id], w.snakes[id].mass + gain(id))]
           food == Restrict(w.food, eaten(NoKiller))
           v == consumeFood(w, eater)
<1>1. v = [w EXCEPT !.snakes = snakes, !.food = food]
  BY DEF consumeFood, WorldInv, Fields
<1>2. FoodIs(w.food, w.nextEntityId, w.tick)
  BY DEF WorldInv, FoodInv
<1>3. ASSUME NEW id PROVE gain(id) \in Nat
  <2>1. IsFiniteSet(eaten(id))
    BY <1>2, FoodFinite, FS_Subset
  <2>2. [f \in eaten(id) |-> w.food[f].mass] \in [eaten(id) -> Nat]
    BY <1>2 DEF FoodIs, Pellet
  <2> DEFINE g == [f \in eaten(id) |-> w.food[f].mass]
             E == eaten(id)
  <2> HIDE DEF g, E
  <2>3. Total(g) \in Nat
    <3>1. g \in [E -> Nat] /\ IsFiniteSet(E)
      BY <2>1, <2>2 DEF g, E
    <3>2. QED BY <3>1, TotalType
  <2>4. QED BY <2>3 DEF g
<1>4. ASSUME NEW id \in DOMAIN w.snakes
      PROVE  SnakeInv(snakes[id]) /\ snakes[id].playerId = w.snakes[id].playerId
  <2> DEFINE s == w.snakes[id]
             m == s.mass + gain(id)
  <2>1. SnakeInv(s)
    BY DEF WorldInv, SnakesInv
  <2>2. m \in Int
    <3>1. s.mass \in Nat
      BY <2>1, SnakeIs DEF SnakeInv
    <3>2. gain(id) \in Nat
      BY <1>3
    <3>3. QED BY <3>1, <3>2
  <2>3. snakes[id] = s \/ snakes[id] = setMass(s, m)
    OBVIOUS
  <2> HIDE DEF m, s, snakes
  <2>4. SnakeInv(setMass(s, m)) /\ setMass(s, m).playerId = s.playerId
    BY <2>1, <2>2, MassSet
  <2>5. SnakeInv(snakes[id]) /\ snakes[id].playerId = s.playerId
    BY <2>1, <2>3, <2>4
  <2>6. QED BY <2>5 DEF s
<1>5. DOMAIN snakes = DOMAIN w.snakes /\ snakes = [id \in DOMAIN w.snakes |-> snakes[id]]
  OBVIOUS
<1>6. FoodIs(food, w.nextEntityId, w.tick)
  <2>1. eaten(NoKiller) \subseteq DOMAIN w.food
    OBVIOUS
  <2>2. QED BY <1>2, <2>1, FoodLess
<1> HIDE DEF snakes, food, v
<1>7. /\ Fields(v) /\ v.tick = w.tick /\ v.snakes = snakes /\ v.food = food /\ v.playerIndex = w.playerIndex
      /\ v.pendingInputs = w.pendingInputs /\ v.nextEntityId = w.nextEntityId
  <2>1. v = [tick |-> w.tick, snakes |-> snakes, food |-> food, playerIndex |-> w.playerIndex,
             pendingInputs |-> w.pendingInputs, nextEntityId |-> w.nextEntityId]
    BY <1>1 DEF WorldInv, Fields
  <2>2. QED BY <2>1 DEF Fields
<1>8. FoodInv(v)
  BY <1>6, <1>7 DEF FoodInv
<1>9. \A id \in DOMAIN w.pendingInputs : w.pendingInputs[id] \in Seq(Command)
  BY DEF WorldInv, SeatsInv
<1>10. Moved(w, v)
  BY <1>4, <1>5, <1>7, <1>8, <1>9 DEF Moved
<1>11. QED BY <1>10 DEF v

Death(w) == [victim : DOMAIN w.snakes, killer : Int]

(* How far a crash over the snakes of w has come: whoever died is dead,    *)
(* and the last killer lives.                                              *)
Swept(w, d) ==
  /\ \A id \in DOMAIN w.snakes :
       SnakeInv(d.snakes[id]) /\ d.snakes[id].playerId = w.snakes[id].playerId
  /\ \A i \in 1 .. Len(d.deaths) : ~d.snakes[d.deaths[i].victim].alive
  /\ d.deaths # <<>> =>
       LET killer == d.deaths[Len(d.deaths)].killer
       IN  killer # NoKiller => killer \in DOMAIN w.snakes /\ d.snakes[killer].alive

Sweeps(w) ==
  {d \in [snakes : [DOMAIN w.snakes -> SnakeRec], deaths : Seq(Death(w))] : Swept(w, d)}

LEMMA FallKeeps ==
  ASSUME NEW w, NEW d \in Sweeps(w), NEW id \in DOMAIN w.snakes, NEW killer \in Int,
         killer # NoKiller => killer \in DOMAIN w.snakes /\ killer # id /\ d.snakes[killer].alive
  PROVE  fall(d, id, killer) \in Sweeps(w)
<1> DEFINE D == DOMAIN w.snakes
           one(x) == [d.snakes[x] EXCEPT !.alive = @ /\ x # id, !.kills = IF x = killer THEN @ + 1 ELSE @]
           snakes == [x \in DOMAIN d.snakes |-> one(x)]
           death == [victim |-> id, killer |-> killer]
           deaths2 == Append(d.deaths, death)
           e == [snakes |-> snakes, deaths |-> deaths2]
           n == Len(d.deaths)
<1>1. /\ d.snakes \in [D -> SnakeRec] /\ d.deaths \in Seq(Death(w)) /\ Swept(w, d)
      /\ d \in [snakes : [D -> SnakeRec], deaths : Seq(Death(w))]
  BY DEF Sweeps
<1>2. fall(d, id, killer) = e
  BY DEF fall
<1>3. death \in Death(w) /\ death.victim = id /\ death.killer = killer
  BY DEF Death
<1> HIDE DEF death
<1>4. /\ n \in Nat /\ deaths2 \in Seq(Death(w)) /\ Len(deaths2) = n + 1 /\ deaths2[n + 1] = death
      /\ \A i \in 1 .. n : deaths2[i] = d.deaths[i]
  <2> DEFINE ds == d.deaths
             S == Death(w)
  <2>1. ds \in Seq(S) /\ death \in S
    BY <1>1, <1>3
  <2> HIDE DEF ds, S
  <2>2. /\ Len(ds) \in Nat /\ Append(ds, death) \in Seq(S) /\ Len(Append(ds, death)) = Len(ds) + 1
        /\ Append(ds, death)[Len(ds) + 1] = death
        /\ \A i \in 1 .. Len(ds) : Append(ds, death)[i] = ds[i]
    BY ONLY <2>1
  <2>3. QED BY <2>2 DEF ds, S
<1>5. ASSUME NEW x \in D
      PROVE  /\ SnakeInv(snakes[x]) /\ snakes[x].playerId = w.snakes[x].playerId
             /\ snakes[x].alive = (d.snakes[x].alive /\ x # id)
  <2> DEFINE s == d.snakes[x]
             a == s.alive /\ x # id
             k == IF x = killer THEN s.kills + 1 ELSE s.kills
  <2>1. SnakeInv(s) /\ s.playerId = w.snakes[x].playerId
    BY <1>1 DEF Swept
  <2>2. s.alive \in BOOLEAN /\ s.kills \in Nat
    BY <2>1, SnakeIs DEF SnakeInv
  <2>3. a \in BOOLEAN /\ k \in Nat
    BY <2>2
  <2>4. snakes[x] = [s EXCEPT !.alive = a, !.kills = k]
    <3>1. snakes[x] = one(x)
      BY <1>1
    <3>2. one(x) = [s EXCEPT !.alive = a, !.kills = k]
      BY <1>1 DEF SnakeRec
    <3>3. QED BY <3>1, <3>2
  <2> HIDE DEF a, k, s, snakes
  <2>5. SnakeInv(snakes[x]) /\ snakes[x].playerId = s.playerId /\ snakes[x].alive = a
    <3>1. PICK b \in BOOLEAN : b = a
      BY <2>3
    <3>2. PICK j \in Nat : j = k
      BY <2>3
    <3> DEFINE t == snakes[x]
    <3>3. t = [s EXCEPT !.alive = b, !.kills = j]
      BY <2>4, <3>1, <3>2
    <3> HIDE DEF t
    <3>4. s \in SnakeRec /\ b \in BOOLEAN /\ j \in Nat
      BY <2>1, <3>1, <3>2 DEF SnakeInv
    <3>5. /\ t \in SnakeRec /\ t.spine = s.spine /\ t.headIndex = s.headIndex
          /\ t.spineLength = s.spineLength /\ t.sinceLastPoint = s.sinceLastPoint
          /\ t.playerId = s.playerId /\ t.alive = b
      BY ONLY <3>3, <3>4 DEF SnakeRec
    <3>6. SnakeInv(t)
      BY <2>1, <3>5 DEF SnakeInv
    <3>7. QED BY <3>1, <3>5, <3>6 DEF t
  <2>6. QED BY <2>1, <2>5 DEF a, s
<1>6. snakes \in [D -> SnakeRec]
  <2>1. snakes = [x \in D |-> snakes[x]]
    BY <1>1
  <2>2. \A x \in D : snakes[x] \in SnakeRec
    BY <1>5 DEF SnakeInv
  <2> HIDE DEF snakes
  <2>3. QED BY <2>1, <2>2
<1> HIDE DEF snakes, deaths2, D, n
<1>7. e.snakes = snakes /\ e.deaths = deaths2
  OBVIOUS
<1> HIDE DEF e
<1>8. Swept(w, e)
  <2>1. ASSUME NEW i \in 1 .. n + 1 PROVE ~snakes[deaths2[i].victim].alive
    <3>1. CASE i = n + 1
      <4>1. deaths2[i].victim = id /\ id \in D
        BY <1>3, <1>4, <3>1 DEF D
      <4>2. QED BY <1>5, <4>1
    <3>2. CASE i # n + 1
      <4>1. i \in 1 .. n
        BY <1>4, <2>1, <3>2
      <4>2. deaths2[i] = d.deaths[i] /\ d.deaths[i] \in Death(w)
        BY <1>1, <1>4, <4>1 DEF n
      <4>3. deaths2[i].victim \in D /\ ~d.snakes[deaths2[i].victim].alive
        BY <1>1, <4>1, <4>2 DEF Swept, Death, D, n
      <4>4. QED BY <1>5, <4>3
    <3>3. QED BY <3>1, <3>2
  <2>2. killer # NoKiller => killer \in D /\ snakes[killer].alive
    BY <1>5 DEF D
  <2>3. deaths2[Len(deaths2)].killer = killer
    BY <1>3, <1>4
  <2>4. QED BY <1>4, <1>5, <1>7, <2>1, <2>2, <2>3 DEF Swept, D
<1>9. e \in [snakes : [D -> SnakeRec], deaths : Seq(Death(w))]
  BY <1>4, <1>6 DEF e
<1>10. QED BY <1>2, <1>8, <1>9 DEF Sweeps, D

LEMMA CollideKeeps ==
  ASSUME NEW w, WorldInv(w), NEW contact \in contacts(w), NEW d \in Sweeps(w), NEW id \in living(w)
  PROVE  collide(d, id, contact[id]) \in Sweeps(w)
<1> DEFINE c == contact[id]
<1>1. id \in DOMAIN w.snakes /\ c \in living(w) \cup {Wall, NoKiller} /\ c # id
  BY DEF contacts, living
<1>2. \A x \in living(w) : x \in DOMAIN w.snakes /\ x \in Int /\ x >= 1
  BY DEF living, WorldInv, SnakesInv
<1>3. Wall \notin living(w) /\ NoKiller \notin living(w) /\ NoKiller \in Int
  BY <1>2 DEF Wall, NoKiller
<1> HIDE DEF c
<1>4. CASE ~d.snakes[id].alive \/ c = NoKiller
  BY <1>4 DEF collide, c
<1>5. CASE ~(~d.snakes[id].alive \/ c = NoKiller) /\ c = Wall
  <2>1. collide(d, id, c) = fall(d, id, NoKiller)
    BY <1>5 DEF collide
  <2>2. QED BY <1>1, <1>3, <2>1, FallKeeps DEF c
<1>6. CASE ~(~d.snakes[id].alive \/ c = NoKiller) /\ c # Wall
  <2>1. c \in living(w)
    BY <1>1, <1>6
  <2>2. collide(d, id, c) = IF d.snakes[c].alive THEN fall(d, id, c) ELSE d
    BY <1>6 DEF collide
  <2>3. CASE d.snakes[c].alive
    <3>1. fall(d, id, c) \in Sweeps(w)
      BY <1>1, <1>2, <2>1, <2>3, FallKeeps
    <3>2. QED BY <2>2, <2>3, <3>1 DEF c
  <2>4. CASE ~d.snakes[c].alive
    BY <2>2, <2>4 DEF c
  <2>5. QED BY <2>3, <2>4
<1>7. QED BY <1>4, <1>5, <1>6

LEMMA CollisionsSwept ==
  ASSUME NEW w, WorldInv(w), NEW contact \in contacts(w)
  PROVE  detectCollisions(w, contact) \in Sweeps(w)
<1> DEFINE visit(crash, id) == IF id \in living(w) THEN collide(crash, id, contact[id]) ELSE crash
           e == [snakes |-> w.snakes, deaths |-> <<>>]
           q == [id \in 1 .. w.nextEntityId - 1 |-> id]
           n == Len(q)
           G == Sweeps(w)
           I == [k \in 0 .. n |-> G]
           st == [k \in 1 .. n |-> [d \in G |-> visit(d, q[k])]]
           upto == CHOOSE upto : upto = [k \in 0 .. n |-> IF k = 0 THEN e ELSE visit(upto[k - 1], q[k])]
<1>1. n \in Nat
  <2>1. w.nextEntityId - 1 \in Nat
    BY WorldIs
  <2> DEFINE m == w.nextEntityId - 1
  <2> HIDE DEF m
  <2>2. Len([id \in 1 .. m |-> id]) = m
    BY <2>1 DEF m
  <2>3. QED BY <2>1, <2>2 DEF m
<1>2. e \in G
  <2>1. \A id \in DOMAIN w.snakes : SnakeInv(w.snakes[id])
    BY DEF WorldInv, SnakesInv
  <2>2. w.snakes = [id \in DOMAIN w.snakes |-> w.snakes[id]]
    BY DEF WorldInv, SnakesInv
  <2>3. w.snakes \in [DOMAIN w.snakes -> SnakeRec]
    BY <2>1, <2>2 DEF SnakeInv
  <2>4. e.snakes = w.snakes /\ e.deaths = <<>> /\ Len(e.deaths) = 0
    OBVIOUS
  <2>5. e \in [snakes : [DOMAIN w.snakes -> SnakeRec], deaths : Seq(Death(w))]
    BY <2>3
  <2> HIDE DEF e
  <2>6. Swept(w, e)
    BY <2>1, <2>4 DEF Swept
  <2>7. QED BY <2>5, <2>6 DEF Sweeps
<1>3. ASSUME NEW d \in G, NEW k \in 1 .. n PROVE visit(d, q[k]) \in G
  <2> DEFINE id == q[k]
  <2> HIDE DEF id
  <2>1. visit(d, id) \in G
    <3>1. CASE id \in living(w)
      BY <1>3, <3>1, CollideKeeps
    <3>2. CASE id \notin living(w)
      BY <1>3, <3>2
    <3>3. QED BY <3>1, <3>2
  <2>2. QED BY <2>1 DEF id
<1>0. detectCollisions(w, contact) = upto[n]
  BY DEF detectCollisions, inOrder
<1> HIDE DEF n, q, e, G, visit, upto
<1>4. \A k \in 1 .. n : k \in 0 .. n /\ k - 1 \in 0 .. n /\ k # 0
  BY <1>1
<1>5. PICK u : IsRun(u, e, st, I, n)
  <2>1. e \in I[0]
    BY <1>1, <1>2
  <2>2. \A k \in 1 .. n : \A d \in I[k - 1] : st[k][d] \in I[k]
    BY <1>3, <1>4
  <2> HIDE DEF I, st
  <2>3. QED BY <1>1, <2>1, <2>2, RunIs
<1>6. u = [k \in 0 .. n |-> IF k = 0 THEN e ELSE visit(u[k - 1], q[k])]
  <2>1. \A k \in 0 .. n : u[k] = IF k = 0 THEN e ELSE visit(u[k - 1], q[k])
    <3> SUFFICES ASSUME NEW k \in 0 .. n PROVE u[k] = IF k = 0 THEN e ELSE visit(u[k - 1], q[k])
      OBVIOUS
    <3>1. CASE k = 0
      BY <1>5, <3>1 DEF IsRun
    <3>2. CASE k # 0
      <4>1. k \in 1 .. n
        BY <3>2
      <4>2. u[k - 1] \in G
        BY <1>4, <1>5, <4>1 DEF IsRun
      <4>3. st[k][u[k - 1]] = visit(u[k - 1], q[k])
        BY <4>1, <4>2
      <4>4. QED BY <1>5, <3>2, <4>1, <4>3 DEF IsRun
    <3>3. QED BY <3>1, <3>2
  <2>2. u = [k \in 0 .. n |-> u[k]]
    BY <1>5 DEF IsRun
  <2>3. [k \in 0 .. n |-> u[k]] = [k \in 0 .. n |-> IF k = 0 THEN e ELSE visit(u[k - 1], q[k])]
    BY <2>1
  <2>4. QED BY <2>2, <2>3
<1>7. upto = [k \in 0 .. n |-> IF k = 0 THEN e ELSE visit(upto[k - 1], q[k])]
  BY <1>6 DEF upto
<1>8. upto[n] \in I[n]
  <2>1. \A k \in 0 .. n : upto[k] = IF k = 0 THEN e ELSE visit(upto[k - 1], q[k])
    BY <1>7
  <2>2. upto[0] \in I[0]
    BY <1>1, <1>2, <2>1
  <2>3. \A k \in 1 .. n : upto[k - 1] \in I[k - 1] => upto[k] \in I[k]
    BY <1>3, <1>4, <2>1
  <2> HIDE DEF I
  <2>4. QED BY <1>1, <2>2, <2>3, RunKeeps
<1>9. QED BY <1>0, <1>1, <1>8 DEF G

(* Two heads that meet leave one of them alive.                            *)
Survives(ds) ==
  (ds # <<>> /\ \A i \in DOMAIN ds : ds[i].killer # NoKiller)
    => LET killer == ds[Len(ds)].killer
       IN  \A i \in DOMAIN ds : ds[i].victim # killer

LEMMA SweepSpares ==
  ASSUME NEW w, NEW d \in Sweeps(w)
  PROVE  Survives(d.deaths)
<1> DEFINE ds == d.deaths
           n == Len(ds)
<1>1. ds \in Seq(Death(w)) /\ Swept(w, d)
  BY DEF Sweeps
<1>2. n \in Nat /\ DOMAIN ds = 1 .. n /\ (ds # <<>> => n \in 1 .. n)
  <2> HIDE DEF ds
  <2>1. QED BY ONLY <1>1
<1> SUFFICES ASSUME ds # <<>>, \A i \in DOMAIN ds : ds[i].killer # NoKiller,
                    NEW i \in DOMAIN ds
             PROVE  ds[i].victim # ds[n].killer
  BY DEF Survives
<1>3. ds[n].killer # NoKiller
  BY <1>2
<1>4. d.snakes[ds[n].killer].alive
  BY <1>1, <1>3 DEF Swept
<1>5. ~d.snakes[ds[i].victim].alive
  BY <1>1, <1>2 DEF Swept
<1>6. QED BY <1>4, <1>5

(* The worlds that differ from w in their food alone.                      *)
Fed(w) ==
  {v \in [tick : {w.tick}, snakes : {w.snakes}, food : UNION {[S -> Pellet] : S \in SUBSET Nat},
          playerIndex : {w.playerIndex}, pendingInputs : {w.pendingInputs}, nextEntityId : Nat] :
     OnlyFood(w, v)}

LEMMA FedIs ==
  ASSUME NEW w, NEW v, OnlyFood(w, v)
  PROVE  v \in Fed(w)
<1>1. v.food \in UNION {[S -> Pellet] : S \in SUBSET Nat}
  <2> DEFINE S == DOMAIN v.food
  <2>1. v.nextEntityId \in Nat /\ S \subseteq 1 .. v.nextEntityId - 1 /\ v.food \in [S -> Pellet]
    BY DEF OnlyFood, FoodInv, FoodIs
  <2>2. S \in SUBSET Nat
    BY <2>1
  <2> HIDE DEF S
  <2>3. QED BY <2>1, <2>2
<1>2. /\ v.tick = w.tick /\ v.snakes = w.snakes /\ v.playerIndex = w.playerIndex
      /\ v.pendingInputs = w.pendingInputs /\ v.nextEntityId \in Nat
      /\ v = [tick |-> v.tick, snakes |-> v.snakes, food |-> v.food, playerIndex |-> v.playerIndex,
              pendingInputs |-> v.pendingInputs, nextEntityId |-> v.nextEntityId]
  BY DEF OnlyFood, Fields
<1> DEFINE Foods == UNION {[S -> Pellet] : S \in SUBSET Nat}
<1> HIDE DEF Foods
<1>3. v \in [tick : {w.tick}, snakes : {w.snakes}, food : Foods, playerIndex : {w.playerIndex},
             pendingInputs : {w.pendingInputs}, nextEntityId : Nat]
  BY <1>1, <1>2 DEF Foods
<1>4. QED BY <1>3 DEF Fed, Foods

LEMMA FedFurther ==
  ASSUME NEW w, WorldInv(w), NEW v, OnlyFood(w, v), NEW u, OnlyFood(v, u)
  PROVE  OnlyFood(w, u)
<1>1. w.nextEntityId \in Nat /\ v.nextEntityId \in Nat /\ u.nextEntityId \in Nat
      /\ v.nextEntityId >= w.nextEntityId /\ u.nextEntityId >= v.nextEntityId
  BY WorldIs DEF OnlyFood
<1>2. u.nextEntityId >= w.nextEntityId
  BY ONLY <1>1
<1>3. QED BY <1>1, <1>2 DEF OnlyFood

LEMMA VictimDropped ==
  ASSUME NEW w, WorldInv(w), NEW v \in Fed(w), NEW id \in DOMAIN w.snakes
  PROVE  scatterMass(v, v.snakes[id]) \in Fed(w)
<1>1. OnlyFood(w, v)
  BY DEF Fed
<1>2. WorldInv(v) /\ v.snakes = w.snakes
  BY <1>1, FoodChanged DEF OnlyFood
<1>3. Fields(v) /\ FoodInv(v) /\ v.tick \in Nat
  BY <1>2, WorldIs DEF WorldInv
<1> DEFINE s == v.snakes[id]
<1>4. SnakeInv(s)
  BY <1>2 DEF WorldInv, SnakesInv
<1> HIDE DEF s
<1>5. OnlyFood(v, scatterMass(v, s))
  BY <1>3, <1>4, MassScattered
<1> DEFINE u == scatterMass(v, s)
<1> HIDE DEF u
<1>6. OnlyFood(w, u)
  BY <1>1, <1>5, FedFurther DEF u
<1>7. u \in Fed(w)
  BY <1>6, FedIs
<1>8. QED BY <1>7 DEF u, s

LEMMA AllScattered ==
  ASSUME NEW w, WorldInv(w), NEW crash \in Sweeps(w)
  PROVE  WorldInv(scatterAll(w, crash)) /\ scatterAll(w, crash).tick = w.tick
<1> DEFINE base == [w EXCEPT !.snakes = crash.snakes]
<1>1. crash.snakes \in [DOMAIN w.snakes -> SnakeRec] /\ crash.deaths \in Seq(Death(w)) /\ Swept(w, crash)
  BY DEF Sweeps
<1>2. WorldInv(base) /\ DOMAIN base.snakes = DOMAIN w.snakes /\ base.tick = w.tick
  <2>1. /\ Fields(base) /\ base.tick = w.tick /\ base.snakes = crash.snakes /\ base.food = w.food
        /\ base.playerIndex = w.playerIndex /\ base.pendingInputs = w.pendingInputs
        /\ base.nextEntityId = w.nextEntityId
    <3>1. base = [tick |-> w.tick, snakes |-> crash.snakes, food |-> w.food, playerIndex |-> w.playerIndex,
                  pendingInputs |-> w.pendingInputs, nextEntityId |-> w.nextEntityId]
      BY DEF WorldInv, Fields
    <3> HIDE DEF base
    <3>2. QED BY <3>1 DEF Fields
  <2> HIDE DEF base
  <2>2. FoodInv(base) /\ \A id \in DOMAIN w.pendingInputs : w.pendingInputs[id] \in Seq(Command)
    BY <2>1 DEF WorldInv, FoodInv, SeatsInv
  <2>3. Moved(w, base)
    BY <1>1, <2>1, <2>2 DEF Moved, Swept
  <2>4. QED BY <1>1, <2>1, <2>3, SnakesMoved
<1> HIDE DEF base
<1> DEFINE drop(acc, death) == scatterMass(acc, acc.snakes[death.victim])
           q == crash.deaths
           n == Len(q)
           G == Fed(base)
           I == [k \in 0 .. n |-> G]
           st == [k \in 1 .. n |-> [d \in G |-> drop(d, q[k])]]
           upto == CHOOSE upto : upto = [k \in 0 .. n |-> IF k = 0 THEN base ELSE drop(upto[k - 1], q[k])]
<1>3. n \in Nat /\ \A k \in 1 .. n : q[k] \in Death(w)
  <2>1. q \in Seq(Death(w))
    BY <1>1
  <2> HIDE DEF q
  <2>2. QED BY ONLY <2>1
<1>4. base \in G
  <2>1. base.nextEntityId \in Nat /\ base.nextEntityId >= base.nextEntityId
    BY <1>2, WorldIs
  <2>2. OnlyFood(base, base)
    BY <1>2, <2>1 DEF OnlyFood, WorldInv
  <2>3. QED BY <2>2, FedIs
<1>5. ASSUME NEW d \in G, NEW k \in 1 .. n PROVE drop(d, q[k]) \in G
  <2>1. q[k].victim \in DOMAIN base.snakes
    BY <1>2, <1>3 DEF Death
  <2>2. QED BY <1>2, <1>5, <2>1, VictimDropped
<1>0. scatterAll(w, crash) = upto[n]
  BY DEF scatterAll, inOrder, base
<1> HIDE DEF n, q, G, drop, upto
<1>6. \A k \in 1 .. n : k \in 0 .. n /\ k - 1 \in 0 .. n /\ k # 0
  BY <1>3
<1>7. PICK u : IsRun(u, base, st, I, n)
  <2>1. base \in I[0]
    BY <1>3, <1>4
  <2>2. \A k \in 1 .. n : \A d \in I[k - 1] : st[k][d] \in I[k]
    BY <1>5, <1>6
  <2> HIDE DEF I, st
  <2>3. QED BY <1>3, <2>1, <2>2, RunIs
<1>8. u = [k \in 0 .. n |-> IF k = 0 THEN base ELSE drop(u[k - 1], q[k])]
  <2>1. \A k \in 0 .. n : u[k] = IF k = 0 THEN base ELSE drop(u[k - 1], q[k])
    <3> SUFFICES ASSUME NEW k \in 0 .. n PROVE u[k] = IF k = 0 THEN base ELSE drop(u[k - 1], q[k])
      OBVIOUS
    <3>1. CASE k = 0
      BY <1>7, <3>1 DEF IsRun
    <3>2. CASE k # 0
      <4>1. k \in 1 .. n
        BY <3>2
      <4>2. u[k - 1] \in G
        BY <1>6, <1>7, <4>1 DEF IsRun
      <4>3. st[k][u[k - 1]] = drop(u[k - 1], q[k])
        BY <4>1, <4>2
      <4>4. QED BY <1>7, <3>2, <4>1, <4>3 DEF IsRun
    <3>3. QED BY <3>1, <3>2
  <2>2. u = [k \in 0 .. n |-> u[k]]
    BY <1>7 DEF IsRun
  <2>3. [k \in 0 .. n |-> u[k]] = [k \in 0 .. n |-> IF k = 0 THEN base ELSE drop(u[k - 1], q[k])]
    BY <2>1
  <2>4. QED BY <2>2, <2>3
<1>9. upto = [k \in 0 .. n |-> IF k = 0 THEN base ELSE drop(upto[k - 1], q[k])]
  BY <1>8 DEF upto
<1>10. upto[n] \in I[n]
  <2>1. \A k \in 0 .. n : upto[k] = IF k = 0 THEN base ELSE drop(upto[k - 1], q[k])
    BY <1>9
  <2>2. upto[0] \in I[0]
    BY <1>3, <1>4, <2>1
  <2>3. \A k \in 1 .. n : upto[k - 1] \in I[k - 1] => upto[k] \in I[k]
    BY <1>5, <1>6, <2>1
  <2> HIDE DEF I
  <2>4. QED BY <1>3, <2>2, <2>3, RunKeeps
<1>11. OnlyFood(base, upto[n])
  BY <1>3, <1>10 DEF G, Fed
<1>12. WorldInv(upto[n]) /\ upto[n].tick = base.tick
  BY <1>2, <1>11, FoodChanged DEF OnlyFood
<1>13. QED BY <1>0, <1>2, <1>12

LEMMA EmptyIs ==
  /\ <<>> = [x \in {} |-> <<>>[x]] /\ DOMAIN <<>> = {}
  /\ \A S : <<>> \in [{} -> S]
OBVIOUS

LEMMA WorldCreated == WorldInv(createWorld)
<1> DEFINE w == [tick |-> 0, snakes |-> <<>>, food |-> <<>>, playerIndex |-> <<>>,
                 pendingInputs |-> <<>>, nextEntityId |-> 1]
           v == createWorld
<1>1. v = spawnFood(w, TargetFood, 1, Never)
  BY DEF createWorld
<1>2. /\ Fields(w) /\ w.tick = 0 /\ w.snakes = <<>> /\ w.food = <<>> /\ w.playerIndex = <<>>
      /\ w.pendingInputs = <<>> /\ w.nextEntityId = 1
  BY DEF Fields
<1> HIDE DEF w
<1>3. Natural(w.food) = {} /\ Cardinality(Natural(w.food)) = 0
  BY <1>2, EmptyIs, FS_EmptySet DEF Natural
<1>4. FoodInv(w)
  BY <1>2, <1>3, EmptyIs, SimNats DEF FoodInv, FoodIs
<1>5. /\ Fields(v) /\ FoodInv(v) /\ v.tick = w.tick /\ v.snakes = w.snakes
      /\ v.playerIndex = w.playerIndex /\ v.pendingInputs = w.pendingInputs
  <2>1. Cardinality(Natural(w.food)) + TargetFood <= TargetFood /\ TargetFood \in Nat /\ 1 \in Nat /\ w.tick \in Nat
    BY <1>2, <1>3, SimNats
  <2>2. QED BY <1>1, <1>2, <1>4, <2>1, FoodSpawned
<1> HIDE DEF v
<1>6. SnakesInv(v) /\ SeatsInv(v)
  BY <1>2, <1>5, EmptyIs DEF SnakesInv, SeatsInv
<1>7. v.tick \in 0 .. MaxTick
  BY <1>2, <1>5, SimNats
<1>8. QED BY <1>5, <1>6, <1>7 DEF WorldInv, v

(* The part of a tick before the collisions, and the whole of it.          *)
LEMMA TickSound ==
  ASSUME NEW w0, WorldInv(w0), w0.tick < MaxTick,
         NEW moved, moved = moveSnakes(applyInputs(w0)), NEW eater,
         NEW fed, fed = consumeFood(moved, eater), NEW contact \in contacts(fed),
         NEW crash, crash = detectCollisions(fed, contact), NEW w, w = scatterAll(fed, crash),
         NEW v, v = [expireFood(maintainFood(w)) EXCEPT !.tick = @ + 1]
  PROVE  WorldInv(v) /\ Survives(crash.deaths)
<1> DEFINE a == applyInputs(w0)
<1>1. WorldInv(a) /\ a.tick = w0.tick
  BY InputsApplied, SnakesMoved DEF Moved
<1> HIDE DEF a
<1>2. WorldInv(moved) /\ moved.tick = w0.tick
  <2>1. Moved(a, moved)
    BY <1>1, SnakesAdvanced DEF a
  <2>2. QED BY <1>1, <2>1, SnakesMoved DEF Moved
<1>3. WorldInv(fed) /\ fed.tick = w0.tick
  <2>1. Moved(moved, fed)
    BY <1>2, FoodConsumed
  <2>2. QED BY <1>2, <2>1, SnakesMoved DEF Moved
<1>4. crash \in Sweeps(fed)
  BY <1>3, CollisionsSwept
<1>5. Survives(crash.deaths)
  BY <1>4, SweepSpares
<1>6. WorldInv(w) /\ w.tick = w0.tick
  BY <1>3, <1>4, AllScattered
<1> DEFINE m == maintainFood(w)
<1>7. WorldInv(m) /\ m.tick = w0.tick
  <2>1. OnlyFood(w, m)
    BY <1>6, WorldIs, FoodMaintained DEF WorldInv
  <2>2. QED BY <1>6, <2>1, FoodChanged DEF OnlyFood
<1> HIDE DEF m
<1>8. v = [expireFood(m) EXCEPT !.tick = @ + 1]
  BY DEF m
<1>9. /\ Fields(v) /\ FoodInv(v) /\ v.tick = m.tick + 1 /\ v.snakes = m.snakes
      /\ v.playerIndex = m.playerIndex /\ v.pendingInputs = m.pendingInputs
      /\ v.nextEntityId = m.nextEntityId
  <2>1. Fields(m) /\ FoodInv(m) /\ m.tick \in Nat
    BY <1>7, WorldIs DEF WorldInv
  <2> DEFINE u == [expireFood(m) EXCEPT !.tick = @ + 1]
  <2>2. /\ Fields(u) /\ FoodInv(u) /\ u.tick = m.tick + 1 /\ u.snakes = m.snakes
        /\ u.playerIndex = m.playerIndex /\ u.pendingInputs = m.pendingInputs
        /\ u.nextEntityId = m.nextEntityId
    BY <2>1, FoodExpired
  <2>3. v = u
    BY <1>8
  <2> HIDE DEF u
  <2>4. QED BY <2>2, <2>3
<1>10. v.tick \in 0 .. MaxTick
  <2>1. w0.tick \in Nat /\ MaxTick \in Nat /\ w0.tick < MaxTick
    BY WorldIs, SimNats
  <2>2. w0.tick + 1 \in 0 .. MaxTick
    BY ONLY <2>1
  <2>3. QED BY <1>7, <1>9, <2>2
<1>11. SnakesInv(v) /\ SeatsInv(v)
  <2>1. SnakesInv(v)
    BY <1>7, <1>9 DEF WorldInv, SnakesInv
  <2>2. SeatsInv(v)
    BY <1>7, <1>9 DEF WorldInv, SeatsInv
  <2>3. QED BY <2>1, <2>2
<1>12. QED BY <1>5, <1>9, <1>10, <1>11 DEF WorldInv

(***************************************************************************)
(* The invariant of the simulation.                                        *)
(***************************************************************************)
WorldSound == WorldInv(world) /\ Survives(deaths)

LEMMA WorldSoundInit == SimInit => WorldSound
<1>1. Survives(<<>>)
  BY DEF Survives
<1>2. QED BY <1>1, WorldCreated DEF SimInit, WorldSound

LEMMA WorldSoundStep == WorldSound /\ step => WorldSound'
<1> SUFFICES ASSUME WorldSound, step PROVE WorldSound'
  OBVIOUS
<1>1. PICK moved \in {moveSnakes(applyInputs(world))} : \E eater \in meals(moved) :
        \E fed \in {consumeFood(moved, eater)} : \E contact \in contacts(fed) :
        \E crash \in {detectCollisions(fed, contact)} : \E w \in {scatterAll(fed, crash)} :
          /\ deaths' = crash.deaths
          /\ world' = [expireFood(maintainFood(w)) EXCEPT !.tick = @ + 1]
  BY Zenon DEF step
<1>2. PICK eater \in meals(moved) :
        \E fed \in {consumeFood(moved, eater)} : \E contact \in contacts(fed) :
        \E crash \in {detectCollisions(fed, contact)} : \E w \in {scatterAll(fed, crash)} :
          /\ deaths' = crash.deaths
          /\ world' = [expireFood(maintainFood(w)) EXCEPT !.tick = @ + 1]
  BY <1>1, Zenon
<1>3. PICK fed \in {consumeFood(moved, eater)} : \E contact \in contacts(fed) :
        \E crash \in {detectCollisions(fed, contact)} : \E w \in {scatterAll(fed, crash)} :
          /\ deaths' = crash.deaths
          /\ world' = [expireFood(maintainFood(w)) EXCEPT !.tick = @ + 1]
  BY <1>2, Zenon
<1>4. PICK contact \in contacts(fed) :
        \E crash \in {detectCollisions(fed, contact)} : \E w \in {scatterAll(fed, crash)} :
          /\ deaths' = crash.deaths
          /\ world' = [expireFood(maintainFood(w)) EXCEPT !.tick = @ + 1]
  BY <1>3, Zenon
<1>5. PICK crash \in {detectCollisions(fed, contact)} : \E w \in {scatterAll(fed, crash)} :
          /\ deaths' = crash.deaths
          /\ world' = [expireFood(maintainFood(w)) EXCEPT !.tick = @ + 1]
  BY <1>4, Zenon
<1>6. PICK w \in {scatterAll(fed, crash)} :
          /\ deaths' = crash.deaths
          /\ world' = [expireFood(maintainFood(w)) EXCEPT !.tick = @ + 1]
  BY <1>5, Zenon
<1>7. WorldInv(world) /\ world.tick < MaxTick
  BY DEF WorldSound, step
<1>8. PICK v : v = world'
  OBVIOUS
<1>9. /\ moved = moveSnakes(applyInputs(world)) /\ fed = consumeFood(moved, eater)
      /\ crash = detectCollisions(fed, contact) /\ w = scatterAll(fed, crash)
  BY <1>1, <1>3, <1>5, <1>6, Zenon
<1>10. v = [expireFood(maintainFood(w)) EXCEPT !.tick = @ + 1]
  BY <1>6, <1>8, Zenon
<1>11. WorldInv(v) /\ Survives(crash.deaths)
  BY <1>4, <1>7, <1>9, <1>10, TickSound
<1>12. QED BY <1>6, <1>8, <1>11 DEF WorldSound

LEMMA WorldSoundCall == WorldSound /\ Call => WorldSound'
<1> SUFFICES ASSUME WorldSound, Call PROVE WorldSound'
  OBVIOUS
<1>1. PICK p \in Owners : addPlayer(p) \/ removePlayer(p) \/ respawn(p) \/ applyInput(p)
  BY Zenon DEF Call
<1>2. WorldInv(world) /\ Survives(deaths) /\ deaths' = deaths
  BY Zenon DEF WorldSound, Call
<1>3. PICK v : v = world'
  OBVIOUS
<1>4. CASE addPlayer(p)
  <2>1. v = spawnSnake(world, p)
    BY <1>3, <1>4, Zenon DEF addPlayer
  <2>2. WorldInv(v)
    BY <1>2, <2>1, SnakeSpawned
  <2>3. QED BY <1>2, <1>3, <2>2 DEF WorldSound
<1>5. CASE removePlayer(p)
  <2>1. v = despawnSnake(world, p, TRUE)
    BY <1>3, <1>5, Zenon DEF removePlayer
  <2>2. WorldInv(v)
    BY <1>2, <2>1, SnakeDespawned
  <2>3. QED BY <1>2, <1>3, <2>2 DEF WorldSound
<1>6. CASE respawn(p)
  <2> DEFINE u == despawnSnake(world, p, FALSE)
  <2>1. v = spawnSnake(u, p)
    BY <1>3, <1>6, Zenon DEF respawn
  <2>2. WorldInv(u)
    BY <1>2, SnakeDespawned
  <2> HIDE DEF u
  <2>3. WorldInv(v)
    BY <2>1, <2>2, SnakeSpawned
  <2>4. QED BY <1>2, <1>3, <2>3 DEF WorldSound
<1>7. CASE applyInput(p)
  <2>1. PICK seq \in 1 .. MaxSeq, boost \in BOOLEAN :
          world' = enqueueInput(world, p, [seq |-> seq, boost |-> boost])
    BY <1>7, Zenon DEF applyInput
  <2> DEFINE command == [seq |-> seq, boost |-> boost]
  <2>2. command \in Command
    BY DEF Command
  <2> HIDE DEF command
  <2>3. v = enqueueInput(world, p, command)
    BY <1>3, <2>1 DEF command
  <2>4. WorldInv(v)
    BY <1>2, <2>2, <2>3, InputEnqueued
  <2>5. QED BY <1>2, <1>3, <2>4 DEF WorldSound
<1>8. QED BY <1>1, <1>4, <1>5, <1>6, <1>7

LEMMA WorldSoundNext == WorldSound /\ [SimNext]_simVars => WorldSound'
<1>1. WorldSound /\ UNCHANGED simVars => WorldSound'
  BY DEF WorldSound, simVars
<1>2. QED BY <1>1, WorldSoundStep, WorldSoundCall DEF SimNext

LEMMA PointIs ==
  ASSUME NEW s, SnakeInv(s), NEW i \in 0 .. s.spineLength - 1
  PROVE  pointAt(s, i) = s.spine[Ring(s.headIndex, i)]
<1> DEFINE n == s.spineLength
<1>1. n \in Nat
  BY SnakeIs DEF SnakeInv
<1> HIDE DEF n
<1>2. i \in 0 .. n - 1
  BY DEF n
<1>3. 0 \in Int /\ i \in Int /\ n - 1 \in Int /\ i >= 0 /\ i <= n - 1
  BY ONLY <1>1, <1>2
<1>4. Max({0, i}) = i
  BY ONLY <1>3, MaxOfTwo
<1>5. Min({i, n - 1}) = i
  BY ONLY <1>3, MinOfTwo
<1>6. pointAt(s, i) = s.spine[slot(s, Min({Max({0, i}), n - 1}))]
  BY DEF pointAt, n
<1>7. QED BY <1>4, <1>5, <1>6 DEF slot, Ring

LEMMA SpinesArePaths == WorldSound => SpineIsPath
<1> SUFFICES ASSUME WorldSound, NEW id \in DOMAIN world.snakes,
                    NEW i \in 0 .. world.snakes[id].spineLength - 1
             PROVE  LET s == world.snakes[id]
                    IN  /\ pointAt(s, i) # Unwritten
                        /\ i > 0 => pointAt(s, i - 1) - pointAt(s, i) \in 1 .. Spacing + Max({Spacing, BoostSpeed})
  BY DEF SpineIsPath
<1> DEFINE s == world.snakes[id]
           n == s.spineLength
<1>1. SnakeInv(s)
  BY DEF WorldSound, WorldInv, SnakesInv
<1>2. n \in Nat /\ i \in 0 .. n - 1
  BY <1>1, SnakeIs DEF SnakeInv
<1>3. Path(s.spine, s.headIndex, n, s.sinceLastPoint)
  BY <1>1 DEF SnakeInv
<1> HIDE DEF s
<1>4. pointAt(s, i) = s.spine[Ring(s.headIndex, i)]
  BY <1>1, <1>2, PointIs
<1>5. pointAt(s, i) \in Nat
  BY <1>2, <1>3, <1>4 DEF Path
<1>6. pointAt(s, i) # Unwritten
  BY <1>5 DEF Unwritten
<1>7. ASSUME i > 0 PROVE pointAt(s, i - 1) - pointAt(s, i) \in 1 .. Spacing + Max({Spacing, BoostSpeed})
  <2>1. i - 1 \in 0 .. n - 1 /\ i \in 1 .. n - 1
    BY <1>2, <1>7
  <2>2. pointAt(s, i - 1) = s.spine[Ring(s.headIndex, i - 1)]
    BY <1>1, <2>1, PointIs
  <2>3. s.spine[Ring(s.headIndex, i - 1)] - s.spine[Ring(s.headIndex, i)] \in 1 .. Spacing + Longest
    BY <1>3, <2>1 DEF Path
  <2>4. QED BY <1>4, <2>2, <2>3 DEF Longest
<1>8. QED BY <1>6, <1>7 DEF s

LEMMA FoodStaysBounded == WorldSound => FoodIsBounded
<1> SUFFICES ASSUME WorldSound PROVE FoodIsBounded
  OBVIOUS
<1> DEFINE food == world.food
           t == world.tick
<1>1. /\ t \in Nat /\ food \in [DOMAIN food -> Pellet] /\ Cardinality(Natural(food)) <= TargetFood
      /\ \A f \in DOMAIN food : food[f].expires # Never => t <= food[f].expires + ((t - 1) % SweepEvery)
  BY WorldIs DEF WorldSound, WorldInv, FoodInv, FoodIs
<1> HIDE DEF food, t
<1>2. ASSUME NEW f \in DOMAIN food, food[f].expires # Never
      PROVE  t <= food[f].expires + SweepEvery
  <2>1. food[f].expires \in Nat
    BY <1>1, <1>2 DEF Pellet
  <2> DEFINE e == food[f].expires
             x == (t - 1) % SweepEvery
  <2>2. x \in 0 .. SweepEvery - 1 /\ t <= e + x /\ e \in Nat
    <3>1. SweepEvery \in Nat /\ SweepEvery > 0
      BY SimNats
    <3>2. x \in 0 .. SweepEvery - 1
      BY ONLY <1>1, <3>1, ModSucc
    <3>3. QED BY <1>1, <1>2, <2>1, <3>2
  <2> HIDE DEF e, x
  <2>3. t <= e + SweepEvery
    BY ONLY <1>1, <2>2, SimNats
  <2>4. QED BY <2>3 DEF e
<1>3. QED BY <1>1, <1>2 DEF FoodIsBounded, Natural, food, t

LEMMA WorldsAreTyped == WorldSound => SimTypeOK
<1> SUFFICES ASSUME WorldSound PROVE SimTypeOK
  OBVIOUS
<1>1. WorldInv(world)
  BY DEF WorldSound
<1>2. world.tick \in 0 .. MaxTick
  BY <1>1 DEF WorldInv
<1>3. ASSUME NEW id \in DOMAIN world.snakes
      PROVE  LET s == world.snakes[id] IN
             /\ s.playerId \in Owners /\ s.headIndex \in 0 .. SpineCapacity - 1
             /\ s.spineLength \in 1 .. MaxLength /\ s.mass \in Nat \ {0}
             /\ s.boostDebt \in 0 .. DrainUnit - 1 /\ s.sinceLastPoint \in Nat
             /\ s.lastAckSeq \in 0 .. MaxSeq /\ s.alive \in BOOLEAN /\ s.boosting \in BOOLEAN
  <2> DEFINE s == world.snakes[id]
  <2>1. s \in SnakeRec
    BY <1>1 DEF WorldInv, SnakesInv, SnakeInv
  <2> HIDE DEF s
  <2>2. /\ s.playerId \in Owners /\ s.headIndex \in 0 .. SpineCapacity - 1
        /\ s.spineLength \in 1 .. MaxLength /\ s.mass \in Nat \ {0}
        /\ s.boostDebt \in 0 .. DrainUnit - 1 /\ s.sinceLastPoint \in Nat
        /\ s.lastAckSeq \in 0 .. MaxSeq /\ s.alive \in BOOLEAN /\ s.boosting \in BOOLEAN
    BY <2>1 DEF SnakeRec, Slots
  <2>3. QED BY <2>2 DEF s
<1>4. \A f \in DOMAIN world.food : world.food[f].mass \in Nat
  BY <1>1 DEF WorldInv, FoodInv, FoodIs, Pellet
<1>5. \A id \in DOMAIN world.pendingInputs : world.pendingInputs[id] \in Seq(Command)
  BY <1>1 DEF WorldInv, SeatsInv
<1>6. QED BY <1>2, <1>3, <1>4, <1>5, Zenon DEF SimTypeOK

LEMMA WorldsAreSound == WorldSound => SimInv
<1>1. WorldSound => OneSnakeEach
  BY DEF WorldSound, WorldInv, SeatsInv, OneSnakeEach
<1>2. WorldSound => SomeoneSurvives
  BY DEF WorldSound, Survives, SomeoneSurvives
<1>3. QED BY <1>1, <1>2, SpinesArePaths, FoodStaysBounded, WorldsAreTyped DEF SimInv

(* What a tick leaves is sound, for any number of players, any size of the *)
(* ring, any speeds, sizes and times: whatever joins, leaves, respawns and *)
(* inputs came between the ticks, whatever each head ate and hit, a body   *)
(* is a path without holes, a player has one snake, a crash of heads has a *)
(* survivor and the food is bounded (tick).                                *)
THEOREM WorldsStaySound == SimSpec => []SimInv
<1>1. SimInit => WorldSound
  BY WorldSoundInit
<1>2. WorldSound /\ [SimNext]_simVars => WorldSound'
  BY WorldSoundNext
<1>3. WorldSound => SimInv
  BY WorldsAreSound
<1>4. QED BY <1>1, <1>2, <1>3, PTL DEF SimSpec

-----------------------------------------------------------------------------
(***************************************************************************)
(* GameClient.                                                             *)
(***************************************************************************)

(* A set of naturals with a bound and a member has a greatest one.         *)
LEMMA MaxOfBounded ==
  ASSUME NEW S \in SUBSET Nat, S # {}, NEW bound \in Nat, \A x \in S : x <= bound
  PROVE  Max(S) \in S /\ \A x \in S : x <= Max(S)
<1> DEFINE Over == {b \in Nat : \A x \in S : x <= b}
<1>1. PICK least \in Over : \A b \in Over : least <= b
  BY NatHasLeast
<1>2. least \in S
  <2> SUFFICES ASSUME least \notin S PROVE FALSE
    OBVIOUS
  <2>1. PICK x \in S : TRUE
    OBVIOUS
  <2>2. \A y \in S : y <= least - 1
    BY <1>1
  <2>3. least - 1 \in Over
    BY <2>1, <2>2, <1>1
  <2>4. QED BY <2>3, <1>1
<1>3. \E x \in S : \A y \in S : x >= y
  BY <1>1, <1>2
<1>4. Max(S) \in S /\ \A y \in S : Max(S) >= y
  BY <1>3 DEF Max
<1>5. QED BY <1>4

(***************************************************************************)
(* The snapshot buffer.                                                    *)
(***************************************************************************)
(* In order of server time, without a duplicate.                           *)
Rising(s) == \A i, j \in DOMAIN s : i < j => s[i] < s[j]

Ordered(buffer) == buffer \in Seq(Nat) /\ Rising(buffer)

(* There is a place to insert at.                                          *)
LEMMA PlaceExists ==
  ASSUME NEW buffer \in Seq(Nat), NEW time \in Nat
  PROVE  \E i \in 0 .. Len(buffer) : /\ i > 0 => buffer[i] <= time
                                     /\ \A j \in i + 1 .. Len(buffer) : buffer[j] > time
<1> DEFINE T == {i \in Nat : i <= Len(buffer) /\ \A j \in i + 1 .. Len(buffer) : buffer[j] > time}
<1>1. Len(buffer) \in T
  OBVIOUS
<1>2. PICK i \in T : \A j \in T : i <= j
  BY <1>1, NatHasLeast
<1>3. i > 0 => buffer[i] <= time
  <2> SUFFICES ASSUME i > 0, ~(buffer[i] <= time) PROVE FALSE
    OBVIOUS
  <2>1. i \in 1 .. Len(buffer) /\ buffer[i] \in Nat /\ buffer[i] > time
    BY <1>2
  <2>2. i - 1 \in T
    BY <2>1, <1>2
  <2>3. QED BY <2>2, <1>2
<1>4. QED BY <1>2, <1>3

LEMMA SnapshotPushed ==
  ASSUME NEW buffer, Ordered(buffer), Len(buffer) <= BufferSize, NEW time \in Nat
  PROVE  /\ Ordered(pushSnapshot(buffer, time)) /\ Len(pushSnapshot(buffer, time)) <= BufferSize
         /\ \A i \in DOMAIN pushSnapshot(buffer, time) :
              pushSnapshot(buffer, time)[i] \in {time} \cup ToSet(buffer)
<1> DEFINE index == placeFor(buffer, time)
           before == SubSeq(buffer, 1, index)
           after == SubSeq(buffer, index + 1, Len(buffer))
           inserted == InsertAt(buffer, index + 1, time)
           n == Len(buffer)
<1>0. /\ buffer \in Seq(Nat) /\ Rising(buffer) /\ BufferSize \in Nat /\ BufferSize >= 1
      /\ n = Len(buffer) /\ n \in Nat /\ DOMAIN buffer = 1 .. n
  BY ClientConstants DEF Ordered
<1>1. /\ index \in 0 .. n /\ (index > 0 => buffer[index] <= time)
      /\ \A j \in index + 1 .. n : buffer[j] > time
  BY <1>0, PlaceExists DEF placeFor
<1>2. pushSnapshot(buffer, time) =
        IF index \in DOMAIN buffer /\ buffer[index] = time THEN buffer
        ELSE IF Len(inserted) > BufferSize THEN Tail(inserted) ELSE inserted
  BY DEF pushSnapshot
<1> HIDE DEF index, n
<1>3. /\ n \in Nat /\ DOMAIN buffer = 1 .. n /\ index \in Nat /\ index <= n /\ (index + 1) - 1 = index
      /\ \A j \in index + 1 .. n : buffer[j] > time
  <2>2. index \in Nat /\ index <= n /\ (index + 1) - 1 = index
    <3>1. index \in 0 .. n /\ n \in Nat
      BY <1>0, <1>1
    <3>2. QED BY ONLY <3>1
  <2>3. QED BY <1>0, <1>1, <2>2
<1>4. /\ before \in Seq(Nat) /\ Len(before) = index /\ \A i \in 1 .. index : before[i] = buffer[i]
  BY <1>0, <1>3
<1>5. /\ after \in Seq(Nat) /\ Len(after) = n - index
      /\ \A i \in 1 .. n - index : after[i] = buffer[index + i]
  <2>1. index + 1 \in 1 .. n + 1 /\ n \in 0 .. n /\ n - (index + 1) + 1 = n - index
    BY ONLY <1>3
  <2>2. after \in Seq(Nat)
    BY <1>0, <2>1
  <2>3. Len(after) = n - index
    BY <1>0, <1>3, <2>1
  <2>4. QED BY <1>0, <1>3, <2>1, <2>2, <2>3
<1>6. inserted = before \o <<time>> \o after
  <2>1. inserted = SubSeq(buffer, 1, (index + 1) - 1) \o <<time>> \o after
    BY DEF InsertAt
  <2>2. QED BY ONLY <2>1, <1>3
<1> HIDE DEF before, after, inserted, n
<1>7. /\ inserted \in Seq(Nat) /\ Len(inserted) = n + 1 /\ DOMAIN inserted = 1 .. n + 1
      /\ \A i \in 1 .. n + 1 : inserted[i] = IF i <= index THEN before[i]
                                            ELSE IF i = index + 1 THEN time ELSE after[i - index - 1]
  <2>1. n + 1 = index + 1 + (n - index) /\ n - index \in Nat /\ n + 1 \in Nat
    BY ONLY <1>3
  <2>2. <<time>> \in Seq(Nat) /\ Len(<<time>>) = 1
    OBVIOUS
  <2> DEFINE head == before \o <<time>>
  <2>3. /\ head \in Seq(Nat) /\ Len(head) = index + 1
        /\ \A i \in 1 .. index : head[i] = before[i]
        /\ head[index + 1] = time
    BY <1>3, <1>4, <2>2
  <2> HIDE DEF head
  <2>4. inserted = head \o after
    BY <1>6 DEF head
  <2>5. /\ inserted \in Seq(Nat) /\ Len(inserted) = n + 1 /\ DOMAIN inserted = 1 .. n + 1
    <3>1. inserted \in Seq(Nat) /\ Len(inserted) = Len(head) + Len(after)
      <4>1. after \in Seq(Nat) /\ head \in Seq(Nat)
        BY <1>5, <2>3
      <4>2. head \o after \in Seq(Nat) /\ Len(head \o after) = Len(head) + Len(after)
        BY ONLY <4>1
      <4>3. QED BY <2>4, <4>2
    <3>2. Len(inserted) = n + 1
      BY <3>1, <2>1, <2>3, <1>5
    <3>3. QED BY <3>1, <3>2
  <2>6. ASSUME NEW i \in 1 .. n + 1
        PROVE  inserted[i] = IF i <= index + 1 THEN head[i] ELSE after[i - (index + 1)]
    BY <1>3, <1>5, <2>1, <2>3, <2>4
  <2>7. ASSUME NEW i \in 1 .. n + 1
        PROVE  /\ i <= index => i \in 1 .. index /\ i <= index + 1
               /\ i <= index + 1 => i <= index \/ i = index + 1
               /\ i - (index + 1) = i - index - 1
    BY ONLY <1>3, i \in 1 .. n + 1
  <2>8. QED BY <2>3, <2>5, <2>6, <2>7
<1>8. \A i \in 1 .. n + 1 : inserted[i] = IF i <= index THEN buffer[i]
                                         ELSE IF i = index + 1 THEN time ELSE buffer[i - 1]
  <2> SUFFICES ASSUME NEW i \in 1 .. n + 1
               PROVE  inserted[i] = IF i <= index THEN buffer[i]
                                    ELSE IF i = index + 1 THEN time ELSE buffer[i - 1]
    OBVIOUS
  <2>1. CASE i <= index
    BY <2>1, <1>3, <1>4, <1>7
  <2>2. CASE i = index + 1
    BY <2>2, <1>3, <1>7
  <2>3. CASE i > index + 1
    <3>1. /\ i - index - 1 \in 1 .. n - index /\ index + (i - index - 1) = i - 1
          /\ ~(i <= index) /\ i # index + 1
      BY ONLY <1>3, <2>3, i \in 1 .. n + 1
    <3>2. inserted[i] = after[i - index - 1]
      BY <3>1, <1>7
    <3>3. after[i - index - 1] = buffer[index + (i - index - 1)]
      BY <3>1, <1>5
    <3>4. QED BY <3>1, <3>2, <3>3
  <2>4. QED BY <2>1, <2>2, <2>3, <1>3
<1>9. CASE index \in DOMAIN buffer /\ buffer[index] = time
  <2>1. pushSnapshot(buffer, time) = buffer
    BY <1>2, <1>9
  <2>2. QED BY <2>1 DEF Ordered, ToSet
<1>10. CASE ~(index \in DOMAIN buffer /\ buffer[index] = time)
  <2>1. index > 0 => buffer[index] < time
    BY <1>1, <1>3, <1>10, <1>0
  <2>2. \A i \in 1 .. index : buffer[i] < time
    <3> SUFFICES ASSUME NEW i \in 1 .. index PROVE buffer[i] < time
      OBVIOUS
    <3>1. index > 0 /\ i \in DOMAIN buffer /\ index \in DOMAIN buffer
      BY <1>3
    <3>2. i = index \/ buffer[i] < buffer[index]
      BY <3>1, <1>0, <1>3 DEF Rising
    <3>3. buffer[i] \in Nat /\ buffer[index] \in Nat
      BY <3>1, <1>0
    <3>4. QED BY <2>1, <3>1, <3>2, <3>3
  <2>3. Rising(inserted)
    <3> SUFFICES ASSUME NEW i \in 1 .. n + 1, NEW j \in 1 .. n + 1, i < j
                 PROVE  inserted[i] < inserted[j]
      BY <1>7 DEF Rising
    <3>1. /\ i <= index => i \in DOMAIN buffer
          /\ j <= index => j \in DOMAIN buffer
          /\ i > index + 1 => i - 1 \in DOMAIN buffer
          /\ j > index + 1 => j - 1 \in index + 1 .. n /\ j - 1 \in DOMAIN buffer
      BY <1>3
    <3>2. CASE j <= index
      <4>1. inserted[i] = buffer[i] /\ inserted[j] = buffer[j] /\ i \in DOMAIN buffer /\ j \in DOMAIN buffer
        BY <3>1, <3>2, <1>3, <1>8
      <4>2. QED BY <4>1, <1>0 DEF Rising
    <3>3. CASE j = index + 1
      BY <3>1, <3>3, <1>3, <1>8, <2>2
    <3>4. CASE j > index + 1
      <4>1. inserted[j] = buffer[j - 1] /\ buffer[j - 1] > time
        BY <3>1, <3>4, <1>3, <1>8
      <4>2. CASE i = index + 1
        BY <4>1, <4>2, <1>3, <1>8
      <4>3. CASE i <= index
        <5>1. inserted[i] = buffer[i] /\ i < j - 1
          BY <4>3, <3>4, <1>3, <1>8
        <5>2. QED BY <4>1, <4>3, <5>1, <3>1, <3>4, <1>0 DEF Rising
      <4>4. CASE i > index + 1
        <5>1. inserted[i] = buffer[i - 1] /\ i - 1 < j - 1
          BY <4>4, <1>3, <1>8
        <5>2. QED BY <4>1, <4>4, <5>1, <3>1, <3>4, <1>0 DEF Rising
      <4>5. QED BY <4>2, <4>3, <4>4, <1>3
    <3>5. QED BY <3>2, <3>3, <3>4, <1>3
  <2>4. \A i \in 1 .. n + 1 : inserted[i] \in {time} \cup ToSet(buffer)
    <3> SUFFICES ASSUME NEW i \in 1 .. n + 1 PROVE inserted[i] \in {time} \cup ToSet(buffer)
      OBVIOUS
    <3>1. \A k \in 1 .. n : buffer[k] \in ToSet(buffer)
      BY <1>3 DEF ToSet
    <3>2. (i <= index => i \in 1 .. n) /\ (i > index + 1 => i - 1 \in 1 .. n)
      BY <1>3
    <3>3. QED BY <3>1, <3>2, <1>3, <1>8
  <2>5. CASE Len(inserted) > BufferSize
    <3>1. pushSnapshot(buffer, time) = Tail(inserted)
      BY <1>2, <1>10, <2>5
    <3>2. /\ Tail(inserted) \in Seq(Nat) /\ Len(Tail(inserted)) = n
          /\ DOMAIN Tail(inserted) = 1 .. n
          /\ \A i \in 1 .. n : Tail(inserted)[i] = inserted[i + 1]
      BY <1>3, <1>7
    <3>3. Rising(Tail(inserted))
      <4> SUFFICES ASSUME NEW i \in 1 .. n, NEW j \in 1 .. n, i < j
                   PROVE  Tail(inserted)[i] < Tail(inserted)[j]
        BY <3>2 DEF Rising
      <4>1. i + 1 \in DOMAIN inserted /\ j + 1 \in DOMAIN inserted /\ i + 1 < j + 1
        BY <1>3, <1>7
      <4>2. QED BY <4>1, <3>2, <2>3 DEF Rising
    <3>4. \A i \in 1 .. n : Tail(inserted)[i] \in {time} \cup ToSet(buffer)
      <4> SUFFICES ASSUME NEW i \in 1 .. n PROVE Tail(inserted)[i] \in {time} \cup ToSet(buffer)
        OBVIOUS
      <4>1. i + 1 \in 1 .. n + 1
        BY <1>3
      <4>2. QED BY <4>1, <3>2, <2>4
    <3>5. QED BY <3>1, <3>2, <3>3, <3>4, <1>3 DEF Ordered, n
  <2>6. CASE ~(Len(inserted) > BufferSize)
    <3>1. pushSnapshot(buffer, time) = inserted
      BY <1>2, <1>10, <2>6
    <3>2. QED BY <3>1, <2>3, <2>4, <2>6, <1>0, <1>3, <1>7 DEF Ordered
  <2>7. QED BY <2>5, <2>6
<1>11. QED BY <1>9, <1>10

LEMMA SpanExists ==
  ASSUME NEW buffer, Ordered(buffer), NEW t \in Nat,
         Len(buffer) >= 2, buffer[1] < t, t < buffer[Len(buffer)]
  PROVE  /\ firstSpan(buffer, t) \in 1 .. Len(buffer) - 1
         /\ spans(buffer, firstSpan(buffer, t), t)
<1> DEFINE n == Len(buffer)
<1>1. buffer \in Seq(Nat) /\ n \in Nat /\ n >= 2 /\ DOMAIN buffer = 1 .. n
  BY DEF Ordered
<1>2. /\ n \in 1 .. n /\ 1 \in 1 .. n /\ \A i \in 1 .. n : buffer[i] \in Nat
      /\ buffer[1] < t /\ t < buffer[n]
  BY <1>1
<1> HIDE DEF n
<1> DEFINE K == {i \in Nat : i \in 1 .. n /\ buffer[i] >= t}
<1>3. n \in K
  BY <1>1, <1>2
<1>4. PICK k \in K : \A j \in K : k <= j
  BY <1>3, NatHasLeast
<1>5. k # 1 /\ k \in 1 .. n /\ buffer[k] >= t
  BY <1>2, <1>4
<1>6. k - 1 \in 1 .. n - 1 /\ k - 1 \in 1 .. n /\ k - 1 + 1 = k /\ ~(k <= k - 1)
  BY ONLY <1>1, <1>5
<1>7. ~(buffer[k - 1] >= t)
  BY <1>4, <1>6
<1>8. spans(buffer, k - 1, t)
  BY <1>2, <1>5, <1>6, <1>7 DEF spans
<1> DEFINE T == {i \in Nat : i \in 1 .. n - 1 /\ spans(buffer, i, t)}
<1>9. k - 1 \in T
  BY <1>6, <1>8
<1>10. PICK i \in T : \A j \in T : i <= j
  BY <1>9, NatHasLeast
<1>11. i \in 1 .. n - 1 /\ spans(buffer, i, t)
  BY <1>10
<1>12. \A j \in 1 .. i - 1 : ~spans(buffer, j, t)
  <2> SUFFICES ASSUME NEW j \in 1 .. i - 1, spans(buffer, j, t) PROVE FALSE
    OBVIOUS
  <2>1. j \in Nat /\ j \in 1 .. n - 1 /\ ~(i <= j)
    BY ONLY <1>1, <1>11, j \in 1 .. i - 1
  <2>2. QED BY <2>1, <1>10
<1>13. QED BY <1>11, <1>12 DEF firstSpan, n

(* The frame shown at any time encloses it, or is of the nearer end.       *)
LEMMA FrameEncloses ==
  ASSUME NEW buffer, Ordered(buffer), buffer # <<>>, NEW t \in Nat
  PROVE  LET frame == sampleAt(buffer, t)
         IN  /\ frame.stale => \A i \in DOMAIN buffer : buffer[i] <= frame.from
             /\ frame.from # frame.to => frame.from <= t /\ t <= frame.to /\ frame.from < frame.to
             /\ frame.from = frame.to /\ ~frame.stale => t <= frame.from
<1> DEFINE n == Len(buffer)
<1>1. buffer \in Seq(Nat) /\ n \in Nat /\ n >= 1 /\ DOMAIN buffer = 1 .. n /\ Rising(buffer)
  BY DEF Ordered
<1>2. /\ Head(buffer) = buffer[1] /\ Last(buffer) = buffer[n]
      /\ n \in 1 .. n /\ 1 \in 1 .. n /\ \A i \in 1 .. n : buffer[i] \in Nat
  BY <1>1 DEF Last
<1>3. CASE n = 1 \/ t >= buffer[n]
  <2>1. sampleAt(buffer, t) = [from |-> buffer[n], to |-> buffer[n], stale |-> TRUE]
    BY <1>2, <1>3 DEF sampleAt, toFrame
  <2>2. \A i \in 1 .. n : buffer[i] <= buffer[n]
    BY <1>1, <1>2 DEF Rising
  <2>3. QED BY <2>1, <2>2, <1>1
<1>4. CASE ~(n = 1 \/ t >= buffer[n]) /\ t <= buffer[1]
  <2>1. sampleAt(buffer, t) = [from |-> buffer[1], to |-> buffer[1], stale |-> FALSE]
    BY <1>2, <1>4 DEF sampleAt, toFrame
  <2>2. QED BY <2>1, <1>4
<1>5. CASE ~(n = 1 \/ t >= buffer[n]) /\ ~(t <= buffer[1])
  <2> DEFINE first == firstSpan(buffer, t)
  <2>1. sampleAt(buffer, t) = [from |-> buffer[first], to |-> buffer[first + 1], stale |-> FALSE]
    BY <1>2, <1>5 DEF sampleAt, blend
  <2>2. n >= 2 /\ buffer[1] < t /\ t < buffer[n]
    BY <1>1, <1>2, <1>5
  <2>3. first \in 1 .. n - 1 /\ spans(buffer, first, t)
    BY <2>2, SpanExists
  <2> HIDE DEF first, n
  <2>4. first \in 1 .. n /\ first + 1 \in 1 .. n /\ first < first + 1
    BY ONLY <1>1, <2>3
  <2>5. buffer[first] < buffer[first + 1]
    BY <1>1, <2>4 DEF Rising
  <2>6. buffer[first] <= t /\ t <= buffer[first + 1]
    BY <2>3 DEF spans
  <2>7. QED BY <2>1, <2>4, <2>5, <2>6, <1>2
<1>6. QED BY <1>3, <1>4, <1>5

(***************************************************************************)
(* The commands kept for replay.                                           *)
(***************************************************************************)
(* The last of the commands sent, in order, without a gap.                 *)
Newest(pending, sequence) ==
  /\ pending \in Seq(Nat) /\ Len(pending) <= sequence
  /\ \A i \in DOMAIN pending : pending[i] = (sequence - Len(pending)) + i

LEMMA IntervalSize ==
  ASSUME NEW a \in Int, NEW b \in Int, a <= b + 1
  PROVE  IsFiniteSet(a .. b) /\ Cardinality(a .. b) = b - a + 1
  BY FS_Interval

LEMMA PredictionPushed ==
  ASSUME NEW pending, NEW sequence \in Nat, Newest(pending, sequence), Len(pending) <= MaxPending
  PROVE  /\ Newest(pushPrediction(pending, sequence + 1), sequence + 1)
         /\ Len(pushPrediction(pending, sequence + 1)) <= MaxPending
<1> DEFINE n == Len(pending)
           seq == sequence + 1
<1>1. /\ pending \in Seq(Nat) /\ n \in Nat /\ DOMAIN pending = 1 .. n /\ n <= sequence
      /\ \A i \in 1 .. n : pending[i] = (sequence - n) + i
      /\ seq \in Nat /\ MaxPending \in Nat /\ MaxPending >= 1 /\ n <= MaxPending
  <2>1. pending \in Seq(Nat) /\ n <= sequence /\ \A i \in DOMAIN pending : pending[i] = (sequence - n) + i
    BY DEF Newest
  <2>2. MaxPending \in Nat /\ MaxPending >= 1
    BY ClientConstants
  <2>3. n \in Nat /\ DOMAIN pending = 1 .. n
    BY ONLY <2>1
  <2>4. QED BY <2>1, <2>2, <2>3
<1>2. CASE n = MaxPending
  <2> DEFINE p == Append(Tail(pending), seq)
  <2>1. /\ Tail(pending) \in Seq(Nat) /\ Len(Tail(pending)) = n - 1
        /\ \A i \in 1 .. n - 1 : Tail(pending)[i] = pending[i + 1]
    BY <1>1, <1>2
  <2> HIDE DEF n, seq
  <2>2. /\ p \in Seq(Nat) /\ Len(p) = n /\ DOMAIN p = 1 .. n
        /\ \A i \in 1 .. n : p[i] = IF i <= n - 1 THEN Tail(pending)[i] ELSE seq
    <3>1. n - 1 \in Nat /\ (n - 1) + 1 = n
      BY ONLY <1>1, <1>2
    <3>2. QED BY <2>1, <1>1, <3>1
  <2>3. ASSUME NEW i \in 1 .. n PROVE p[i] = (seq - n) + i
    <3>1. CASE i <= n - 1
      <4>1. i \in 1 .. n - 1 /\ i + 1 \in 1 .. n
        BY ONLY <1>1, <3>1, i \in 1 .. n
      <4>2. p[i] = (sequence - n) + (i + 1)
        BY <4>1, <3>1, <2>1, <2>2, <1>1
      <4>3. QED BY ONLY <4>2, <4>1, <1>1, i \in 1 .. n, sequence \in Nat DEF seq
    <3>2. CASE ~(i <= n - 1)
      <4>1. i = n /\ p[i] = seq
        BY <3>2, <2>2, <1>1
      <4>2. QED BY ONLY <4>1, <1>1
    <3>3. QED BY <3>1, <3>2
  <2>4. pushPrediction(pending, seq) = p
    BY <1>2 DEF pushPrediction, n
  <2>5. n <= seq
    BY ONLY <1>1, sequence \in Nat DEF seq
  <2>6. Newest(p, seq)
    BY <2>2, <2>3, <2>5 DEF Newest
  <2>7. QED BY <2>2, <2>4, <2>6, <1>1 DEF seq
<1>3. CASE n # MaxPending
  <2> DEFINE p == Append(pending, seq)
  <2>1. /\ p \in Seq(Nat) /\ Len(p) = n + 1 /\ DOMAIN p = 1 .. n + 1
        /\ \A i \in 1 .. n + 1 : p[i] = IF i <= n THEN pending[i] ELSE seq
    BY <1>1
  <2> HIDE DEF n, seq
  <2>2. ASSUME NEW i \in 1 .. n + 1 PROVE p[i] = (seq - (n + 1)) + i
    <3>1. CASE i <= n
      <4>1. i \in 1 .. n
        BY ONLY <1>1, <3>1, i \in 1 .. n + 1
      <4>2. p[i] = (sequence - n) + i
        BY <4>1, <3>1, <2>1, <1>1
      <4>3. QED BY ONLY <4>2, <4>1, <1>1, sequence \in Nat DEF seq
    <3>2. CASE ~(i <= n)
      <4>1. i = n + 1 /\ p[i] = seq
        BY <3>2, <2>1, <1>1
      <4>2. QED BY ONLY <4>1, <1>1
    <3>3. QED BY <3>1, <3>2
  <2>3. pushPrediction(pending, seq) = p
    BY <1>3 DEF pushPrediction, n
  <2>4. n + 1 <= seq /\ n + 1 <= MaxPending
    BY ONLY <1>1, <1>3, sequence \in Nat DEF seq
  <2>5. Newest(p, seq)
    BY <2>1, <2>2, <2>4 DEF Newest
  <2>6. QED BY <2>1, <2>3, <2>4, <2>5 DEF seq
<1>4. QED BY <1>2, <1>3

(* What an acknowledgement leaves is again the newest.                     *)
LEMMA AckDrops ==
  ASSUME NEW pending, NEW sequence \in Nat, Newest(pending, sequence), NEW ack \in Nat
  PROVE  /\ Newest(above(pending, ack), sequence) /\ Len(above(pending, ack)) <= Len(pending)
         /\ \A i \in DOMAIN above(pending, ack) :
              /\ above(pending, ack)[i] > ack
              /\ \E j \in DOMAIN pending : above(pending, ack)[i] = pending[j]
<1> DEFINE n == Len(pending)
           kept == {i \in DOMAIN pending : pending[i] > ack}
           nth(k) == CHOOSE i \in kept : Cardinality({j \in kept : j <= i}) = k
           base == sequence - n
           gone == IF ack <= base THEN 0 ELSE IF ack >= sequence THEN n ELSE ack - base
           m == n - gone
<1>1. /\ pending \in Seq(Nat) /\ n \in Nat /\ DOMAIN pending = 1 .. n /\ n <= sequence
      /\ \A i \in 1 .. n : pending[i] = base + i
  BY DEF Newest
<1> HIDE DEF n
<1>2. base \in Nat /\ gone \in 0 .. n /\ base + n = sequence
  BY ONLY <1>1, sequence \in Nat, ack \in Nat
<1>3. \A i \in 1 .. n : base + i > ack <=> i \in gone + 1 .. n
  BY ONLY <1>1, <1>2, sequence \in Nat, ack \in Nat
<1>4. kept = gone + 1 .. n
  <2>1. gone + 1 .. n \subseteq 1 .. n
    BY ONLY <1>1, <1>2
  <2>2. QED BY <1>1, <1>3, <2>1
<1> HIDE DEF gone, base, kept
<1>5. m \in Nat /\ gone \in Nat /\ m <= n /\ gone + m = n /\ gone + 1 \in Int /\ gone + 1 <= n + 1
      /\ n - (gone + 1) + 1 = m
  BY ONLY <1>1, <1>2
<1>6. Cardinality(kept) = m
  BY ONLY <1>1, <1>4, <1>5, IntervalSize
<1>7. ASSUME NEW i \in kept PROVE Cardinality({j \in kept : j <= i}) = i - gone
  <2>1. i \in gone + 1 .. n
    BY <1>4
  <2>2. {j \in gone + 1 .. n : j <= i} = gone + 1 .. i
    BY ONLY <2>1, <1>1, <1>5
  <2>3. i \in Int /\ gone + 1 <= i + 1 /\ i - (gone + 1) + 1 = i - gone
    BY ONLY <2>1, <1>1, <1>5
  <2>4. Cardinality(gone + 1 .. i) = i - gone
    BY ONLY <2>3, <1>5, IntervalSize
  <2>5. QED BY <1>4, <2>2, <2>4
<1>8. ASSUME NEW k \in 1 .. m PROVE nth(k) = gone + k /\ gone + k \in 1 .. n
  <2>1. gone + k \in gone + 1 .. n /\ (gone + k) - gone = k /\ gone + k \in 1 .. n
    BY ONLY <1>5, <1>1, k \in 1 .. m
  <2>2. gone + k \in kept /\ Cardinality({j \in kept : j <= gone + k}) = k
    BY <2>1, <1>4, <1>7
  <2>3. ASSUME NEW i \in kept, Cardinality({j \in kept : j <= i}) = k PROVE i = gone + k
    <3>1. i - gone = k /\ i \in gone + 1 .. n
      BY <2>3, <1>7, <1>4
    <3>2. QED BY ONLY <3>1, <1>5, <1>1
  <2>4. QED BY <2>1, <2>2, <2>3
<1>9. above(pending, ack) = [k \in 1 .. m |-> pending[nth(k)]]
  <2>1. above(pending, ack) = [k \in 1 .. Cardinality(kept) |-> pending[nth(k)]]
    BY DEF above, kept
  <2>2. QED BY <2>1, <1>6
<1> HIDE DEF nth, m
<1> DEFINE a == above(pending, ack)
<1>10. ASSUME NEW k \in 1 .. m
       PROVE  /\ a[k] = pending[gone + k] /\ gone + k \in DOMAIN pending /\ a[k] = base + (gone + k)
              /\ a[k] \in Nat /\ gone + k \in kept
  <2>1. a[k] = pending[gone + k] /\ gone + k \in 1 .. n
    BY <1>8, <1>9
  <2>2. gone + k \in kept
    <3>1. gone + k \in gone + 1 .. n
      BY ONLY <1>5, <2>1, k \in 1 .. m
    <3>2. QED BY <3>1, <1>4
  <2>3. QED BY <2>1, <2>2, <1>1
<1>11. a \in Seq(Nat) /\ Len(a) = m /\ DOMAIN a = 1 .. m
  <2>1. a \in [1 .. m -> Nat]
    BY <1>9, <1>10
  <2>2. QED BY <2>1, <1>5
<1>12. ASSUME NEW k \in 1 .. m PROVE a[k] = (sequence - m) + k
  <2>1. base + (gone + k) = (sequence - m) + k
    BY ONLY <1>1, <1>2, <1>5, k \in 1 .. m, sequence \in Nat
  <2>2. QED BY <2>1, <1>10
<1>13. m <= sequence
  BY ONLY <1>1, <1>5, sequence \in Nat
<1>14. Newest(a, sequence)
  BY <1>11, <1>12, <1>13 DEF Newest
<1>15. ASSUME NEW k \in 1 .. m PROVE a[k] > ack /\ \E j \in DOMAIN pending : a[k] = pending[j]
  BY <1>10 DEF kept
<1>16. QED BY <1>5, <1>11, <1>14, <1>15 DEF n

(* The newest command of a queue.                                          *)
LEMMA AppliedIs ==
  ASSUME NEW queue, NEW bound \in Nat, NEW ack \in 0 .. bound,
         \A i \in DOMAIN queue : queue[i].seq \in 0 .. bound
  PROVE  /\ applied(ack, queue) \in 0 .. bound /\ ack <= applied(ack, queue)
         /\ \A i \in DOMAIN queue : queue[i].seq <= applied(ack, queue)
         /\ \/ applied(ack, queue) = ack
            \/ \E i \in DOMAIN queue : applied(ack, queue) = queue[i].seq
<1> DEFINE S == {ack} \cup {queue[i].seq : i \in DOMAIN queue}
<1>1. S \in SUBSET Nat /\ S # {} /\ S \subseteq 0 .. bound /\ \A x \in S : x <= bound
  OBVIOUS
<1>2. applied(ack, queue) = Max(S)
  BY DEF applied
<1> HIDE DEF S
<1>3. Max(S) \in S /\ \A x \in S : x <= Max(S)
  BY <1>1, MaxOfBounded
<1>4. QED BY <1>1, <1>2, <1>3 DEF S

EngineStates == {"initialising", "cancelled", "running", "destroyed"}
Input == [type : {"input"}, seq : 1 .. MaxCommands]
Leave == [type : {"leave"}]
Told == [type : {"joined", "died"}]
        \cup [type : {"snapshot"}, time : Nat, ack : 0 .. MaxCommands, self : BOOLEAN]
Engine == [alive : BOOLEAN, predicting : BOOLEAN, sequence : 0 .. MaxCommands, polled : BOOLEAN,
           pending : Seq(Nat), ack : 0 .. MaxCommands, buffer : Seq(Nat)]
Guard == [lastSeq : 0 .. MaxCommands, budget : 0 .. Burst, suspicion : 0 .. Suspicious]
Seat == [held : BOOLEAN, socket : Nat, gone : BOOLEAN, shadowbanned : BOOLEAN]
Queued == [seq : 1 .. MaxCommands, socket : Nat]
Snake == [alive : BOOLEAN, lastAckSeq : 0 .. MaxCommands, queue : Seq(Queued)]

(* The page, its sockets and what is under way on them. *)
PageTyped ==
  /\ engines \in Seq(EngineStates)
  /\ status \in {"idle", "connected", "reconnecting", "disconnected"}
  /\ outbox \in Seq(Input)
  /\ up \in Seq(Seq(Input \cup Leave)) /\ down \in Seq(Seq(Told)) /\ Len(down) = Len(up)
  /\ conn \in {0, Len(up)}
  /\ left \in BOOLEAN /\ lost \in Nat

(* The engine: its buffers stay ordered and within their bounds. *)
EngineTyped ==
  /\ engine \in Engine
  /\ Ordered(engine.buffer) /\ Len(engine.buffer) <= BufferSize
  /\ Newest(engine.pending, engine.sequence) /\ Len(engine.pending) <= MaxPending

(* The node. *)
NodeTyped ==
  /\ DOMAIN guards \subseteq 1 .. Len(up) /\ guards \in [DOMAIN guards -> Guard]
  /\ seat \in Seat /\ (seat.held => seat.socket = Len(up) /\ Len(up) > 0)
  /\ snake \in Snake /\ (~seat.held => snake.queue = <<>>)
  /\ clock \in Nat

LEMMA ClientNats ==
  /\ BufferSize \in Nat /\ BufferSize >= 1 /\ MaxPending \in Nat /\ MaxPending >= 1
  /\ MaxJump \in Nat /\ MaxJump >= 1 /\ Burst \in Nat /\ Burst >= 1 /\ Refill \in Nat /\ Refill >= 1
  /\ Suspicious \in Nat /\ Suspicious >= 1 /\ MaxFlight \in Nat /\ MaxFlight >= 1 /\ Burst > MaxFlight
  /\ MaxMounts \in Nat /\ MaxSockets \in Nat /\ MaxCommands \in Nat /\ MaxClock \in Nat
BY ClientConstants

LEMMA EntrySet ==
  ASSUME NEW S, NEW s \in Seq(S), NEW i \in DOMAIN s, NEW v \in S
  PROVE  [s EXCEPT ![i] = v] \in Seq(S) /\ Len([s EXCEPT ![i] = v]) = Len(s)
OBVIOUS

LEMMA ClientBegins == ClientInit => PageTyped /\ EngineTyped /\ NodeTyped
<1> SUFFICES ASSUME ClientInit PROVE PageTyped /\ EngineTyped /\ NodeTyped
  OBVIOUS
<1>1. PageTyped
  <2>1. /\ engines = <<>> /\ status = "idle" /\ conn = 0 /\ outbox = <<>> /\ up = <<>> /\ down = <<>>
        /\ lost = 0 /\ left = FALSE
    BY DEF ClientInit
  <2>2. /\ engines \in Seq(EngineStates) /\ outbox \in Seq(Input)
        /\ up \in Seq(Seq(Input \cup Leave)) /\ down \in Seq(Seq(Told)) /\ Len(down) = 0 /\ Len(up) = 0
    BY <2>1, EmptySeq
  <2>3. QED BY <2>1, <2>2 DEF PageTyped
<1>2. EngineTyped
  <2>1. freshEngine \in Engine
    BY ClientNats DEF freshEngine, Engine
  <2>2. /\ freshEngine.buffer = <<>> /\ freshEngine.pending = <<>> /\ freshEngine.sequence = 0
    BY DEF freshEngine
  <2>3. QED BY <2>1, <2>2, ClientNats DEF ClientInit, EngineTyped, Ordered, Rising, Newest
<1>3. NodeTyped
  <2>1. NoSeat \in Seat /\ ~NoSeat.held
    BY DEF NoSeat, Seat
  <2>2. snake \in Snake /\ snake.queue = <<>>
    BY ClientNats DEF ClientInit, Snake
  <2>3. guards = <<>> /\ up = <<>> /\ clock = 0 /\ seat = NoSeat
    BY DEF ClientInit
  <2>4. QED BY <2>1, <2>2, <2>3 DEF NodeTyped
<1>4. QED BY <1>1, <1>2, <1>3

(* What a page that goes makes of what was on its way to it. *)
LEMMA UnreadIs ==
  ASSUME PageTyped
  PROVE  /\ unread \in Seq(Seq(Told)) /\ Len(unread) = Len(up)
         /\ \A s \in DOMAIN unread : s \in DOMAIN down /\ unread[s] \in {<<>>, down[s]}
  BY DEF unread, PageTyped

LEMMA PageTypedStep == PageTyped /\ EngineTyped /\ NodeTyped /\ ClientNext => PageTyped'
<1> SUFFICES ASSUME PageTyped, EngineTyped, NodeTyped, ClientNext PROVE PageTyped'
  OBVIOUS
<1> DEFINE n == Len(up)
<1>1. /\ engines \in Seq(EngineStates)
      /\ status \in {"idle", "connected", "reconnecting", "disconnected"}
      /\ outbox \in Seq(Input)
      /\ up \in Seq(Seq(Input \cup Leave)) /\ down \in Seq(Seq(Told)) /\ Len(down) = n
      /\ conn \in {0, n} /\ n \in Nat
      /\ left \in BOOLEAN /\ lost \in Nat
  BY DEF PageTyped
<1>2. /\ unread \in Seq(Seq(Told)) /\ Len(unread) = n
  BY UnreadIs
<1>3. conn # 0 => conn \in DOMAIN up /\ conn \in DOMAIN down
  BY <1>1
<1>4. CASE mount
  BY <1>1, <1>4 DEF mount, PageTyped, EngineStates
<1>5. CASE cleanup
  <2>1. engines' \in Seq(EngineStates)
    <3>1. /\ Current \in DOMAIN engines
          /\ engines' = [engines EXCEPT ![Current] = IF engines[Current] = "running" THEN "destroyed" ELSE "cancelled"]
      BY <1>1, <1>5 DEF cleanup, Mounted, Current
    <3>2. (IF engines[Current] = "running" THEN "destroyed" ELSE "cancelled") \in EngineStates
      BY DEF EngineStates
    <3>3. QED BY ONLY <1>1, <3>1, <3>2, EntrySet
  <2>2. QED BY <1>1, <1>2, <1>5, <2>1 DEF cleanup, PageTyped
<1>6. CASE leave
  <2>1. engines' \in Seq(EngineStates)
    <3>1. Current \in DOMAIN engines /\ engines' = [engines EXCEPT ![Current] = "destroyed"]
      BY <1>1, <1>6 DEF leave, Mounted, Current, Running
    <3>2. "destroyed" \in EngineStates
      BY DEF EngineStates
    <3>3. QED BY ONLY <1>1, <3>1, <3>2, EntrySet
  <2>2. up' \in Seq(Seq(Input \cup Leave)) /\ Len(up') = n
    <3>1. CASE conn = 0
      BY <1>1, <1>6, <3>1 DEF leave
    <3>2. CASE conn # 0
      <4>1. up' = [up EXCEPT ![conn] = Append(@, [type |-> "leave"])]
        BY <1>6, <3>2 DEF leave
      <4>2. [type |-> "leave"] \in Input \cup Leave
        BY DEF Leave
      <4>3. Append(up[conn], [type |-> "leave"]) \in Seq(Input \cup Leave)
        BY <1>1, <1>3, <3>2, <4>2
      <4>4. QED BY <1>1, <1>3, <3>2, <4>1, <4>3
    <3>3. QED BY <3>1, <3>2
  <2>3. QED BY <1>1, <1>2, <1>6, <2>1, <2>2 DEF leave, PageTyped
<1>7. CASE initialised
  <2>1. PICK i \in DOMAIN engines : engines' = [engines EXCEPT ![i] = whenReady(@)]
    BY <1>7 DEF initialised
  <2>2. engines' \in Seq(EngineStates)
    <3>1. whenReady(engines[i]) \in EngineStates
      BY DEF whenReady, EngineStates
    <3>2. QED BY ONLY <1>1, <2>1, <3>1, EntrySet
  <2>3. QED BY <1>1, <1>7, <2>2 DEF initialised, PageTyped
<1>8. CASE connect
  <2>1. outbox \in Seq(Input \cup Leave)
    BY <1>1
  <2>2. up' \in Seq(Seq(Input \cup Leave)) /\ Len(up') = n + 1
    BY <1>1, <1>8, <2>1 DEF connect
  <2>3. <<[type |-> "joined"]>> \in Seq(Told)
    BY DEF Told
  <2>4. down' \in Seq(Seq(Told)) /\ Len(down') = n + 1
    <3>1. down' = Append(down, <<[type |-> "joined"]>>) /\ down \in Seq(Seq(Told)) /\ Len(down) = n
      BY <1>1, <1>8 DEF connect
    <3>2. QED BY ONLY <2>3, <3>1
  <2>5. QED BY <1>1, <1>8, <2>2, <2>4 DEF connect, PageTyped, Opened
<1>9. CASE disconnect
  BY <1>1, <1>2, <1>9 DEF disconnect, PageTyped
<1>10. CASE connectError
  BY <1>1, <1>10 DEF connectError, PageTyped
<1>11. CASE evict \/ reap \/ interval \/ decaySuspicion
  <2>1. UNCHANGED <<engines, status, outbox, up, down, conn, left, lost>>
    BY <1>11 DEF evict, reap, interval, decaySuspicion
  <2>2. QED BY <2>1 DEF PageTyped
<1>12. CASE onFrame
  <2> DEFINE input == [type |-> "input", seq |-> engine.sequence + 1]
  <2>1. input \in Input /\ input \in Input \cup Leave
    <3>1. engine.sequence \in 0 .. MaxCommands
      BY DEF EngineTyped, Engine
    <3>2. engine.sequence < MaxCommands
      BY <1>12 DEF onFrame
    <3>3. engine.sequence + 1 \in 1 .. MaxCommands
      BY ONLY <3>1, <3>2, ClientNats
    <3>4. QED BY <3>3 DEF Input
  <2>2. UNCHANGED <<engines, status, conn, down, left, lost>>
    BY <1>12 DEF onFrame
  <2>3. \/ conn = 0 /\ outbox' = Append(outbox, input) /\ up' = up
        \/ conn # 0 /\ up' = [up EXCEPT ![conn] = Append(@, input)] /\ outbox' = outbox
    BY <1>12 DEF onFrame
  <2> HIDE DEF input
  <2>4. up' \in Seq(Seq(Input \cup Leave)) /\ Len(up') = n
    <3>1. CASE conn = 0
      BY <1>1, <2>3, <3>1
    <3>2. CASE conn # 0
      <4>1. up[conn] \in Seq(Input \cup Leave) /\ Append(up[conn], input) \in Seq(Input \cup Leave)
        BY ONLY <1>1, <1>3, <2>1, <3>2
      <4>2. up' = [up EXCEPT ![conn] = Append(up[conn], input)]
        BY ONLY <2>3, <3>2
      <4>3. QED BY ONLY <1>1, <1>3, <3>2, <4>1, <4>2, EntrySet
    <3>3. QED BY <3>1, <3>2
  <2>5. outbox' \in Seq(Input)
    <3>1. Append(outbox, input) \in Seq(Input)
      BY ONLY <1>1, <2>1
    <3>2. QED BY ONLY <1>1, <2>3, <3>1
  <2>6. QED BY <1>1, <2>2, <2>4, <2>5 DEF PageTyped
<1>13. CASE tick
  <2>1. UNCHANGED <<engines, status, conn, outbox, up, left, lost>>
    BY <1>13 DEF tick
  <2>2. PICK dies \in BOOLEAN :
          LET ack == IF snake.alive THEN applied(snake.lastAckSeq, snake.queue) ELSE snake.lastAckSeq
              died == IF dies THEN <<[type |-> "died"]>> ELSE <<>>
              shown(s) == IF Watched /\ s = seat.socket
                          THEN <<buildSnapshot(clock + 1, ack, snake.alive /\ ~dies)>> ELSE <<>>
          IN  down' = [s \in DOMAIN down |->
                         IF s = conn THEN down[s] \o died \o shown(s) ELSE down[s]]
    BY <1>13 DEF tick
  <2> DEFINE ack == IF snake.alive THEN applied(snake.lastAckSeq, snake.queue) ELSE snake.lastAckSeq
             died == IF dies THEN <<[type |-> "died"]>> ELSE <<>>
             shown(s) == IF Watched /\ s = seat.socket
                         THEN <<buildSnapshot(clock + 1, ack, snake.alive /\ ~dies)>> ELSE <<>>
  <2>3. ack \in 0 .. MaxCommands
    <3>1. snake.lastAckSeq \in 0 .. MaxCommands /\ snake.queue \in Seq(Queued)
      BY DEF NodeTyped, Snake
    <3>2. ASSUME NEW i \in DOMAIN snake.queue PROVE snake.queue[i].seq \in 0 .. MaxCommands
      <4>1. snake.queue[i] \in Queued
        BY ONLY <3>1, <3>2
      <4>2. snake.queue[i].seq \in 1 .. MaxCommands
        BY ONLY <4>1 DEF Queued
      <4>3. QED BY ONLY <4>2, ClientNats
    <3>3. applied(snake.lastAckSeq, snake.queue) \in 0 .. MaxCommands
      BY <3>1, <3>2, ClientNats, AppliedIs
    <3>4. QED BY <3>1, <3>3
  <2> HIDE DEF ack
  <2>4. died \in Seq(Told)
    <3>1. [type |-> "died"] \in Told
      BY DEF Told
    <3>2. QED BY <3>1
  <2>5. ASSUME NEW s PROVE shown(s) \in Seq(Told)
    <3>1. clock + 1 \in Nat /\ (snake.alive /\ ~dies) \in BOOLEAN
      BY DEF NodeTyped
    <3>2. buildSnapshot(clock + 1, ack, snake.alive /\ ~dies) \in Told
      BY <2>3, <3>1 DEF buildSnapshot, Told
    <3>3. QED BY <3>2
  <2>6. down' = [s \in DOMAIN down |-> IF s = conn THEN down[s] \o died \o shown(s) ELSE down[s]]
    BY <2>2 DEF ack
  <2> HIDE DEF died, shown
  <2>7. ASSUME NEW s \in DOMAIN down PROVE down[s] \o died \o shown(s) \in Seq(Told)
    BY <1>1, <2>4, <2>5
  <2> DEFINE heard(s) == IF s = conn THEN down[s] \o died \o shown(s) ELSE down[s]
  <2>8. down' \in Seq(Seq(Told)) /\ Len(down') = n
    <3>1. \A s \in 1 .. n : heard(s) \in Seq(Told)
      BY <1>1, <2>7
    <3>2. down' = [s \in 1 .. n |-> heard(s)]
      BY <1>1, <2>6
    <3> HIDE DEF heard, n
    <3>3. QED BY ONLY <1>1, <3>1, <3>2
  <2>9. QED BY <1>1, <2>1, <2>8 DEF PageTyped
<1>14. CASE onMessage
  <2>1. UNCHANGED <<engines, status, conn, outbox, up, left, lost>>
    BY <1>14 DEF onMessage
  <2>2. conn # 0 /\ down[conn] # <<>> /\ down' = [down EXCEPT ![conn] = Tail(@)]
    BY <1>14 DEF onMessage
  <2>3. down' \in Seq(Seq(Told)) /\ Len(down') = n
    <3>1. down[conn] \in Seq(Told) /\ Tail(down[conn]) \in Seq(Told)
      BY ONLY <1>1, <1>3, <2>2
    <3>2. conn \in DOMAIN down /\ down' = [down EXCEPT ![conn] = Tail(down[conn])]
      BY ONLY <1>3, <2>2
    <3>3. [down EXCEPT ![conn] = Tail(down[conn])] \in Seq(Seq(Told))
          /\ Len([down EXCEPT ![conn] = Tail(down[conn])]) = Len(down)
      <4> DEFINE rest == Tail(down[conn])
      <4>1. rest \in Seq(Told)
        BY <3>1
      <4> HIDE DEF rest
      <4>2. [down EXCEPT ![conn] = rest] \in Seq(Seq(Told)) /\ Len([down EXCEPT ![conn] = rest]) = Len(down)
        BY ONLY <1>1, <3>2, <4>1, EntrySet
      <4>3. QED BY ONLY <4>2 DEF rest
    <3>4. QED BY ONLY <1>1, <3>2, <3>3
  <2>4. QED BY <1>1, <2>1, <2>3 DEF PageTyped
<1>15. ASSUME NEW s \in 1 .. MaxSockets, closed(s) \/ onInput(s) \/ onLeave(s) PROVE PageTyped'
  <2>1. UNCHANGED <<engines, status, conn, outbox, down, left, lost>>
    BY <1>15 DEF closed, onInput, onLeave
  <2>2. s \in DOMAIN up
    BY <1>1, <1>15 DEF closed, onInput, onLeave, NodeTyped
  <2>3. up' = [up EXCEPT ![s] = <<>>] \/ (up[s] # <<>> /\ up' = [up EXCEPT ![s] = Tail(@)])
    BY <1>15 DEF closed, onInput, onLeave
  <2>4. up' \in Seq(Seq(Input \cup Leave)) /\ Len(up') = n
    <3>1. <<>> \in Seq(Input \cup Leave) /\ up[s] \in Seq(Input \cup Leave)
      BY ONLY <1>1, <2>2, EmptySeq
    <3>2. up[s] # <<>> => Tail(up[s]) \in Seq(Input \cup Leave)
      BY ONLY <3>1
    <3>3. PICK v \in Seq(Input \cup Leave) : up' = [up EXCEPT ![s] = v]
      BY ONLY <2>3, <3>1, <3>2
    <3>4. QED BY ONLY <1>1, <2>2, <3>3, EntrySet
  <2>5. QED BY <1>1, <2>1, <2>4 DEF PageTyped
<1>16. QED BY <1>4, <1>5, <1>6, <1>7, <1>8, <1>9, <1>10, <1>11, <1>12, <1>13, <1>14, <1>15 DEF ClientNext

LEMMA EngineFields ==
  ASSUME EngineTyped
  PROVE  /\ engine.alive \in BOOLEAN /\ engine.predicting \in BOOLEAN /\ engine.polled \in BOOLEAN
         /\ engine.sequence \in 0 .. MaxCommands /\ engine.sequence \in Nat
         /\ engine.ack \in 0 .. MaxCommands /\ engine.ack \in Nat
         /\ engine.pending \in Seq(Nat) /\ engine.buffer \in Seq(Nat)
         /\ Ordered(engine.buffer) /\ Len(engine.buffer) <= BufferSize
         /\ Newest(engine.pending, engine.sequence) /\ Len(engine.pending) <= MaxPending
<1>1. engine \in Engine
  BY DEF EngineTyped
<1>2. /\ engine.alive \in BOOLEAN /\ engine.predicting \in BOOLEAN /\ engine.polled \in BOOLEAN
      /\ engine.sequence \in 0 .. MaxCommands /\ engine.ack \in 0 .. MaxCommands
      /\ engine.pending \in Seq(Nat) /\ engine.buffer \in Seq(Nat)
  BY <1>1 DEF Engine
<1>3. engine.sequence \in Nat /\ engine.ack \in Nat
  BY ONLY <1>2, ClientNats
<1>4. QED BY <1>2, <1>3 DEF EngineTyped

(* What is heard on a socket is one of the messages the node sends.        *)
LEMMA HeardIs ==
  ASSUME PageTyped, conn # 0, down[conn] # <<>>
  PROVE  /\ conn \in DOMAIN down /\ down[conn] \in Seq(Told) /\ Head(down[conn]) \in Told
         /\ Head(down[conn]) = down[conn][1] /\ 1 \in DOMAIN down[conn]
<1>1. down \in Seq(Seq(Told)) /\ Len(down) = Len(up) /\ up \in Seq(Seq(Input \cup Leave)) /\ conn \in {0, Len(up)}
  BY DEF PageTyped
<1>2. conn \in DOMAIN down
  BY ONLY <1>1, conn # 0
<1>3. down[conn] \in Seq(Told)
  BY ONLY <1>1, <1>2
<1>4. QED BY ONLY <1>2, <1>3, down[conn] # <<>>

LEMMA ToldIs ==
  ASSUME NEW m \in Told
  PROVE  /\ m.type \in {"joined", "died", "snapshot"}
         /\ m.type = "snapshot" => m.time \in Nat /\ m.ack \in 0 .. MaxCommands /\ m.ack \in Nat /\ m.self \in BOOLEAN
<1>1. CASE m \in [type : {"joined", "died"}]
  BY <1>1
<1>2. CASE m \in [type : {"snapshot"}, time : Nat, ack : 0 .. MaxCommands, self : BOOLEAN]
  <2>1. m.type = "snapshot" /\ m.time \in Nat /\ m.ack \in 0 .. MaxCommands /\ m.self \in BOOLEAN
    BY <1>2
  <2>2. QED BY <2>1, ClientNats
<1>3. QED BY <1>1, <1>2 DEF Told

(* What one message makes of the engine, and what it leaves alone.         *)
LEMMA HearingIs ==
  ASSUME PageTyped, EngineTyped, onMessage
  PROVE  LET m == Head(down[conn])
         IN  \/ m.type = "joined" /\ engine' = onJoined(engine)
             \/ m.type = "died" /\ engine' = onDied(engine)
             \/ m.type = "snapshot" /\ engine' = onSnapshot(engine, m)
<1>1. conn # 0 /\ down[conn] # <<>>
  BY DEF onMessage
<1>2. Head(down[conn]).type \in {"joined", "died", "snapshot"}
  BY <1>1, HeardIs, ToldIs
<1>3. QED BY <1>2 DEF onMessage

LEMMA ReconcileIs ==
  ASSUME NEW e \in Engine, NEW ack \in 0 .. MaxCommands, Newest(e.pending, e.sequence)
  PROVE  /\ reconcile(e, ack) \in Engine
         /\ Newest(reconcile(e, ack).pending, e.sequence) /\ Len(reconcile(e, ack).pending) <= Len(e.pending)
         /\ reconcile(e, ack).pending = above(e.pending, ack)
         /\ reconcile(e, ack).ack = (IF e.ack >= ack THEN e.ack ELSE ack)
         /\ reconcile(e, ack).sequence = e.sequence /\ reconcile(e, ack).buffer = e.buffer
         /\ reconcile(e, ack).polled = e.polled /\ reconcile(e, ack).alive = e.alive
<1>1. /\ e.sequence \in 0 .. MaxCommands /\ e.ack \in 0 .. MaxCommands
  BY DEF Engine
<1>2. e.sequence \in Nat /\ e.ack \in Nat /\ ack \in Nat
  BY <1>1, ClientNats
<1> DEFINE p == above(e.pending, ack)
           a == Max({e.ack, ack})
<1>3. Newest(p, e.sequence) /\ Len(p) <= Len(e.pending)
  BY <1>2, AckDrops
<1>4. p \in Seq(Nat)
  BY <1>3 DEF Newest
<1>5. a = (IF e.ack >= ack THEN e.ack ELSE ack)
  BY <1>2, MaxOfTwo
<1>6. a \in 0 .. MaxCommands
  BY <1>1, <1>5
<1>7. reconcile(e, ack) = [e EXCEPT !.ack = a, !.pending = p]
  BY DEF reconcile
<1> HIDE DEF p, a
<1>8. [e EXCEPT !.ack = a, !.pending = p] \in Engine
  BY <1>4, <1>6 DEF Engine
<1>9. /\ reconcile(e, ack).pending = p /\ reconcile(e, ack).ack = a
      /\ reconcile(e, ack).sequence = e.sequence /\ reconcile(e, ack).buffer = e.buffer
      /\ reconcile(e, ack).polled = e.polled /\ reconcile(e, ack).alive = e.alive
  BY <1>7 DEF Engine
<1>10. QED BY <1>3, <1>5, <1>7, <1>8, <1>9 DEF p

LEMMA SnapshotHeard ==
  ASSUME EngineTyped, NEW m \in Told, m.type = "snapshot"
  PROVE  LET e == onSnapshot(engine, m)
         IN  /\ e \in Engine /\ Ordered(e.buffer) /\ Len(e.buffer) <= BufferSize
             /\ Newest(e.pending, e.sequence) /\ Len(e.pending) <= MaxPending
             /\ e.sequence = engine.sequence /\ e.polled = engine.polled /\ e.alive = engine.alive
             /\ \/ e.ack = engine.ack /\ e.pending = engine.pending
                \/ /\ e.ack = (IF engine.ack >= m.ack THEN engine.ack ELSE m.ack)
                   /\ e.pending = above(engine.pending, m.ack)
<1> DEFINE b == pushSnapshot(engine.buffer, m.time)
           seen == [engine EXCEPT !.buffer = b]
<1>1. m.time \in Nat /\ m.ack \in 0 .. MaxCommands /\ m.self \in BOOLEAN
  BY ToldIs
<1>2. Ordered(b) /\ Len(b) <= BufferSize
  BY <1>1, EngineFields, SnapshotPushed
<1>3. b \in Seq(Nat)
  BY <1>2 DEF Ordered
<1>4. engine \in Engine
  BY DEF EngineTyped
<1> HIDE DEF b
<1>5. /\ seen \in Engine /\ seen.buffer = b /\ seen.pending = engine.pending /\ seen.sequence = engine.sequence
      /\ seen.ack = engine.ack /\ seen.polled = engine.polled /\ seen.alive = engine.alive
  BY <1>3, <1>4 DEF Engine
<1>6. onSnapshot(engine, m) = IF m.self /\ engine.predicting THEN reconcile(seen, m.ack) ELSE seen
  BY DEF onSnapshot, b
<1>7. Newest(seen.pending, seen.sequence) /\ Len(seen.pending) <= MaxPending
  BY <1>5, EngineFields
<1> HIDE DEF seen
<1>8. CASE m.self /\ engine.predicting
  <2> DEFINE r == reconcile(seen, m.ack)
  <2>1. onSnapshot(engine, m) = r
    BY <1>6, <1>8
  <2>2. /\ r \in Engine /\ Newest(r.pending, seen.sequence) /\ Len(r.pending) <= Len(seen.pending)
        /\ r.pending = above(seen.pending, m.ack)
        /\ r.ack = (IF seen.ack >= m.ack THEN seen.ack ELSE m.ack)
        /\ r.sequence = seen.sequence /\ r.buffer = seen.buffer
        /\ r.polled = seen.polled /\ r.alive = seen.alive
    BY <1>1, <1>5, <1>7, ReconcileIs
  <2> HIDE DEF r
  <2>3. Len(r.pending) <= MaxPending
    <3>1. Len(r.pending) \in Nat /\ Len(seen.pending) \in Nat
      BY <2>2, <1>7 DEF Newest
    <3>2. QED BY ONLY <3>1, <2>2, <1>7, ClientNats
  <2>4. QED BY <1>2, <1>5, <2>1, <2>2, <2>3
<1>9. CASE ~(m.self /\ engine.predicting)
  BY <1>2, <1>5, <1>6, <1>7, <1>9
<1>10. QED BY <1>8, <1>9

LEMMA FreshIs ==
  /\ freshEngine \in Engine /\ Ordered(freshEngine.buffer) /\ Len(freshEngine.buffer) <= BufferSize
  /\ Newest(freshEngine.pending, freshEngine.sequence) /\ Len(freshEngine.pending) <= MaxPending
  /\ freshEngine.sequence = 0 /\ freshEngine.ack = 0 /\ freshEngine.pending = <<>> /\ freshEngine.buffer = <<>>
  /\ freshEngine.alive = FALSE /\ freshEngine.polled = FALSE
<1>1. freshEngine \in Engine
  BY ClientNats DEF freshEngine, Engine
<1>2. /\ freshEngine.buffer = <<>> /\ freshEngine.pending = <<>> /\ freshEngine.sequence = 0 /\ freshEngine.ack = 0
      /\ freshEngine.alive = FALSE /\ freshEngine.polled = FALSE
  BY DEF freshEngine
<1>3. QED BY <1>1, <1>2, ClientNats DEF Ordered, Rising, Newest

LEMMA FramePredicts ==
  ASSUME EngineTyped, onFrame
  PROVE  /\ engine' \in Engine /\ engine'.buffer = engine.buffer /\ engine'.ack = engine.ack
         /\ engine'.sequence = engine.sequence + 1 /\ engine'.polled = TRUE /\ engine'.alive = engine.alive
         /\ engine'.pending = pushPrediction(engine.pending, engine.sequence + 1)
         /\ Newest(engine'.pending, engine'.sequence) /\ Len(engine'.pending) <= MaxPending
<1> DEFINE seq == engine.sequence + 1
           p == pushPrediction(engine.pending, seq)
<1>1. engine.sequence < MaxCommands /\ engine' = [engine EXCEPT !.sequence = seq, !.polled = TRUE, !.pending = p]
  BY DEF onFrame
<1>2. engine \in Engine
  BY DEF EngineTyped
<1>3. Newest(p, seq) /\ Len(p) <= MaxPending
  BY EngineFields, PredictionPushed
<1>4. p \in Seq(Nat)
  BY <1>3 DEF Newest
<1>5. seq \in 0 .. MaxCommands
  <2>1. engine.sequence \in Nat
    BY EngineFields
  <2>2. QED BY ONLY <2>1, <1>1, ClientNats
<1> HIDE DEF p
<1>6. QED
  <2> HIDE DEF seq
  <2>1. /\ engine' \in Engine /\ engine'.buffer = engine.buffer /\ engine'.ack = engine.ack
        /\ engine'.sequence = seq /\ engine'.polled = TRUE /\ engine'.alive = engine.alive
        /\ engine'.pending = p
    BY <1>1, <1>2, <1>4, <1>5 DEF Engine
  <2>2. QED BY <2>1, <1>3 DEF p, seq

LEMMA IntervalIs ==
  ASSUME EngineTyped, interval
  PROVE  /\ engine' \in Engine /\ engine'.buffer = engine.buffer /\ engine'.ack = engine.ack
         /\ engine'.sequence = engine.sequence /\ engine'.polled = FALSE /\ engine'.alive = engine.alive
         /\ engine'.pending = engine.pending /\ engine.polled
  BY DEF interval, EngineTyped, Engine

LEMMA JoinedIs ==
  ASSUME EngineTyped
  PROVE  /\ onJoined(engine) \in Engine /\ onJoined(engine).buffer = engine.buffer /\ onJoined(engine).ack = 0
         /\ onJoined(engine).sequence = engine.sequence /\ onJoined(engine).polled = engine.polled
         /\ onJoined(engine).pending = <<>>
         /\ onDied(engine) \in Engine /\ onDied(engine).buffer = engine.buffer /\ onDied(engine).ack = engine.ack
         /\ onDied(engine).sequence = engine.sequence /\ onDied(engine).polled = engine.polled
         /\ onDied(engine).pending = engine.pending
<1>1. engine \in Engine /\ <<>> \in Seq(Nat) /\ 0 \in 0 .. MaxCommands
  BY ClientNats DEF EngineTyped
<1>2. onDied(engine) = [engine EXCEPT !.alive = FALSE]
  BY DEF onDied
<1>3. onJoined(engine) = [engine EXCEPT !.alive = TRUE, !.predicting = TRUE, !.pending = <<>>, !.ack = 0]
  BY DEF onJoined
<1>4. QED BY <1>1, <1>2, <1>3 DEF Engine

LEMMA EngineTypedStep ==
  PageTyped /\ EngineTyped /\ ClientNext => EngineTyped'
<1> SUFFICES ASSUME PageTyped, EngineTyped, ClientNext PROVE EngineTyped'
  OBVIOUS
<1>1. CASE cleanup \/ leave
  <2>1. engine' = freshEngine
    BY <1>1 DEF cleanup, leave
  <2>2. QED BY <2>1, FreshIs DEF EngineTyped
<1>2. CASE onFrame
  <2>1. Ordered(engine'.buffer) /\ Len(engine'.buffer) <= BufferSize
    BY <1>2, FramePredicts, EngineFields
  <2>2. QED BY <1>2, <2>1, FramePredicts DEF EngineTyped
<1>3. CASE interval
  <2>1. Ordered(engine'.buffer) /\ Len(engine'.buffer) <= BufferSize
        /\ Newest(engine'.pending, engine'.sequence) /\ Len(engine'.pending) <= MaxPending
    BY <1>3, IntervalIs, EngineFields
  <2>2. QED BY <1>3, <2>1, IntervalIs DEF EngineTyped
<1>4. CASE onMessage
  <2> DEFINE m == Head(down[conn])
  <2>1. m \in Told
    BY <1>4, HeardIs DEF onMessage
  <2>2. CASE m.type = "joined" /\ engine' = onJoined(engine)
    <3>1. /\ Ordered(engine'.buffer) /\ Len(engine'.buffer) <= BufferSize /\ engine' \in Engine
          /\ engine'.pending = <<>> /\ engine'.sequence \in Nat
      BY <2>2, JoinedIs, EngineFields
    <3>2. QED BY <3>1, ClientNats DEF EngineTyped, Newest
  <2>3. CASE m.type = "died" /\ engine' = onDied(engine)
    <3>1. /\ Ordered(engine'.buffer) /\ Len(engine'.buffer) <= BufferSize /\ engine' \in Engine
          /\ Newest(engine'.pending, engine'.sequence) /\ Len(engine'.pending) <= MaxPending
      BY <2>3, JoinedIs, EngineFields
    <3>2. QED BY <3>1 DEF EngineTyped
  <2>4. CASE m.type = "snapshot" /\ engine' = onSnapshot(engine, m)
    BY <2>1, <2>4, SnapshotHeard DEF EngineTyped
  <2>5. QED BY <1>4, <2>2, <2>3, <2>4, HearingIs
<1>5. CASE UNCHANGED engine
  BY <1>5 DEF EngineTyped
<1>6. CASE mount \/ initialised \/ connect \/ disconnect \/ connectError \/ evict \/ reap \/ decaySuspicion \/ tick
  <2>1. UNCHANGED engine
    BY <1>6 DEF mount, initialised, connect, disconnect, connectError, evict, reap, decaySuspicion, tick
  <2>2. QED BY <1>5, <2>1
<1>7. ASSUME NEW s \in 1 .. MaxSockets, closed(s) \/ onInput(s) \/ onLeave(s) PROVE EngineTyped'
  <2>1. UNCHANGED engine
    BY <1>7 DEF closed, onInput, onLeave
  <2>2. QED BY <1>5, <2>1
<1>8. QED BY <1>1, <1>2, <1>3, <1>4, <1>6, <1>7 DEF ClientNext

LEMMA NodeFields ==
  ASSUME NodeTyped
  PROVE  /\ DOMAIN guards \subseteq 1 .. Len(up) /\ guards = [s \in DOMAIN guards |-> guards[s]]
         /\ \A s \in DOMAIN guards : guards[s] \in Guard
         /\ seat \in Seat /\ (seat.held => seat.socket = Len(up) /\ Len(up) > 0)
         /\ snake \in Snake /\ (~seat.held => snake.queue = <<>>) /\ clock \in Nat
         /\ snake.alive \in BOOLEAN /\ snake.lastAckSeq \in 0 .. MaxCommands /\ snake.lastAckSeq \in Nat
         /\ snake.queue \in Seq(Queued)
         /\ seat.held \in BOOLEAN /\ seat.socket \in Nat /\ seat.gone \in BOOLEAN /\ seat.shadowbanned \in BOOLEAN
<1>1. guards \in [DOMAIN guards -> Guard]
  BY DEF NodeTyped
<1>2. guards = [s \in DOMAIN guards |-> guards[s]] /\ \A s \in DOMAIN guards : guards[s] \in Guard
  BY <1>1
<1>3. seat \in Seat /\ snake \in Snake
  BY DEF NodeTyped
<1>4. /\ snake.alive \in BOOLEAN /\ snake.lastAckSeq \in 0 .. MaxCommands /\ snake.queue \in Seq(Queued)
  BY <1>3 DEF Snake
<1>5. seat.held \in BOOLEAN /\ seat.socket \in Nat /\ seat.gone \in BOOLEAN /\ seat.shadowbanned \in BOOLEAN
  BY <1>3 DEF Seat
<1>6. snake.lastAckSeq \in Nat
  BY ONLY <1>4, ClientNats
<1>7. QED BY <1>2, <1>3, <1>4, <1>5, <1>6 DEF NodeTyped

LEMMA GuardIs ==
  ASSUME NEW g \in Guard
  PROVE  /\ g.lastSeq \in 0 .. MaxCommands /\ g.lastSeq \in Nat /\ g.budget \in 0 .. Burst /\ g.budget \in Nat
         /\ g.suspicion \in 0 .. Suspicious /\ g.suspicion \in Nat
<1>1. g.lastSeq \in 0 .. MaxCommands /\ g.budget \in 0 .. Burst /\ g.suspicion \in 0 .. Suspicious
  BY DEF Guard
<1>2. QED BY ONLY <1>1, ClientNats

LEMMA QueuedIs ==
  ASSUME NEW c \in Queued
  PROVE  c.seq \in 1 .. MaxCommands /\ c.seq \in Nat /\ c.socket \in Nat
<1>1. c.seq \in 1 .. MaxCommands /\ c.socket \in Nat
  BY DEF Queued
<1>2. QED BY ONLY <1>1, ClientNats

LEMMA ValidatedIs ==
  ASSUME NEW g \in Guard, NEW seq \in 1 .. MaxCommands
  PROVE  LET v == validateInputBatch(g, seq)
         IN  /\ v \in Guard
             /\ v.lastSeq = (IF rejectionOf(g, seq) = "none" THEN seq ELSE g.lastSeq)
             /\ v.budget = (IF rejectionOf(g, seq) = "rate-limited" THEN g.budget ELSE g.budget - 1)
             /\ rejectionOf(g, seq) = "none" => v.suspicion = g.suspicion /\ seq > g.lastSeq
             /\ (g.budget >= 1 /\ seq = g.lastSeq + 1) => rejectionOf(g, seq) = "none"
<1> DEFINE reason == rejectionOf(g, seq)
           w == weight(reason)
           l == IF reason = "none" THEN seq ELSE g.lastSeq
           b == IF reason = "rate-limited" THEN g.budget ELSE g.budget - 1
           p == Min({Suspicious, g.suspicion + w})
<1>1. /\ g.lastSeq \in 0 .. MaxCommands /\ g.lastSeq \in Nat /\ g.budget \in 0 .. Burst /\ g.budget \in Nat
      /\ g.suspicion \in 0 .. Suspicious /\ g.suspicion \in Nat /\ seq \in Nat
  <2>1. seq \in Nat
    BY ONLY seq \in 1 .. MaxCommands, ClientNats
  <2>2. QED BY <2>1, GuardIs
<1>2. w \in Nat /\ (reason = "none" => w = 0)
  BY DEF weight
<1>3. /\ g.budget < 1 => reason = "rate-limited"
      /\ g.budget >= 1 /\ isSequenceValid(g.lastSeq, seq) => reason = "none"
      /\ g.budget >= 1 /\ ~isSequenceValid(g.lastSeq, seq) => reason \in {"stale-sequence", "sequence-jump"}
  <2> DEFINE valid == isSequenceValid(g.lastSeq, seq)
  <2>1. reason = IF g.budget < 1 THEN "rate-limited"
              ELSE IF valid THEN "none"
              ELSE IF seq <= g.lastSeq THEN "stale-sequence" ELSE "sequence-jump"
    BY DEF rejectionOf
  <2>2. valid \in BOOLEAN /\ (valid => ~(seq <= g.lastSeq))
    BY <1>1 DEF isSequenceValid
  <2> HIDE DEF valid, reason
  <2>3. g.budget < 1 => reason = "rate-limited"
    BY ONLY <2>1, <2>2, <1>1
  <2>4. g.budget >= 1 /\ valid => reason = "none"
    BY ONLY <2>1, <2>2, <1>1
  <2>5. g.budget >= 1 /\ ~valid => reason \in {"stale-sequence", "sequence-jump"}
    BY ONLY <2>1, <2>2, <1>1
  <2>6. QED BY <2>3, <2>4, <2>5 DEF valid
<1>4. validateInputBatch(g, seq) = [lastSeq |-> l, budget |-> b, suspicion |-> p]
  BY DEF validateInputBatch
<1> HIDE DEF reason, w
<1>5. p = IF Suspicious <= g.suspicion + w THEN Suspicious ELSE g.suspicion + w
  <2>1. g.suspicion + w \in Int /\ Suspicious \in Int
    BY ONLY <1>1, <1>2, ClientNats
  <2>2. QED BY ONLY <2>1, MinOfTwo
<1>6. p \in 0 .. Suspicious /\ (reason = "none" => p = g.suspicion)
  <2> HIDE DEF p
  <2>1. QED BY ONLY <1>1, <1>2, <1>5, ClientNats
<1>7. l \in 0 .. MaxCommands
  BY ONLY <1>1, seq \in 1 .. MaxCommands, ClientNats
<1>8. b \in 0 .. Burst
  BY ONLY <1>1, <1>3, ClientNats
<1>9. /\ reason = "none" => seq > g.lastSeq
      /\ (g.budget >= 1 /\ seq = g.lastSeq + 1) => reason = "none"
  <2>1. (seq = g.lastSeq + 1) => isSequenceValid(g.lastSeq, seq)
    BY <1>1, ClientNats DEF isSequenceValid
  <2>2. reason = "none" => isSequenceValid(g.lastSeq, seq)
    BY ONLY <1>1, <1>3
  <2>3. isSequenceValid(g.lastSeq, seq) => seq > g.lastSeq
    BY DEF isSequenceValid
  <2>4. QED BY ONLY <2>1, <2>2, <2>3, <1>3
<1> HIDE DEF l, b, p
<1>10. [lastSeq |-> l, budget |-> b, suspicion |-> p] \in Guard
  BY <1>6, <1>7, <1>8 DEF Guard
<1>11. QED BY <1>4, <1>6, <1>9, <1>10 DEF l, b, reason

LEMMA RefilledIs ==
  ASSUME NEW g \in Guard
  PROVE  /\ refilled(g) \in Guard /\ refilled(g).lastSeq = g.lastSeq /\ refilled(g).suspicion = g.suspicion
         /\ refilled(g).budget = (IF Burst <= g.budget + Refill THEN Burst ELSE g.budget + Refill)
<1> DEFINE b == Min({Burst, g.budget + Refill})
<1>1. g.budget \in Nat /\ Burst \in Int /\ g.budget + Refill \in Int /\ Refill \in Nat /\ Burst \in Nat
  <2>1. g.budget \in Nat
    BY GuardIs
  <2>2. QED BY ONLY <2>1, ClientNats
<1>2. b = IF Burst <= g.budget + Refill THEN Burst ELSE g.budget + Refill
  BY <1>1, MinOfTwo
<1>3. b \in 0 .. Burst
  <2> HIDE DEF b
  <2>1. QED BY ONLY <1>1, <1>2
<1>4. refilled(g) = [g EXCEPT !.budget = b]
  BY DEF refilled
<1> HIDE DEF b
<1>5. QED BY <1>2, <1>3, <1>4 DEF Guard

(* The command at the head of a socket's queue.                            *)
LEMMA CommandIs ==
  ASSUME PageTyped, NodeTyped, NEW s \in DOMAIN guards, up[s] # <<>>, Head(up[s]).type = "input"
  PROVE  /\ s \in DOMAIN up /\ s \in Nat /\ s >= 1 /\ up[s] \in Seq(Input \cup Leave)
         /\ Head(up[s]) = up[s][1] /\ Head(up[s]) \in Input
         /\ Head(up[s]).seq \in 1 .. MaxCommands /\ Head(up[s]).seq \in Nat
<1>1. up \in Seq(Seq(Input \cup Leave)) /\ DOMAIN guards \subseteq 1 .. Len(up)
  BY DEF PageTyped, NodeTyped
<1>2. s \in DOMAIN up /\ s \in Nat /\ s >= 1
  BY ONLY <1>1, s \in DOMAIN guards
<1>3. up[s] \in Seq(Input \cup Leave)
  BY ONLY <1>1, <1>2
<1>4. Head(up[s]) = up[s][1] /\ Head(up[s]) \in Input \cup Leave
  BY ONLY <1>3, up[s] # <<>>
<1>5. Head(up[s]) \notin Leave
  BY Head(up[s]).type = "input" DEF Leave
<1>6. Head(up[s]).seq \in 1 .. MaxCommands
  BY <1>4, <1>5 DEF Input
<1>7. Head(up[s]).seq \in Nat
  BY ONLY <1>6, ClientNats
<1>8. QED BY <1>2, <1>3, <1>4, <1>5, <1>6, <1>7

(* How many sockets there have been.                                       *)
LEMMA OpenedIs ==
  ASSUME PageTyped, NodeTyped, ClientNext
  PROVE  /\ ~connect => Len(up') = Len(up) /\ DOMAIN up' = DOMAIN up
         /\ connect => Len(up') = Len(up) + 1 /\ up' = Append(up, outbox)
<1>1. up \in Seq(Seq(Input \cup Leave))
  BY DEF PageTyped
<1>2. connect => Len(up') = Len(up) + 1 /\ up' = Append(up, outbox)
  BY <1>1 DEF connect
<1>3. ASSUME NEW v, NEW i, up' = [up EXCEPT ![i] = v] PROVE Len(up') = Len(up) /\ DOMAIN up' = DOMAIN up
  BY <1>1, <1>3
<1>4. CASE leave \/ onFrame
  <2>1. up' = up \/ \E v : up' = [up EXCEPT ![conn] = v]
    BY <1>4 DEF leave, onFrame
  <2>2. QED BY <1>2, <1>3, <2>1
<1>5. ASSUME NEW s \in 1 .. MaxSockets, closed(s) \/ onInput(s) \/ onLeave(s)
      PROVE  Len(up') = Len(up) /\ DOMAIN up' = DOMAIN up
  <2>1. \E v : up' = [up EXCEPT ![s] = v]
    BY <1>5 DEF closed, onInput, onLeave
  <2>2. QED BY <1>3, <2>1
<1>6. CASE mount \/ cleanup \/ initialised \/ disconnect \/ connectError \/ evict \/ reap
             \/ interval \/ decaySuspicion \/ tick \/ onMessage
  <2>1. up' = up
    BY <1>6 DEF mount, cleanup, initialised, disconnect, connectError, evict, reap,
         interval, decaySuspicion, tick, onMessage
  <2>2. QED BY <2>1, <1>2
<1>7. QED BY <1>2, <1>4, <1>5, <1>6 DEF ClientNext

LEMMA NodeKept ==
  ASSUME NodeTyped, UNCHANGED <<guards, seat, snake, clock>>, Len(up') = Len(up)
  PROVE  NodeTyped'
BY DEF NodeTyped

(* removeSeat, as its fields.                                              *)
LEMMA RemovedIs ==
  ASSUME NodeTyped, removeSeat
  PROVE  /\ seat' = NoSeat /\ NoSeat \in Seat /\ NoSeat.held = FALSE
         /\ snake' \in Snake /\ snake'.queue = <<>> /\ snake'.alive = FALSE
         /\ snake'.lastAckSeq = snake.lastAckSeq
<1>1. seat' = NoSeat /\ snake' = [snake EXCEPT !.alive = FALSE, !.queue = <<>>]
  BY DEF removeSeat
<1>2. NoSeat \in Seat /\ NoSeat.held = FALSE
  BY DEF NoSeat, Seat
<1>3. snake \in Snake /\ <<>> \in Seq(Queued)
  BY NodeFields
<1>4. QED BY <1>1, <1>2, <1>3 DEF Snake

LEMMA ConnectSeats ==
  ASSUME PageTyped, NodeTyped, connect
  PROVE  /\ up' = Append(up, outbox) /\ Len(up') = Len(up) + 1
         /\ guards' = put(guards, Len(up) + 1, createGuardState) /\ createGuardState \in Guard
         /\ seat' \in Seat /\ seat'.held /\ seat'.socket = Len(up) + 1
         /\ snake' \in Snake
         /\ seat.held => snake' = snake
         /\ ~seat.held => snake'.queue = <<>> /\ snake'.lastAckSeq = 0 /\ snake'.alive
<1>1. up' = Append(up, outbox) /\ Len(up') = Len(up) + 1 /\ Len(up) \in Nat
  BY DEF connect, PageTyped
<1>2. guards' = put(guards, Len(up) + 1, createGuardState)
  BY DEF connect, Opened
<1>3. createGuardState \in Guard
  BY ClientNats DEF createGuardState, Guard
<1>4. seat \in Seat /\ snake \in Snake /\ Len(up) + 1 \in Nat
  BY <1>1, NodeFields
<1>5. CASE seat.held
  <2>1. seat' = [seat EXCEPT !.socket = Len(up) + 1, !.gone = FALSE] /\ snake' = snake
    BY <1>5 DEF connect, Opened
  <2>2. QED BY <1>1, <1>2, <1>3, <1>4, <1>5, <2>1 DEF Seat
<1>6. CASE ~seat.held
  <2>1. /\ seat' = [NoSeat EXCEPT !.held = TRUE, !.socket = Len(up) + 1]
        /\ snake' = [alive |-> TRUE, lastAckSeq |-> 0, queue |-> <<>>]
    BY <1>6 DEF connect, Opened
  <2>2. seat' \in Seat /\ seat'.held /\ seat'.socket = Len(up) + 1
    BY <1>4, <2>1 DEF NoSeat, Seat
  <2>3. snake' \in Snake /\ snake'.queue = <<>> /\ snake'.lastAckSeq = 0 /\ snake'.alive
    BY <2>1, ClientNats DEF Snake
  <2>4. QED BY <1>1, <1>2, <1>3, <1>6, <2>2, <2>3
<1>7. QED BY <1>5, <1>6

(* What one tick makes of the snake, the clock and the sockets.            *)
LEMMA TickIs ==
  ASSUME NodeTyped, tick
  PROVE  /\ clock' = clock + 1 /\ UNCHANGED <<guards, seat, up>> /\ seat.held
         /\ snake' \in Snake /\ snake'.queue = <<>> /\ (snake'.alive => snake.alive)
         /\ \/ snake'.lastAckSeq = snake.lastAckSeq
            \/ snake.alive /\ snake'.lastAckSeq = applied(snake.lastAckSeq, snake.queue)
<1>1. UNCHANGED <<guards, seat, up>> /\ clock' = clock + 1 /\ seat.held
  BY DEF tick
<1>2. PICK dies \in BOOLEAN :
        LET ack == IF snake.alive THEN applied(snake.lastAckSeq, snake.queue) ELSE snake.lastAckSeq
        IN  snake' = [alive |-> snake.alive /\ ~dies, lastAckSeq |-> ack, queue |-> <<>>]
  BY DEF tick
<1> DEFINE ack == IF snake.alive THEN applied(snake.lastAckSeq, snake.queue) ELSE snake.lastAckSeq
<1>3. ack \in 0 .. MaxCommands
  <2>1. snake.lastAckSeq \in 0 .. MaxCommands /\ snake.queue \in Seq(Queued)
    BY NodeFields
  <2>2. ASSUME NEW i \in DOMAIN snake.queue PROVE snake.queue[i].seq \in 0 .. MaxCommands
    <3>1. snake.queue[i] \in Queued
      BY ONLY <2>1, <2>2
    <3>2. snake.queue[i].seq \in 1 .. MaxCommands
      BY <3>1, QueuedIs
    <3>3. QED BY ONLY <3>2, ClientNats
  <2>3. applied(snake.lastAckSeq, snake.queue) \in 0 .. MaxCommands
    BY <2>1, <2>2, ClientNats, AppliedIs
  <2>4. QED BY <2>1, <2>3
<1>4. snake' = [alive |-> snake.alive /\ ~dies, lastAckSeq |-> ack, queue |-> <<>>]
  BY <1>2
<1>5. (snake.alive /\ ~dies) \in BOOLEAN /\ <<>> \in Seq(Queued)
  OBVIOUS
<1>6. \/ ack = snake.lastAckSeq
      \/ snake.alive /\ ack = applied(snake.lastAckSeq, snake.queue)
  OBVIOUS
<1> HIDE DEF ack
<1>7. snake' \in Snake /\ snake'.queue = <<>> /\ (snake'.alive => snake.alive) /\ snake'.lastAckSeq = ack
  BY <1>3, <1>4, <1>5 DEF Snake
<1>8. QED BY <1>1, <1>6, <1>7

(* What the handler of one command does to the guard, the snake and the seat. *)
LEMMA InputIs ==
  ASSUME PageTyped, NodeTyped, NEW s \in 1 .. MaxSockets, onInput(s)
  PROVE  LET command == Head(up[s])
             g == validateInputBatch(guards[s], command.seq)
         IN  /\ s \in DOMAIN guards /\ up[s] # <<>> /\ command.type = "input"
             /\ up' = [up EXCEPT ![s] = Tail(@)]
             /\ guards' = [guards EXCEPT ![s] = g] /\ g \in Guard
             /\ snake' \in Snake /\ snake'.alive = snake.alive /\ snake'.lastAckSeq = snake.lastAckSeq
             /\ \/ snake' = snake
                \/ /\ rejectionOf(guards[s], command.seq) = "none" /\ seat.held
                   /\ snake'.queue = Append(snake.queue, [seq |-> command.seq, socket |-> s])
                   /\ [seq |-> command.seq, socket |-> s] \in Queued
             /\ seat' \in Seat /\ seat'.held = seat.held /\ seat'.socket = seat.socket
<1> DEFINE command == Head(up[s])
           g == validateInputBatch(guards[s], command.seq)
           accepted == rejectionOf(guards[s], command.seq) = "none"
           heard == accepted /\ seat.held /\ ~seat.shadowbanned
           entry == [seq |-> command.seq, socket |-> s]
<1>1. /\ s \in DOMAIN guards /\ up[s] # <<>> /\ command.type = "input"
      /\ up' = [up EXCEPT ![s] = Tail(@)]
      /\ guards' = [guards EXCEPT ![s] = g]
      /\ snake' = IF heard THEN [snake EXCEPT !.queue = Append(@, entry)] ELSE snake
      /\ seat' = IF shouldShadowban(g) /\ seat.held THEN [seat EXCEPT !.shadowbanned = TRUE] ELSE seat
  BY DEF onInput
<1>2. command.seq \in 1 .. MaxCommands /\ s \in Nat
  BY <1>1, CommandIs
<1>3. entry \in Queued
  BY <1>2 DEF Queued
<1>4. g \in Guard
  BY <1>1, <1>2, NodeFields, ValidatedIs
<1>5. seat' \in Seat /\ seat'.held = seat.held /\ seat'.socket = seat.socket
  <2>1. seat \in Seat /\ (seat' = [seat EXCEPT !.shadowbanned = TRUE] \/ seat' = seat)
    BY <1>1, NodeFields
  <2>2. QED BY ONLY <2>1 DEF Seat
<1>6. /\ snake' \in Snake /\ snake'.alive = snake.alive /\ snake'.lastAckSeq = snake.lastAckSeq
      /\ snake' = snake \/ (accepted /\ seat.held /\ snake'.queue = Append(snake.queue, entry))
  <2>1. snake \in Snake /\ snake.queue \in Seq(Queued)
    BY NodeFields
  <2> HIDE DEF entry
  <2>2. CASE heard
    <3> DEFINE queue == Append(snake.queue, entry)
    <3>1. queue \in Seq(Queued)
      BY ONLY <2>1, <1>3
    <3>2. snake' = [snake EXCEPT !.queue = queue]
      BY <1>1, <2>2
    <3> HIDE DEF queue
    <3>3. /\ snake' \in Snake /\ snake'.alive = snake.alive /\ snake'.lastAckSeq = snake.lastAckSeq
          /\ snake'.queue = queue
      BY ONLY <2>1, <3>1, <3>2 DEF Snake
    <3>4. QED BY <3>3, <2>2 DEF queue
  <2>3. CASE ~heard
    <3>1. snake' = snake
      BY <1>1, <2>3
    <3>2. QED BY <3>1, <2>1
  <2>4. QED BY <2>2, <2>3
<1>7. QED BY <1>1, <1>3, <1>4, <1>5, <1>6

LEMMA NodeTypedStep ==
  PageTyped /\ EngineTyped /\ NodeTyped /\ ClientNext => NodeTyped'
<1> SUFFICES ASSUME PageTyped, EngineTyped, NodeTyped, ClientNext PROVE NodeTyped'
  OBVIOUS
<1>1. Len(up) \in Nat /\ (~connect => Len(up') = Len(up))
  BY OpenedIs DEF PageTyped
<1>2. CASE mount \/ cleanup \/ leave \/ initialised \/ disconnect \/ connectError \/ onFrame \/ onMessage
  <2>1. UNCHANGED <<guards, seat, snake, clock>>
    BY <1>2 DEF mount, cleanup, leave, initialised, disconnect, connectError, onFrame, onMessage, serverSide
  <2>2. Len(up') = Len(up)
    <3>1. CASE connect
      <4>1. guards' = put(guards, Len(up) + 1, createGuardState)
        BY <3>1, ConnectSeats
      <4>2. Len(up) + 1 \in DOMAIN guards'
        BY <4>1 DEF put
      <4>3. Len(up) + 1 \in 1 .. Len(up)
        BY <4>2, <2>1, NodeFields
      <4>4. QED BY ONLY <4>3, <1>1
    <3>2. QED BY <1>1, <3>1
  <2>3. QED BY <2>1, <2>2, NodeKept
<1>3. CASE connect
  <2>1. /\ Len(up') = Len(up) + 1 /\ guards' = put(guards, Len(up) + 1, createGuardState) /\ createGuardState \in Guard
        /\ seat' \in Seat /\ seat'.held /\ seat'.socket = Len(up) + 1 /\ snake' \in Snake
    BY <1>3, ConnectSeats
  <2>2. DOMAIN guards' \subseteq 1 .. Len(up')
    BY <1>1, <2>1 DEF put, NodeTyped
  <2>3. guards' \in [DOMAIN guards' -> Guard]
    BY <2>1 DEF put, NodeTyped
  <2>4. clock' = clock
    BY <1>3 DEF connect
  <2>5. QED BY <1>1, <2>1, <2>2, <2>3, <2>4 DEF NodeTyped
<1>4. CASE evict
  <2>1. UNCHANGED <<guards, up, clock>> /\ removeSeat
    BY <1>4 DEF evict
  <2>2. QED BY <2>1, RemovedIs DEF NodeTyped
<1>5. CASE reap
  BY <1>5 DEF reap, NodeTyped
<1>6. CASE interval
  <2>1. UNCHANGED <<seat, snake, clock, up>> /\ guards' = [s \in DOMAIN guards |-> refilled(guards[s])]
    BY <1>6 DEF interval
  <2>2. guards' \in [DOMAIN guards' -> Guard] /\ DOMAIN guards' = DOMAIN guards
    BY <2>1, NodeFields, RefilledIs
  <2>3. QED BY <2>1, <2>2 DEF NodeTyped
<1>7. CASE decaySuspicion
  <2>1. /\ UNCHANGED <<seat, snake, clock, up>>
        /\ guards' = [s \in DOMAIN guards |-> [guards[s] EXCEPT !.suspicion = Max({0, @ - 2})]]
    BY <1>7 DEF decaySuspicion
  <2>2. ASSUME NEW g \in Guard PROVE [g EXCEPT !.suspicion = Max({0, g.suspicion - 2})] \in Guard
    <3>1. g.suspicion \in 0 .. Suspicious /\ g.suspicion \in Nat
      BY GuardIs
    <3> DEFINE p == Max({0, g.suspicion - 2})
    <3>2. p = IF 0 >= g.suspicion - 2 THEN 0 ELSE g.suspicion - 2
      BY <3>1, MaxOfTwo
    <3> HIDE DEF p
    <3>3. p \in 0 .. Suspicious
      BY ONLY <3>1, <3>2, ClientNats
    <3>4. [g EXCEPT !.suspicion = p] \in Guard
      BY <3>3 DEF Guard
    <3>5. QED BY <3>4 DEF p
  <2>3. guards' \in [DOMAIN guards' -> Guard] /\ DOMAIN guards' = DOMAIN guards
    BY <2>1, <2>2, NodeFields
  <2>4. QED BY <2>1, <2>3 DEF NodeTyped
<1>8. CASE tick
  <2>1. clock' \in Nat
    BY <1>8, TickIs, NodeFields
  <2>2. QED BY <1>8, <2>1, TickIs DEF NodeTyped
<1>9. ASSUME NEW s \in 1 .. MaxSockets, closed(s) PROVE NodeTyped'
  <2>1. /\ guards' = Restrict(guards, DOMAIN guards \ {s}) /\ seat' = [seat EXCEPT !.gone = seat.held]
        /\ UNCHANGED <<snake, clock>>
    BY <1>9 DEF closed, markDisconnected
  <2>2. Len(up') = Len(up)
    <3>1. up' = [up EXCEPT ![s] = <<>>]
      BY <1>9 DEF closed
    <3>2. QED BY <3>1 DEF PageTyped
  <2>3. seat' \in Seat /\ seat'.held = seat.held /\ seat'.socket = seat.socket
    BY <2>1, NodeFields DEF Seat
  <2>4. DOMAIN guards' \subseteq DOMAIN guards /\ guards' \in [DOMAIN guards' -> Guard]
    BY <2>1, NodeFields DEF Restrict
  <2>5. QED BY <2>1, <2>2, <2>3, <2>4 DEF NodeTyped
<1>10. ASSUME NEW s \in 1 .. MaxSockets, onInput(s) PROVE NodeTyped'
  <2> DEFINE g == validateInputBatch(guards[s], Head(up[s]).seq)
  <2>1. /\ s \in DOMAIN guards /\ up' = [up EXCEPT ![s] = Tail(@)]
        /\ guards' = [guards EXCEPT ![s] = g] /\ g \in Guard
        /\ snake' \in Snake
        /\ snake' = snake \/ seat.held
        /\ seat' \in Seat /\ seat'.held = seat.held /\ seat'.socket = seat.socket
    BY <1>10, InputIs
  <2> HIDE DEF g
  <2>2. Len(up') = Len(up)
    BY <2>1 DEF PageTyped
  <2>3. guards' \in [DOMAIN guards' -> Guard] /\ DOMAIN guards' = DOMAIN guards
    BY <2>1, NodeFields
  <2>4. clock' = clock
    BY <1>10 DEF onInput
  <2>5. ~seat'.held => snake'.queue = <<>>
    BY <2>1, NodeFields
  <2>6. QED BY <2>1, <2>2, <2>3, <2>4, <2>5 DEF NodeTyped
<1>11. ASSUME NEW s \in 1 .. MaxSockets, onLeave(s) PROVE NodeTyped'
  <2>1. UNCHANGED <<guards, clock>> /\ removeSeat /\ up' = [up EXCEPT ![s] = Tail(@)]
    BY <1>11 DEF onLeave
  <2>2. Len(up') = Len(up)
    BY <2>1 DEF PageTyped
  <2>3. QED BY <2>1, <2>2, RemovedIs DEF NodeTyped
<1>12. QED BY <1>2, <1>3, <1>4, <1>5, <1>6, <1>7, <1>8, <1>9, <1>10, <1>11 DEF ClientNext

PageInv ==
  /\ \A i \in DOMAIN engines : engines[i] \in {"initialising", "running"} => i = Len(engines)
  /\ (conn # 0 => Running /\ outbox = <<>>)
  /\ (status = "connected") <=> (conn # 0)
  /\ (~Running => engine = freshEngine /\ outbox = <<>>)
  /\ (left => ~Mounted)

LEMMA MountedIs ==
  ASSUME PageTyped
  PROVE  /\ Len(engines) \in Nat /\ DOMAIN engines = 1 .. Len(engines)
         /\ Mounted <=> (Len(engines) > 0 /\ engines[Len(engines)] \in {"initialising", "running"})
         /\ Running <=> (Len(engines) > 0 /\ engines[Len(engines)] = "running")
<1>1. engines \in Seq(EngineStates)
  BY DEF PageTyped
<1>2. Len(engines) \in Nat /\ DOMAIN engines = 1 .. Len(engines)
  BY <1>1
<1>3. Len(engines) > 0 => engines[Len(engines)] \in EngineStates
  BY <1>1, <1>2
<1>4. Last(engines) = engines[Len(engines)]
  BY DEF Last
<1>5. QED BY <1>2, <1>3, <1>4 DEF Mounted, Running, EngineStates

LEMMA PageInvStep ==
  PageTyped /\ PageTyped' /\ NodeTyped /\ PageInv /\ ClientNext => PageInv'
<1> SUFFICES ASSUME PageTyped, PageTyped', NodeTyped, PageInv, ClientNext PROVE PageInv'
  OBVIOUS
<1> DEFINE n == Len(engines)
<1>1. /\ n \in Nat /\ DOMAIN engines = 1 .. n /\ engines \in Seq(EngineStates)
      /\ Mounted <=> (n > 0 /\ engines[n] \in {"initialising", "running"})
      /\ Running <=> (n > 0 /\ engines[n] = "running")
  BY MountedIs DEF PageTyped
<1>2. /\ Mounted' <=> (Len(engines') > 0 /\ engines'[Len(engines')] \in {"initialising", "running"})
      /\ Running' <=> (Len(engines') > 0 /\ engines'[Len(engines')] = "running")
  <2>1. engines' \in Seq(EngineStates)
    BY DEF PageTyped
  <2>2. Len(engines') \in Nat
    BY <2>1
  <2>3. Len(engines') > 0 => engines'[Len(engines')] \in EngineStates
    BY <2>1, <2>2
  <2>4. Last(engines') = engines'[Len(engines')]
    BY DEF Last
  <2>5. QED BY <2>2, <2>3, <2>4 DEF Mounted, Running, EngineStates
<1>3. /\ \A i \in 1 .. n : engines[i] \in {"initialising", "running"} => i = n
      /\ (conn # 0 => Running /\ outbox = <<>>)
      /\ (status = "connected") <=> (conn # 0)
      /\ (~Running => engine = freshEngine /\ outbox = <<>>)
      /\ (left => ~Mounted)
  BY <1>1 DEF PageInv
<1> HIDE DEF n
<1>4. CASE mount
  <2>1. /\ engines' = Append(engines, "initialising") /\ status' = "idle" /\ ~Mounted /\ ~left
        /\ UNCHANGED <<engine, conn, outbox, left>>
    BY <1>4 DEF mount
  <2>2. /\ Len(engines') = n + 1 /\ DOMAIN engines' = 1 .. n + 1 /\ engines'[n + 1] = "initialising"
        /\ \A i \in 1 .. n : engines'[i] = engines[i]
    BY <1>1, <2>1 DEF n
  <2>3. ~Running /\ conn = 0
    BY <1>1, <1>3, <2>1
  <2>4. ~Running'
    BY <1>2, <2>2
  <2>5. \A i \in 1 .. n + 1 : engines'[i] \in {"initialising", "running"} => i = n + 1
    <3>1. \A i \in 1 .. n : engines[i] \notin {"initialising", "running"}
      BY <1>1, <1>3, <2>1
    <3>2. \A i \in 1 .. n + 1 : i \in 1 .. n \/ i = n + 1
      BY <1>1
    <3>3. QED BY <2>2, <3>1, <3>2
  <2>6. QED BY <1>3, <2>1, <2>2, <2>3, <2>4, <2>5 DEF PageInv
<1>5. CASE cleanup \/ leave
  <2>1. PICK gone \in {"destroyed", "cancelled"} : engines' = [engines EXCEPT ![n] = gone]
    BY <1>5 DEF cleanup, leave, Current, n
  <2>2. /\ engine' = freshEngine /\ status' = "idle" /\ conn' = 0 /\ outbox' = <<>> /\ Mounted
    BY <1>5 DEF cleanup, leave, Running
  <2>3. /\ Len(engines') = n /\ DOMAIN engines' = 1 .. n /\ engines'[n] = gone /\ n > 0
        /\ \A i \in 1 .. n : i # n => engines'[i] = engines[i]
    <3>1. n > 0 /\ n \in 1 .. n
      BY <1>1, <2>2
    <3>2. Len(engines) = n
      BY DEF n
    <3>3. DOMAIN engines' = 1 .. n /\ Len(engines') = n
      BY <1>1, <2>1, <3>2
    <3>4. engines'[n] = gone /\ \A i \in 1 .. n : i # n => engines'[i] = engines[i]
      BY <1>1, <2>1, <3>1
    <3>5. QED BY <3>1, <3>3, <3>4
  <2>4. ~Running' /\ ~Mounted'
    BY <1>2, <2>3, <2>1
  <2>5. \A i \in 1 .. n : engines'[i] \in {"initialising", "running"} => i = n
    BY <1>3, <2>3
  <2>6. QED BY <2>2, <2>3, <2>4, <2>5 DEF PageInv
<1>6. CASE initialised
  <2>1. PICK i \in 1 .. n : /\ engines[i] \in {"initialising", "cancelled"}
                            /\ engines' = [engines EXCEPT ![i] = whenReady(engines[i])]
    BY <1>1, <1>6 DEF initialised
  <2>2. UNCHANGED <<engine, status, conn, outbox, left>>
    BY <1>6 DEF initialised
  <2>3. /\ Len(engines') = n /\ DOMAIN engines' = 1 .. n /\ n > 0
        /\ engines'[i] = (IF engines[i] = "cancelled" THEN "destroyed" ELSE "running")
        /\ \A j \in 1 .. n : j # i => engines'[j] = engines[j]
    BY <1>1, <2>1 DEF n, whenReady
  <2>4. \A j \in 1 .. n : engines'[j] \in {"initialising", "running"} => j = n
    BY <1>3, <2>1, <2>3
  <2>5. Mounted' <=> Mounted
    BY <1>1, <1>2, <1>3, <2>1, <2>3
  <2>6. Running => Running'
    BY <1>1, <1>2, <1>3, <2>1, <2>3
  <2>7. QED BY <1>3, <2>2, <2>3, <2>4, <2>5, <2>6 DEF PageInv
<1>7. ASSUME UNCHANGED engines PROVE /\ (Running' <=> Running) /\ (Mounted' <=> Mounted)
                                     /\ \A i \in DOMAIN engines' : engines'[i] \in {"initialising", "running"} => i = Len(engines')
  BY <1>1, <1>3, <1>7 DEF Running, Mounted, n
<1>8. CASE connect
  <2>1. UNCHANGED engines /\ Running /\ conn' # 0 /\ status' = "connected" /\ outbox' = <<>> /\ UNCHANGED left
    <3>1. Len(up) + 1 # 0
      BY DEF PageTyped
    <3>2. QED BY <1>8, <3>1 DEF connect, Opened
  <2>2. QED BY <1>3, <1>7, <2>1 DEF PageInv
<1>9. CASE disconnect \/ connectError
  <2>1. UNCHANGED <<engines, engine, outbox, left>> /\ conn' = 0 /\ status' # "connected"
    BY <1>9 DEF disconnect, connectError
  <2>2. QED BY <1>3, <1>7, <2>1 DEF PageInv
<1>10. CASE onFrame \/ interval \/ onMessage
  <2>1. UNCHANGED <<engines, status, conn, left>> /\ (conn' # 0 => outbox' = outbox)
    BY <1>10 DEF onFrame, interval, onMessage
  <2>2. Running
    BY <1>3, <1>10 DEF onFrame, interval, onMessage
  <2>3. QED BY <1>3, <1>7, <2>1, <2>2 DEF PageInv
<1>11. CASE evict \/ reap \/ decaySuspicion \/ tick
  <2>1. UNCHANGED <<engines, engine, status, conn, outbox, left>>
    BY <1>11 DEF evict, reap, decaySuspicion, tick
  <2>2. QED BY <1>3, <1>7, <2>1 DEF PageInv
<1>12. ASSUME NEW s \in 1 .. MaxSockets, closed(s) \/ onInput(s) \/ onLeave(s) PROVE PageInv'
  <2>1. UNCHANGED <<engines, engine, status, conn, outbox, left>>
    BY <1>12 DEF closed, onInput, onLeave
  <2>2. QED BY <1>3, <1>7, <2>1 DEF PageInv
<1>13. QED BY <1>4, <1>5, <1>6, <1>8, <1>9, <1>10, <1>11, <1>12 DEF ClientNext

(* The commands on their way, and those held for a connection, are in the  *)
(* order they were made, whatever socket each is on.                       *)
Sent(u, o, last) ==
  /\ u \in Seq(Seq(Input)) /\ o \in Seq(Input)
  /\ \A s \in DOMAIN u : \A i \in DOMAIN u[s] : u[s][i].seq <= last
  /\ \A s \in DOMAIN u : \A i, j \in DOMAIN u[s] : i < j => u[s][i].seq < u[s][j].seq
  /\ \A s, t \in DOMAIN u : s < t => \A i \in DOMAIN u[s] : \A j \in DOMAIN u[t] : u[s][i].seq < u[t][j].seq
  /\ \A s \in DOMAIN u : \A i \in DOMAIN u[s] : \A j \in DOMAIN o : u[s][i].seq < o[j].seq
  /\ \A i \in DOMAIN o : o[i].seq <= last
  /\ \A i, j \in DOMAIN o : i < j => o[i].seq < o[j].seq

(* What the tick has yet to apply is older than what is still on its way,  *)
(* and what the seat's own socket brought is newer than what is applied.   *)
Steered(u, o, queue, ack) ==
  /\ \A i \in DOMAIN o : ack < o[i].seq
  /\ \A s \in DOMAIN u : s = Len(u) => \A i \in DOMAIN u[s] : ack < u[s][i].seq
  /\ \A k \in DOMAIN queue : queue[k].socket <= Len(u)
  /\ \A k \in DOMAIN queue : queue[k].socket = Len(u) => queue[k].seq > ack
  /\ \A k \in DOMAIN queue : \A s \in DOMAIN u :
       s >= queue[k].socket => \A i \in DOMAIN u[s] : queue[k].seq < u[s][i].seq
  /\ \A k \in DOMAIN queue : \A i \in DOMAIN o : queue[k].seq < o[i].seq

(* v is u with some socket emptied or relieved of its first message.       *)
Shrunk(u, v) ==
  /\ v \in Seq(Seq(Input)) /\ Len(v) = Len(u) /\ DOMAIN v = DOMAIN u
  /\ \A s \in DOMAIN u : \E off \in Nat : \A i \in DOMAIN v[s] : i + off \in DOMAIN u[s] /\ v[s][i] = u[s][i + off]

LEMMA InputSeq ==
  ASSUME NEW c \in Input
  PROVE  c.seq \in Nat /\ c.seq >= 1 /\ c.seq \in 1 .. MaxCommands
<1>1. c.seq \in 1 .. MaxCommands
  BY DEF Input
<1>2. QED BY ONLY <1>1, ClientNats

LEMMA SentFacts ==
  ASSUME NEW u, NEW o, NEW last \in Nat, Sent(u, o, last)
  PROVE  /\ Len(u) \in Nat /\ DOMAIN u = 1 .. Len(u)
         /\ \A s \in DOMAIN u : /\ u[s] \in Seq(Input) /\ Len(u[s]) \in Nat /\ DOMAIN u[s] = 1 .. Len(u[s])
                                /\ \A i \in DOMAIN u[s] : u[s][i].seq \in Nat /\ u[s][i].seq >= 1
         /\ Len(o) \in Nat /\ DOMAIN o = 1 .. Len(o) /\ \A i \in DOMAIN o : o[i].seq \in Nat /\ o[i].seq >= 1
<1>1. u \in Seq(Seq(Input)) /\ o \in Seq(Input)
  BY DEF Sent
<1>2. Len(u) \in Nat /\ DOMAIN u = 1 .. Len(u) /\ Len(o) \in Nat /\ DOMAIN o = 1 .. Len(o)
  BY <1>1
<1>3. ASSUME NEW s \in DOMAIN u
      PROVE  /\ u[s] \in Seq(Input) /\ Len(u[s]) \in Nat /\ DOMAIN u[s] = 1 .. Len(u[s])
             /\ \A i \in DOMAIN u[s] : u[s][i].seq \in Nat /\ u[s][i].seq >= 1
  <2>1. u[s] \in Seq(Input)
    BY ONLY <1>1, <1>3
  <2>2. Len(u[s]) \in Nat /\ DOMAIN u[s] = 1 .. Len(u[s]) /\ \A i \in DOMAIN u[s] : u[s][i] \in Input
    BY ONLY <2>1
  <2>3. QED BY <2>1, <2>2, InputSeq
<1>4. \A i \in DOMAIN o : o[i] \in Input
  BY ONLY <1>1
<1>5. QED BY <1>2, <1>3, <1>4, InputSeq

(* A socket relieved of its first message, or emptied.                     *)
LEMMA ShrunkBy ==
  ASSUME NEW u \in Seq(Seq(Input)), NEW s \in DOMAIN u, NEW v \in {<<>>, Tail(u[s])}, v = <<>> \/ u[s] # <<>>
  PROVE  Shrunk(u, [u EXCEPT ![s] = v])
<1> DEFINE w == [u EXCEPT ![s] = v]
<1>1. u[s] \in Seq(Input)
  OBVIOUS
<1>2. v \in Seq(Input)
  <2>1. <<>> \in Seq(Input) /\ (u[s] # <<>> => Tail(u[s]) \in Seq(Input))
    BY ONLY <1>1
  <2>2. QED BY <2>1
<1>3. w \in Seq(Seq(Input)) /\ Len(w) = Len(u)
  BY ONLY <1>2, u \in Seq(Seq(Input)), s \in DOMAIN u, EntrySet
<1>4. DOMAIN w = DOMAIN u /\ w[s] = v /\ \A t \in DOMAIN u : t # s => w[t] = u[t]
  OBVIOUS
<1> HIDE DEF w
<1>5. ASSUME NEW t \in DOMAIN u
      PROVE  \E off \in Nat : \A i \in DOMAIN w[t] : i + off \in DOMAIN u[t] /\ w[t][i] = u[t][i + off]
  <2>1. CASE t # s
    <3>1. w[t] = u[t] /\ u[t] \in Seq(Input)
      BY <1>4, <1>5, <2>1
    <3>2. \A i \in DOMAIN w[t] : i + 0 \in DOMAIN u[t] /\ w[t][i] = u[t][i + 0]
      BY ONLY <3>1
    <3>3. QED BY <3>2
  <2>2. CASE t = s /\ v = <<>>
    <3>1. DOMAIN w[t] = {} /\ 0 \in Nat
      BY <1>4, <2>2
    <3>2. QED BY ONLY <3>1
  <2>3. CASE t = s /\ v # <<>>
    <3>1. w[t] = Tail(u[t]) /\ u[t] # <<>> /\ u[t] \in Seq(Input)
      BY <1>1, <1>4, <2>3
    <3>2. \A i \in DOMAIN w[t] : i + 1 \in DOMAIN u[t] /\ w[t][i] = u[t][i + 1]
      BY ONLY <3>1
    <3>3. QED BY <3>2
  <2>4. QED BY <2>1, <2>2, <2>3
<1>6. QED BY <1>3, <1>4, <1>5 DEF Shrunk, w

LEMMA ShrunkItself ==
  ASSUME NEW u \in Seq(Seq(Input))
  PROVE  Shrunk(u, u)
<1>1. ASSUME NEW t \in DOMAIN u
      PROVE  \E off \in Nat : \A i \in DOMAIN u[t] : i + off \in DOMAIN u[t] /\ u[t][i] = u[t][i + off]
  <2>1. u[t] \in Seq(Input)
    OBVIOUS
  <2>2. \A i \in DOMAIN u[t] : i + 0 \in DOMAIN u[t] /\ u[t][i] = u[t][i + 0]
    BY ONLY <2>1
  <2>3. QED BY <2>2
<1>2. QED BY <1>1 DEF Shrunk

LEMMA SentShrinks ==
  ASSUME NEW u, NEW v, NEW o, NEW last \in Nat, Sent(u, o, last), Shrunk(u, v)
  PROVE  Sent(v, o, last)
<1>1. \A s \in DOMAIN v : \A i \in DOMAIN v[s] : \E j \in DOMAIN u[s] : v[s][i] = u[s][j]
  BY DEF Shrunk
<1>2. DOMAIN v = DOMAIN u /\ v \in Seq(Seq(Input))
  BY DEF Shrunk
<1>3. ASSUME NEW s \in DOMAIN v, NEW i \in DOMAIN v[s], NEW j \in DOMAIN v[s], i < j
      PROVE  v[s][i].seq < v[s][j].seq
  <2>1. PICK off \in Nat : \A k \in DOMAIN v[s] : k + off \in DOMAIN u[s] /\ v[s][k] = u[s][k + off]
    BY <1>2 DEF Shrunk
  <2>2. DOMAIN u[s] = 1 .. Len(u[s]) /\ Len(u[s]) \in Nat
    BY <1>2, SentFacts
  <2>3. v[s] \in Seq(Input)
    BY ONLY <1>2, <1>3
  <2>4. i \in Nat /\ j \in Nat
    BY ONLY <2>3, <1>3
  <2>5. i + off < j + off
    BY ONLY <2>4, <2>1, <1>3
  <2>6. QED BY <1>2, <1>3, <2>1, <2>5 DEF Sent
<1>4. v \in Seq(Seq(Input)) /\ o \in Seq(Input)
  BY <1>2 DEF Sent
<1>5. /\ \A s \in DOMAIN v : \A i \in DOMAIN v[s] : v[s][i].seq <= last
      /\ \A s \in DOMAIN v : \A i \in DOMAIN v[s] : \A j \in DOMAIN o : v[s][i].seq < o[j].seq
  BY <1>1, <1>2 DEF Sent
<1>6. ASSUME NEW s \in DOMAIN v, NEW t \in DOMAIN v, s < t, NEW i \in DOMAIN v[s], NEW j \in DOMAIN v[t]
      PROVE  v[s][i].seq < v[t][j].seq
  <2>1. PICK a \in DOMAIN u[s] : v[s][i] = u[s][a]
    BY <1>1
  <2>2. PICK b \in DOMAIN u[t] : v[t][j] = u[t][b]
    BY <1>1
  <2>3. u[s][a].seq < u[t][b].seq
    BY <1>2, <1>6 DEF Sent
  <2>4. QED BY <2>1, <2>2, <2>3
<1>7. QED BY <1>3, <1>4, <1>5, <1>6 DEF Sent

LEMMA SteeredShrinks ==
  ASSUME NEW u, NEW v, NEW o, NEW queue, NEW ack, Steered(u, o, queue, ack), Shrunk(u, v)
  PROVE  Steered(v, o, queue, ack)
<1>1. \A s \in DOMAIN v : \A i \in DOMAIN v[s] : \E j \in DOMAIN u[s] : v[s][i] = u[s][j]
  BY DEF Shrunk
<1>2. DOMAIN v = DOMAIN u /\ Len(v) = Len(u)
  BY DEF Shrunk
<1>3. QED BY <1>1, <1>2 DEF Steered

(* A new command, on the connection or held for the next one.              *)
LEMMA CommandHeld ==
  ASSUME NEW u, NEW o, NEW last \in Nat, Sent(u, o, last), NEW c \in Input, c.seq = last + 1,
         NEW queue, NEW ack \in Nat, Steered(u, o, queue, ack), ack <= last,
         \A k \in DOMAIN queue : queue[k].seq \in Nat /\ queue[k].seq <= last
  PROVE  Sent(u, Append(o, c), last + 1) /\ Steered(u, Append(o, c), queue, ack)
<1> DEFINE p == Append(o, c)
<1>1. o \in Seq(Input)
  BY DEF Sent
<1>2. /\ p \in Seq(Input) /\ DOMAIN p = 1 .. Len(o) + 1 /\ Len(o) \in Nat /\ DOMAIN o = 1 .. Len(o)
      /\ \A i \in 1 .. Len(o) : p[i] = o[i]
      /\ p[Len(o) + 1] = c
  BY ONLY <1>1, c \in Input
<1> DEFINE m == Len(o)
<1>3. \A i \in DOMAIN p : (i \in DOMAIN o /\ p[i] = o[i]) \/ (i = m + 1 /\ p[i] = c)
  BY ONLY <1>2
<1>4. \A i, j \in DOMAIN p : i < j => i \in DOMAIN o /\ p[i] = o[i]
  <2>1. m \in Nat
    BY <1>2
  <2>2. DOMAIN p = 1 .. m + 1 /\ DOMAIN o = 1 .. m /\ \A i \in 1 .. m : p[i] = o[i]
    BY <1>2
  <2> HIDE DEF m, p
  <2>3. QED BY ONLY <2>1, <2>2
<1> HIDE DEF p, m
<1>5. /\ \A i \in DOMAIN o : o[i].seq \in Nat
      /\ \A s \in DOMAIN u : \A i \in DOMAIN u[s] : u[s][i].seq \in Nat
  BY SentFacts
<1>6. Sent(u, p, last + 1)
  <2>1. \A s \in DOMAIN u : \A i \in DOMAIN u[s] : u[s][i].seq <= last + 1 /\ u[s][i].seq < c.seq
    BY <1>5 DEF Sent
  <2>2. \A i \in DOMAIN o : o[i].seq < c.seq /\ o[i].seq <= last + 1
    BY <1>5 DEF Sent
  <2>3. \A i \in DOMAIN p : p[i].seq <= last + 1
    BY <1>3, <2>2
  <2>4. \A i, j \in DOMAIN p : i < j => p[i].seq < p[j].seq
    <3>1. ASSUME NEW i \in DOMAIN p, NEW j \in DOMAIN p, i < j PROVE p[i].seq < p[j].seq
      <4>1. i \in DOMAIN o /\ p[i] = o[i]
        BY <1>4, <3>1
      <4>2. QED BY <1>3, <2>2, <3>1, <4>1 DEF Sent
    <3>2. QED BY <3>1
  <2>5. \A s \in DOMAIN u : \A i \in DOMAIN u[s] : \A j \in DOMAIN p : u[s][i].seq < p[j].seq
    BY <1>3, <2>1 DEF Sent
  <2>6. QED BY <1>2, <2>1, <2>3, <2>4, <2>5 DEF Sent
<1>7. Steered(u, p, queue, ack)
  <2>1. \A k \in DOMAIN queue : queue[k].seq < c.seq
    OBVIOUS
  <2>2. \A i \in DOMAIN p : ack < p[i].seq
    BY <1>3 DEF Steered
  <2>3. \A k \in DOMAIN queue : \A i \in DOMAIN p : queue[k].seq < p[i].seq
    BY <1>3, <2>1 DEF Steered
  <2>4. QED BY <2>2, <2>3 DEF Steered
<1>8. QED BY <1>6, <1>7 DEF p

LEMMA CommandSent ==
  ASSUME NEW u, NEW last \in Nat, Sent(u, <<>>, last), NEW c \in Input, c.seq = last + 1, Len(u) > 0,
         NEW queue, NEW ack \in Nat, Steered(u, <<>>, queue, ack), ack <= last,
         \A k \in DOMAIN queue : queue[k].seq \in Nat /\ queue[k].seq <= last
  PROVE  LET v == [u EXCEPT ![Len(u)] = Append(@, c)]
         IN  Sent(v, <<>>, last + 1) /\ Steered(v, <<>>, queue, ack)
<1> DEFINE n == Len(u)
           p == Append(u[n], c)
           v == [u EXCEPT ![n] = p]
<1>1. u \in Seq(Seq(Input)) /\ n \in Nat /\ n \in DOMAIN u /\ DOMAIN u = 1 .. n
  BY DEF Sent
<1>2. u[n] \in Seq(Input)
  BY ONLY <1>1
<1>3. /\ p \in Seq(Input) /\ DOMAIN p = 1 .. Len(u[n]) + 1 /\ Len(u[n]) \in Nat /\ DOMAIN u[n] = 1 .. Len(u[n])
      /\ \A i \in 1 .. Len(u[n]) : p[i] = u[n][i]
      /\ p[Len(u[n]) + 1] = c
  BY ONLY <1>2, c \in Input
<1> DEFINE m == Len(u[n])
<1>4. \A i \in DOMAIN p : (i \in DOMAIN u[n] /\ p[i] = u[n][i]) \/ (i = m + 1 /\ p[i] = c)
  BY ONLY <1>3
<1>5. \A i, j \in DOMAIN p : i < j => i \in DOMAIN u[n] /\ p[i] = u[n][i]
  <2>1. m \in Nat /\ DOMAIN p = 1 .. m + 1 /\ DOMAIN u[n] = 1 .. m /\ \A i \in 1 .. m : p[i] = u[n][i]
    BY <1>3
  <2> HIDE DEF m, p
  <2>2. QED BY ONLY <2>1
<1>6. v \in Seq(Seq(Input)) /\ Len(v) = n
  BY ONLY <1>1, <1>3, EntrySet
<1>7. DOMAIN v = DOMAIN u /\ v[n] = p /\ \A s \in DOMAIN u : s # n => v[s] = u[s]
  BY ONLY <1>1
<1>8. \A s \in DOMAIN u : \A i \in DOMAIN u[s] : u[s][i].seq \in Nat
  BY SentFacts
<1> HIDE DEF p, m, v
<1>9. \A s \in DOMAIN u : \A i \in DOMAIN u[s] : u[s][i].seq <= last + 1 /\ u[s][i].seq < c.seq
  BY <1>8 DEF Sent
<1>10. \A s \in DOMAIN v : \A i \in DOMAIN v[s] :
         \/ i \in DOMAIN u[s] /\ v[s][i] = u[s][i]
         \/ s = n /\ v[s][i] = c
  BY <1>4, <1>7
<1>11. Sent(v, <<>>, last + 1)
  <2>1. \A s \in DOMAIN v : \A i \in DOMAIN v[s] : v[s][i].seq <= last + 1
    BY <1>7, <1>9, <1>10
  <2>2. ASSUME NEW s \in DOMAIN v, NEW i \in DOMAIN v[s], NEW j \in DOMAIN v[s], i < j
        PROVE  v[s][i].seq < v[s][j].seq
    <3>1. i \in DOMAIN u[s] /\ v[s][i] = u[s][i]
      <4>1. CASE s = n
        BY <1>5, <1>7, <2>2, <4>1
      <4>2. CASE s # n
        BY <1>7, <2>2, <4>2
      <4>3. QED BY <4>1, <4>2
    <3>2. QED BY <1>7, <1>9, <1>10, <2>2, <3>1 DEF Sent
  <2>3. ASSUME NEW s \in DOMAIN v, NEW t \in DOMAIN v, s < t, NEW i \in DOMAIN v[s], NEW j \in DOMAIN v[t]
        PROVE  v[s][i].seq < v[t][j].seq
    <3>1. s # n
      BY ONLY <1>1, <1>7, <2>3
    <3>2. i \in DOMAIN u[s] /\ v[s][i] = u[s][i] /\ s \in DOMAIN u /\ t \in DOMAIN u
      BY <1>7, <2>3, <3>1
    <3>3. QED BY <1>9, <1>10, <2>3, <3>2 DEF Sent
  <2>4. DOMAIN <<>> = {} /\ <<>> \in Seq(Input)
    OBVIOUS
  <2>5. QED BY <1>6, <2>1, <2>2, <2>3, <2>4 DEF Sent
<1>12. Steered(v, <<>>, queue, ack)
  <2>1. \A k \in DOMAIN queue : queue[k].seq < c.seq
    OBVIOUS
  <2>2. \A s \in DOMAIN v : s = Len(v) => \A i \in DOMAIN v[s] : ack < v[s][i].seq
    BY <1>6, <1>7, <1>10 DEF Steered
  <2>3. \A k \in DOMAIN queue : \A s \in DOMAIN v :
          s >= queue[k].socket => \A i \in DOMAIN v[s] : queue[k].seq < v[s][i].seq
    BY <1>7, <1>10, <2>1 DEF Steered
  <2>4. QED BY <1>6, <2>2, <2>3 DEF Steered
<1>13. QED BY <1>11, <1>12 DEF p, v

(* What was held goes out on the new connection.                           *)
LEMMA HeldSent ==
  ASSUME NEW u, NEW o, NEW last \in Nat, Sent(u, o, last)
  PROVE  /\ Sent(Append(u, o), <<>>, last)
         /\ \A queue, ack :
              Steered(u, o, queue, ack) /\ (\A k \in DOMAIN queue : queue[k].socket \in Nat)
                => Steered(Append(u, o), <<>>, queue, ack)
         /\ Steered(Append(u, o), <<>>, <<>>, 0)
<1> DEFINE n == Len(u)
           v == Append(u, o)
<1>1. u \in Seq(Seq(Input)) /\ n \in Nat /\ DOMAIN u = 1 .. n /\ o \in Seq(Input)
  BY DEF Sent
<1>2. v \in Seq(Seq(Input)) /\ Len(v) = n + 1 /\ DOMAIN v = 1 .. n + 1
  BY <1>1
<1>3. v[n + 1] = o /\ \A s \in 1 .. n : v[s] = u[s]
  BY <1>1
<1> HIDE DEF n, v
<1>4. \A s \in DOMAIN v : (s \in DOMAIN u /\ v[s] = u[s]) \/ (s = n + 1 /\ v[s] = o)
  BY ONLY <1>1, <1>2, <1>3
<1>5. \A s, t \in DOMAIN v : s < t => s \in DOMAIN u /\ v[s] = u[s]
  BY ONLY <1>1, <1>2, <1>3
<1>6. DOMAIN <<>> = {} /\ <<>> \in Seq(Input)
  OBVIOUS
<1>7. Sent(v, <<>>, last)
  <2>1. \A s \in DOMAIN v : \A i \in DOMAIN v[s] : v[s][i].seq <= last
    BY <1>4 DEF Sent
  <2>2. \A s \in DOMAIN v : \A i, j \in DOMAIN v[s] : i < j => v[s][i].seq < v[s][j].seq
    BY <1>4 DEF Sent
  <2>3. ASSUME NEW s \in DOMAIN v, NEW t \in DOMAIN v, s < t, NEW i \in DOMAIN v[s], NEW j \in DOMAIN v[t]
        PROVE  v[s][i].seq < v[t][j].seq
    <3>1. s \in DOMAIN u /\ v[s] = u[s]
      BY <1>5, <2>3
    <3>2. QED BY <1>4, <2>3, <3>1 DEF Sent
  <2>4. QED BY <1>2, <1>6, <2>1, <2>2, <2>3 DEF Sent
<1>8. ASSUME NEW queue, NEW ack, Steered(u, o, queue, ack),
             \A k \in DOMAIN queue : queue[k].socket \in Nat
      PROVE  Steered(v, <<>>, queue, ack)
  <2>1. \A k \in DOMAIN queue : queue[k].socket <= n /\ queue[k].socket \in Nat
    BY <1>8 DEF Steered, n
  <2>2. \A k \in DOMAIN queue : queue[k].socket <= n + 1 /\ queue[k].socket # n + 1
    BY ONLY <1>1, <2>1
  <2>3. \A s \in DOMAIN v : s = Len(v) => \A i \in DOMAIN v[s] : ack < v[s][i].seq
    BY <1>2, <1>3, <1>8 DEF Steered
  <2>4. \A k \in DOMAIN queue : \A s \in DOMAIN v :
          s >= queue[k].socket => \A i \in DOMAIN v[s] : queue[k].seq < v[s][i].seq
    BY <1>4, <1>8 DEF Steered
  <2>5. QED BY <1>2, <1>6, <2>2, <2>3, <2>4 DEF Steered
<1>9. Steered(v, <<>>, <<>>, 0)
  <2>1. \A s \in DOMAIN v : \A i \in DOMAIN v[s] : 0 < v[s][i].seq
    BY <1>7, SentFacts
  <2>2. QED BY <1>6, <2>1 DEF Steered
<1>10. QED BY <1>7, <1>8, <1>9 DEF v

(* A command past the guard waits for the tick.                            *)
LEMMA CommandQueued ==
  ASSUME NEW u, NEW o, NEW last \in Nat, Sent(u, o, last),
         NEW queue \in Seq(Queued), NEW ack \in Nat, Steered(u, o, queue, ack),
         NEW s \in DOMAIN u, u[s] # <<>>
  PROVE  Steered([u EXCEPT ![s] = Tail(@)], o, Append(queue, [seq |-> Head(u[s]).seq, socket |-> s]), ack)
<1> DEFINE n == Len(u)
           v == [u EXCEPT ![s] = Tail(u[s])]
           c == [seq |-> Head(u[s]).seq, socket |-> s]
           q == Append(queue, c)
           m == Len(queue)
<1>1. u \in Seq(Seq(Input)) /\ n \in Nat /\ DOMAIN u = 1 .. n
  BY DEF Sent
<1>2. u[s] \in Seq(Input) /\ Head(u[s]) = u[s][1] /\ 1 \in DOMAIN u[s]
  <2>1. u[s] \in Seq(Input)
    BY ONLY <1>1, s \in DOMAIN u
  <2>2. QED BY ONLY <2>1, u[s] # <<>>
<1>3. Shrunk(u, v)
  BY <1>1, ShrunkBy
<1>4. Steered(v, o, queue, ack)
  BY <1>3, SteeredShrinks
<1>5. m \in Nat /\ DOMAIN q = 1 .. m + 1 /\ DOMAIN queue = 1 .. m /\ q[m + 1] = c /\ \A k \in 1 .. m : q[k] = queue[k]
  OBVIOUS
<1>6. c.seq = u[s][1].seq /\ c.socket = s
  BY <1>2
<1>7. s \in Nat /\ s <= n /\ Len(v) = n /\ DOMAIN v = DOMAIN u
  BY <1>1, <1>3 DEF Shrunk
<1> HIDE DEF n, c, q, m, v
<1>8. \A k \in DOMAIN q : (k \in DOMAIN queue /\ q[k] = queue[k]) \/ q[k] = c
  BY ONLY <1>5
<1>9. s = n => c.seq > ack
  BY <1>2, <1>6 DEF Steered, n
<1>10. ASSUME NEW t \in DOMAIN v, t >= s, NEW i \in DOMAIN v[t] PROVE c.seq < v[t][i].seq
  <2>1. CASE t # s
    <3>1. v[t] = u[t] /\ s < t
      BY <1>1, <1>7, <1>10, <2>1 DEF v
    <3>2. QED BY <1>2, <1>6, <1>7, <1>10, <3>1 DEF Sent
  <2>2. CASE t = s
    <3>1. v[t] = Tail(u[s])
      BY <1>1, <2>2 DEF v
    <3>2. i + 1 \in DOMAIN u[s] /\ v[t][i] = u[s][i + 1] /\ 1 < i + 1
      BY ONLY <1>2, <1>10, <3>1, u[s] # <<>>
    <3>3. QED BY <1>2, <1>6, <3>2 DEF Sent
  <2>3. QED BY <2>1, <2>2
<1>11. \A i \in DOMAIN o : c.seq < o[i].seq
  BY <1>2, <1>6 DEF Sent
<1>12. Steered(v, o, q, ack)
  <2>1. \A k \in DOMAIN q : q[k].socket <= Len(v) /\ (q[k].socket = Len(v) => q[k].seq > ack)
    BY <1>4, <1>6, <1>7, <1>8, <1>9 DEF Steered
  <2>2. \A k \in DOMAIN q : \A t \in DOMAIN v :
          t >= q[k].socket => \A i \in DOMAIN v[t] : q[k].seq < v[t][i].seq
    BY <1>4, <1>6, <1>8, <1>10 DEF Steered
  <2>3. \A k \in DOMAIN q : \A i \in DOMAIN o : q[k].seq < o[i].seq
    BY <1>4, <1>8, <1>11 DEF Steered
  <2>4. QED BY <1>4, <2>1, <2>2, <2>3 DEF Steered
<1>13. QED BY <1>12 DEF v, q, c

(* The tick empties the queue; the new acknowledgement is the newest in it. *)
LEMMA QueueTaken ==
  ASSUME NEW u, NEW o, NEW queue, NEW ack, Steered(u, o, queue, ack), NEW new,
         new = ack \/ \E k \in DOMAIN queue : new = queue[k].seq,
         \A k \in DOMAIN queue : queue[k].socket \in Nat, Len(u) \in Nat
  PROVE  Steered(u, o, <<>>, new)
<1>1. DOMAIN <<>> = {}
  OBVIOUS
<1>2. \A k \in DOMAIN queue : Len(u) >= queue[k].socket
  BY DEF Steered
<1>3. QED BY <1>1, <1>2 DEF Steered

(* The page has had one engine, and has it still.                          *)
Alone == Len(engines) <= 1 /\ (Len(engines) = 1 => Mounted)

(* No acknowledgement, on its way or taken, is ahead of the engine, and     *)
(* none of what it keeps for replay is acknowledged.                       *)
Acked ==
  /\ engine.ack <= engine.sequence /\ snake.lastAckSeq <= engine.sequence
  /\ \A i \in DOMAIN engine.pending : engine.pending[i] > engine.ack
  /\ \A k \in DOMAIN snake.queue : snake.queue[k].seq <= engine.sequence
  /\ \A s \in DOMAIN down : \A i \in DOMAIN down[s] :
       down[s][i].type = "snapshot" => down[s][i].ack <= engine.sequence

AloneInv ==
  Alone => /\ Sent(up, outbox, engine.sequence)
           /\ Steered(up, outbox, snake.queue, snake.lastAckSeq)
           /\ Acked

LEMMA AloneBefore ==
  ASSUME PageTyped, PageTyped', ClientNext, Alone'
  PROVE  Alone /\ ~cleanup /\ ~leave
<1> DEFINE n == Len(engines)
<1>1. /\ n \in Nat /\ DOMAIN engines = 1 .. n /\ engines \in Seq(EngineStates)
      /\ Mounted <=> (n > 0 /\ engines[n] \in {"initialising", "running"})
  BY MountedIs DEF PageTyped
<1>2. /\ Len(engines') \in Nat /\ (Len(engines') = 1 => Mounted') /\ Len(engines') <= 1
      /\ Mounted' <=> (Len(engines') > 0 /\ engines'[Len(engines')] \in {"initialising", "running"})
  <2>1. engines' \in Seq(EngineStates)
    BY DEF PageTyped
  <2>2. Len(engines') \in Nat
    BY <2>1
  <2>3. Len(engines') > 0 => engines'[Len(engines')] \in EngineStates
    BY <2>1, <2>2
  <2>4. Last(engines') = engines'[Len(engines')]
    BY DEF Last
  <2>5. QED BY <2>2, <2>3, <2>4 DEF Mounted, EngineStates, Alone
<1>3. CASE UNCHANGED engines
  <2>1. Alone
    BY <1>3 DEF Alone, Mounted
  <2>2. ~cleanup /\ ~leave
    <3>1. SUFFICES ASSUME cleanup \/ leave PROVE FALSE
      OBVIOUS
    <3>2. PICK gone \in {"destroyed", "cancelled"} : engines' = [engines EXCEPT ![n] = gone]
      BY <3>1 DEF cleanup, leave, Current
    <3>3. Mounted
      BY <3>1 DEF cleanup, leave, Running
    <3>4. n \in DOMAIN engines
      BY <1>1, <3>3
    <3>5. engines'[n] = gone
      BY <1>1, <3>2, <3>4
    <3>6. QED BY <1>1, <1>3, <3>3, <3>5
  <2>3. QED BY <2>1, <2>2
<1>4. CASE mount
  <2>1. engines' = Append(engines, "initialising")
    BY <1>4 DEF mount
  <2>2. Len(engines') = n + 1
    BY <1>1, <2>1
  <2>3. n = 0
    BY ONLY <1>1, <1>2, <2>2
  <2>4. ~Mounted
    BY <1>1, <2>3
  <2>5. ~cleanup /\ ~leave
    BY <2>4 DEF cleanup, leave, Running
  <2>6. QED BY <2>3, <2>5 DEF Alone
<1>5. CASE cleanup \/ leave
  <2>1. PICK gone \in {"destroyed", "cancelled"} : engines' = [engines EXCEPT ![n] = gone]
    BY <1>5 DEF cleanup, leave, Current
  <2>2. Mounted
    BY <1>5 DEF cleanup, leave, Running
  <2>3. n \in DOMAIN engines /\ n > 0
    BY <1>1, <2>2
  <2>4. engines'[n] = gone /\ Len(engines') = n
    BY <1>1, <2>1, <2>3
  <2>5. QED BY <1>1, <1>2, <2>3, <2>4
<1>6. CASE initialised /\ ~cleanup /\ ~leave
  <2>1. PICK i \in 1 .. n : /\ engines[i] \in {"initialising", "cancelled"}
                            /\ engines' = [engines EXCEPT ![i] = whenReady(engines[i])]
    BY <1>1, <1>6 DEF initialised
  <2>2. Len(engines') = n /\ engines'[i] = (IF engines[i] = "cancelled" THEN "destroyed" ELSE "running")
    BY <1>1, <2>1 DEF whenReady
  <2>3. n = 1 /\ i = 1
    <3>1. n \in Nat /\ n <= 1
      BY <1>1, <1>2, <2>2
    <3> HIDE DEF n
    <3>2. QED BY ONLY <3>1, <2>1
  <2>4. Mounted
    BY <1>1, <1>2, <2>1, <2>2, <2>3
  <2>5. QED BY <1>6, <2>3, <2>4 DEF Alone
<1>7. CASE ~(mount \/ cleanup \/ leave \/ initialised)
  <2>1. UNCHANGED engines
    BY <1>7 DEF ClientNext, connect, disconnect, connectError, evict, reap, onFrame, interval,
         decaySuspicion, tick, onMessage, closed, onInput, onLeave
  <2>2. QED BY <1>3, <2>1
<1>8. QED BY <1>4, <1>5, <1>6, <1>7

(* The kinds of steps that leave the commands alone.                       *)
LEMMA AckedKept ==
  ASSUME Acked, UNCHANGED <<engine, snake>>,
         \A s \in DOMAIN down' : \A i \in DOMAIN down'[s] :
           down'[s][i].type = "snapshot" => down'[s][i].ack <= engine.sequence
  PROVE  Acked'
BY DEF Acked

LEMMA QueueFacts ==
  ASSUME NodeTyped
  PROVE  /\ snake.queue \in Seq(Queued)
         /\ \A k \in DOMAIN snake.queue : snake.queue[k].socket \in Nat /\ snake.queue[k].seq \in Nat
                                          /\ snake.queue[k].seq \in 0 .. MaxCommands
<1>1. snake.queue \in Seq(Queued)
  BY NodeFields
<1>2. \A k \in DOMAIN snake.queue : snake.queue[k] \in Queued
  BY ONLY <1>1
<1>3. \A c \in 1 .. MaxCommands : c \in 0 .. MaxCommands
  BY ClientNats
<1>4. QED BY <1>1, <1>2, <1>3, QueuedIs

(* A new prediction is ahead of everything acknowledged.                   *)
LEMMA PushedAbove ==
  ASSUME NEW pending, NEW sequence \in Nat, Newest(pending, sequence), NEW ack \in Nat, ack <= sequence,
         \A i \in DOMAIN pending : pending[i] > ack
  PROVE  \A i \in DOMAIN pushPrediction(pending, sequence + 1) : pushPrediction(pending, sequence + 1)[i] > ack
<1> DEFINE seq == sequence + 1
<1>1. pending \in Seq(Nat) /\ Len(pending) \in Nat /\ seq \in Nat /\ seq > ack /\ DOMAIN pending = 1 .. Len(pending)
  BY DEF Newest
<1>2. MaxPending \in Nat /\ MaxPending >= 1
  BY ClientNats
<1> HIDE DEF seq
<1>3. CASE Len(pending) = MaxPending
  <2> DEFINE rest == Tail(pending)
  <2>1. rest \in Seq(Nat) /\ \A i \in DOMAIN rest : i + 1 \in DOMAIN pending /\ rest[i] = pending[i + 1]
    BY ONLY <1>1, <1>2, <1>3
  <2> HIDE DEF rest
  <2>2. \A i \in DOMAIN Append(rest, seq) : Append(rest, seq)[i] = seq \/ (i \in DOMAIN rest /\ Append(rest, seq)[i] = rest[i])
    BY ONLY <2>1, <1>1
  <2>3. pushPrediction(pending, seq) = Append(rest, seq)
    BY <1>3 DEF pushPrediction, rest
  <2>4. QED BY <1>1, <2>1, <2>2, <2>3 DEF seq
<1>4. CASE Len(pending) # MaxPending
  <2>1. \A i \in DOMAIN Append(pending, seq) : Append(pending, seq)[i] = seq \/ (i \in DOMAIN pending /\ Append(pending, seq)[i] = pending[i])
    BY ONLY <1>1
  <2>2. pushPrediction(pending, seq) = Append(pending, seq)
    BY <1>4 DEF pushPrediction
  <2>3. QED BY <1>1, <2>1, <2>2 DEF seq
<1>5. QED BY <1>3, <1>4

LEMMA JoinedEntries ==
  ASSUME NEW S, NEW a \in Seq(S), NEW b \in Seq(S)
  PROVE  /\ a \o b \in Seq(S)
         /\ \A i \in DOMAIN (a \o b) : \/ \E j \in DOMAIN a : (a \o b)[i] = a[j]
                                     \/ \E j \in DOMAIN b : (a \o b)[i] = b[j]
<1>1. /\ a \o b \in Seq(S) /\ Len(a) \in Nat /\ Len(b) \in Nat /\ DOMAIN a = 1 .. Len(a) /\ DOMAIN b = 1 .. Len(b)
      /\ DOMAIN (a \o b) = 1 .. Len(a) + Len(b)
  OBVIOUS
<1>2. ASSUME NEW i \in DOMAIN (a \o b)
      PROVE  (i \in DOMAIN a /\ (a \o b)[i] = a[i]) \/ (i - Len(a) \in DOMAIN b /\ (a \o b)[i] = b[i - Len(a)])
  BY <1>1
<1>3. QED BY <1>1, <1>2

(* A tick tells each socket at most what the snake has acknowledged.       *)
LEMMA TickTells ==
  ASSUME NodeTyped, tick, down \in Seq(Seq(Told)), NEW last \in Nat, snake'.lastAckSeq <= last,
         \A s \in DOMAIN down : \A i \in DOMAIN down[s] :
           down[s][i].type = "snapshot" => down[s][i].ack <= last
  PROVE  \A s \in DOMAIN down' : \A i \in DOMAIN down'[s] :
           down'[s][i].type = "snapshot" => down'[s][i].ack <= last
<1>1. PICK dies \in BOOLEAN :
        LET ack == IF snake.alive THEN applied(snake.lastAckSeq, snake.queue) ELSE snake.lastAckSeq
            died == IF dies THEN <<[type |-> "died"]>> ELSE <<>>
            shown(s) == IF Watched /\ s = seat.socket
                        THEN <<buildSnapshot(clock + 1, ack, snake.alive /\ ~dies)>> ELSE <<>>
        IN  /\ snake' = [alive |-> snake.alive /\ ~dies, lastAckSeq |-> ack, queue |-> <<>>]
            /\ down' = [s \in DOMAIN down |->
                          IF s = conn THEN down[s] \o died \o shown(s) ELSE down[s]]
  BY DEF tick
<1> DEFINE ack == IF snake.alive THEN applied(snake.lastAckSeq, snake.queue) ELSE snake.lastAckSeq
           gone == [type |-> "died"]
           view == buildSnapshot(clock + 1, ack, snake.alive /\ ~dies)
           died == IF dies THEN <<gone>> ELSE <<>>
           shown(s) == IF Watched /\ s = seat.socket THEN <<view>> ELSE <<>>
<1>2. ack = snake'.lastAckSeq
  BY <1>1
<1>3. down' = [s \in DOMAIN down |-> IF s = conn THEN down[s] \o died \o shown(s) ELSE down[s]]
  BY <1>1
<1>4. ack \in 0 .. MaxCommands
  <2>1. snake' \in Snake
    BY TickIs
  <2>2. snake'.lastAckSeq \in 0 .. MaxCommands
    BY ONLY <2>1 DEF Snake
  <2>3. QED BY <1>2, <2>2
<1> HIDE DEF ack
<1>5. gone \in Told /\ gone.type = "died"
  BY DEF Told
<1>6. view \in Told /\ view.ack = ack
  <2>1. clock + 1 \in Nat /\ (snake.alive /\ ~dies) \in BOOLEAN
    BY NodeFields
  <2>2. QED BY <1>4, <2>1 DEF buildSnapshot, Told
<1> HIDE DEF gone, view
<1>7. died \in Seq(Told) /\ \A i \in DOMAIN died : died[i] = gone
  BY <1>5
<1>8. ASSUME NEW s PROVE shown(s) \in Seq(Told) /\ \A i \in DOMAIN shown(s) : shown(s)[i] = view
  BY <1>6
<1> HIDE DEF died, shown
<1> SUFFICES ASSUME NEW s \in DOMAIN down', NEW i \in DOMAIN down'[s], down'[s][i].type = "snapshot"
             PROVE  down'[s][i].ack <= last
  OBVIOUS
<1>9. s \in DOMAIN down /\ down[s] \in Seq(Told)
  <2>1. s \in DOMAIN down
    BY <1>3
  <2>2. QED BY ONLY <2>1, down \in Seq(Seq(Told))
<1>10. CASE s # conn
  BY <1>3, <1>9, <1>10
<1>11. CASE s = conn
  <2>1. down'[s] = (down[s] \o died) \o shown(s)
    BY <1>3, <1>9, <1>11
  <2>2. /\ down[s] \o died \in Seq(Told)
        /\ \A k \in DOMAIN (down[s] \o died) : \/ \E j \in DOMAIN down[s] : (down[s] \o died)[k] = down[s][j]
                                              \/ \E j \in DOMAIN died : (down[s] \o died)[k] = died[j]
    BY ONLY <1>7, <1>9, JoinedEntries
  <2> DEFINE front == down[s] \o died
  <2> HIDE DEF front
  <2>3. \A k \in DOMAIN (front \o shown(s)) : \/ \E j \in DOMAIN front : (front \o shown(s))[k] = front[j]
                                              \/ \E j \in DOMAIN shown(s) : (front \o shown(s))[k] = shown(s)[j]
    <3>1. front \in Seq(Told)
      BY <2>2 DEF front
    <3>2. QED BY ONLY <3>1, <1>8, JoinedEntries
  <2>4. \/ \E j \in DOMAIN down[s] : down'[s][i] = down[s][j]
        \/ down'[s][i] = gone \/ down'[s][i] = view
    BY <1>7, <1>8, <2>1, <2>2, <2>3 DEF front
  <2>5. QED BY <1>2, <1>5, <1>6, <1>9, <2>4
<1>12. QED BY <1>10, <1>11

LEMMA AloneInvStep ==
  PageTyped /\ PageTyped' /\ EngineTyped /\ NodeTyped /\ PageInv /\ AloneInv /\ ClientNext => AloneInv'
<1> SUFFICES ASSUME PageTyped, PageTyped', EngineTyped, NodeTyped, PageInv, AloneInv, ClientNext, Alone'
             PROVE  /\ Sent(up', outbox', engine'.sequence)
                    /\ Steered(up', outbox', snake'.queue, snake'.lastAckSeq)
                    /\ Acked'
  BY DEF AloneInv
<1> USE DEF serverSide
<1>1. Alone /\ ~cleanup /\ ~leave
  BY AloneBefore
<1>2. Sent(up, outbox, engine.sequence) /\ Steered(up, outbox, snake.queue, snake.lastAckSeq) /\ Acked
  BY <1>1 DEF AloneInv
<1>3. /\ up \in Seq(Seq(Input)) /\ Len(up) \in Nat /\ DOMAIN up = 1 .. Len(up)
      /\ outbox \in Seq(Input) /\ down \in Seq(Seq(Told)) /\ Len(down) = Len(up) /\ DOMAIN down = 1 .. Len(up)
      /\ conn \in {0, Len(up)}
  BY <1>2 DEF PageTyped, Sent
<1>30. ASSUME NEW s \in DOMAIN up PROVE up[s] \in Seq(Input)
  <2>1. up \in Seq(Seq(Input))
    BY <1>3
  <2>2. QED BY ONLY <2>1, <1>30
<1>31. ASSUME NEW s \in DOMAIN down PROVE down[s] \in Seq(Told)
  <2>1. down \in Seq(Seq(Told))
    BY <1>3
  <2>2. QED BY ONLY <2>1, <1>31
<1>4. /\ engine.sequence \in Nat /\ engine.ack \in Nat /\ snake.lastAckSeq \in Nat
      /\ snake.queue \in Seq(Queued)
      /\ \A k \in DOMAIN snake.queue : snake.queue[k].socket \in Nat /\ snake.queue[k].seq \in Nat
                                       /\ snake.queue[k].seq \in 0 .. MaxCommands
      /\ snake.lastAckSeq \in 0 .. MaxCommands
  BY EngineFields, NodeFields, QueueFacts
<1>5. /\ engine.ack <= engine.sequence /\ snake.lastAckSeq <= engine.sequence
      /\ \A i \in DOMAIN engine.pending : engine.pending[i] > engine.ack
      /\ \A k \in DOMAIN snake.queue : snake.queue[k].seq <= engine.sequence
      /\ \A s \in DOMAIN down : \A i \in DOMAIN down[s] :
           down[s][i].type = "snapshot" => down[s][i].ack <= engine.sequence
  BY <1>2 DEF Acked
<1>6. CASE mount \/ initialised \/ connectError \/ reap \/ decaySuspicion
  <2>1. UNCHANGED <<engine, outbox, up, down, snake>>
    BY <1>6 DEF mount, initialised, connectError, reap, decaySuspicion
  <2>2. QED BY <1>2, <2>1 DEF Acked
<1>7. CASE connect
  <2>1. UNCHANGED engine /\ outbox' = <<>> /\ down' = Append(down, <<[type |-> "joined"]>>) /\ up' = Append(up, outbox)
    BY <1>7 DEF connect
  <2>2. Sent(up', outbox', engine'.sequence)
    BY <1>2, <1>4, <2>1, HeldSent
  <2>3. ASSUME seat.held PROVE Steered(up', outbox', snake'.queue, snake'.lastAckSeq)
    <3>1. snake' = snake
      BY <1>7, <2>3, ConnectSeats
    <3>2. Steered(Append(up, outbox), <<>>, snake.queue, snake.lastAckSeq)
      BY <1>2, <1>4, HeldSent
    <3>3. QED BY <2>1, <3>1, <3>2
  <2>4. ASSUME ~seat.held PROVE Steered(up', outbox', snake'.queue, snake'.lastAckSeq)
    <3>1. snake'.queue = <<>> /\ snake'.lastAckSeq = 0
      BY <1>7, <2>4, ConnectSeats
    <3>2. Steered(Append(up, outbox), <<>>, <<>>, 0)
      BY <1>2, <1>4, HeldSent
    <3>3. QED BY <2>1, <3>1, <3>2
  <2>5. Acked'
    <3>1. \A s \in DOMAIN down' : \A i \in DOMAIN down'[s] :
             down'[s][i].type = "snapshot" => down'[s][i].ack <= engine.sequence
      <4> SUFFICES ASSUME NEW s \in DOMAIN down', NEW i \in DOMAIN down'[s], down'[s][i].type = "snapshot"
                   PROVE  down'[s][i].ack <= engine.sequence
        OBVIOUS
      <4>1. (s \in DOMAIN down /\ down'[s] = down[s]) \/ down'[s] = <<[type |-> "joined"]>>
        <5>1. down \in Seq(Seq(Told)) /\ down' = Append(down, <<[type |-> "joined"]>>)
          BY <1>3, <2>1
        <5> DEFINE hello == <<[type |-> "joined"]>>
        <5>2. hello \in Seq(Told)
          BY DEF Told
        <5> HIDE DEF hello
        <5>3. s \in DOMAIN Append(down, hello)
          BY <5>1 DEF hello
        <5>4. (s \in DOMAIN down /\ Append(down, hello)[s] = down[s]) \/ Append(down, hello)[s] = hello
          BY ONLY <5>1, <5>2, <5>3
        <5>5. QED BY <5>1, <5>4 DEF hello
      <4>2. CASE s \in DOMAIN down /\ down'[s] = down[s]
        BY <1>5, <4>2
      <4>3. CASE down'[s] = <<[type |-> "joined"]>>
        <5>1. down'[s][i].type = "joined"
          BY <4>3
        <5>2. QED BY <5>1
      <4>4. QED BY <4>1, <4>2, <4>3
    <3>2. snake'.lastAckSeq <= engine.sequence /\ \A k \in DOMAIN snake'.queue : snake'.queue[k].seq <= engine.sequence
      <4>1. CASE seat.held
        <5>1. snake' = snake
          BY <1>7, <4>1, ConnectSeats
        <5>2. QED BY <1>5, <5>1
      <4>2. CASE ~seat.held
        <5>1. snake'.queue = <<>> /\ snake'.lastAckSeq = 0
          BY <1>7, <4>2, ConnectSeats
        <5>2. QED BY <1>4, <5>1
      <4>3. QED BY <4>1, <4>2
    <3>3. QED BY <1>5, <2>1, <3>1, <3>2 DEF Acked
  <2>6. QED BY <2>2, <2>3, <2>4, <2>5
<1>8. CASE disconnect
  <2>1. UNCHANGED <<engine, outbox, up, snake>> /\ down' = unread
    BY <1>8 DEF disconnect
  <2>2. \A s \in DOMAIN down' : s \in DOMAIN down /\ down'[s] \in {<<>>, down[s]}
    BY <2>1, UnreadIs
  <2>3. \A s \in DOMAIN down' : \A i \in DOMAIN down'[s] :
           down'[s][i].type = "snapshot" => down'[s][i].ack <= engine.sequence
    BY <1>5, <2>2
  <2>4. QED BY <1>2, <2>1, <2>3, AckedKept
<1>9. CASE evict
  <2>1. UNCHANGED <<engine, outbox, up, down>> /\ snake'.queue = <<>> /\ snake'.lastAckSeq = snake.lastAckSeq
    BY <1>9, RemovedIs DEF evict
  <2>2. Steered(up, outbox, <<>>, snake.lastAckSeq)
    BY <1>2, <1>3, <1>4, QueueTaken
  <2>3. QED BY <1>2, <1>5, <2>1, <2>2 DEF Acked
<1>10. CASE onFrame
  <2> DEFINE c == [type |-> "input", seq |-> engine.sequence + 1]
  <2>1. /\ UNCHANGED <<down, snake>>
        /\ \/ conn = 0 /\ outbox' = Append(outbox, c) /\ up' = up
           \/ conn # 0 /\ up' = [up EXCEPT ![conn] = Append(@, c)] /\ outbox' = outbox
    BY <1>10 DEF onFrame
  <2>2. /\ engine'.sequence = engine.sequence + 1 /\ engine'.ack = engine.ack
        /\ engine'.pending = pushPrediction(engine.pending, engine.sequence + 1)
        /\ Newest(engine'.pending, engine'.sequence)
    BY <1>10, FramePredicts
  <2>3. c \in Input /\ c.seq = engine.sequence + 1
    <3>1. engine.sequence < MaxCommands
      BY <1>10 DEF onFrame
    <3>2. engine.sequence + 1 \in 1 .. MaxCommands
      BY ONLY <3>1, <1>4, ClientNats
    <3>3. QED BY <3>2 DEF Input
  <2> HIDE DEF c
  <2>4. Sent(up', outbox', engine'.sequence) /\ Steered(up', outbox', snake'.queue, snake'.lastAckSeq)
    <3>1. CASE conn = 0
      <4>1. /\ Sent(up, Append(outbox, c), engine.sequence + 1)
            /\ Steered(up, Append(outbox, c), snake.queue, snake.lastAckSeq)
        BY <1>2, <1>4, <1>5, <2>3, CommandHeld
      <4>2. QED BY <2>1, <2>2, <3>1, <4>1
    <3>2. CASE conn # 0
      <4>1. outbox = <<>> /\ conn = Len(up) /\ Len(up) > 0
        <5>1. Len(up) \in Nat /\ conn \in {0, Len(up)}
          BY <1>3
        <5>2. conn = Len(up) /\ Len(up) > 0
          BY ONLY <5>1, <3>2
        <5>3. QED BY <5>2, <3>2 DEF PageInv
      <4> DEFINE v == [up EXCEPT ![Len(up)] = Append(@, c)]
      <4>2. Sent(v, <<>>, engine.sequence + 1) /\ Steered(v, <<>>, snake.queue, snake.lastAckSeq)
        <5>1. Sent(up, <<>>, engine.sequence) /\ Steered(up, <<>>, snake.queue, snake.lastAckSeq)
          BY <1>2, <4>1
        <5>2. QED BY <1>4, <1>5, <2>3, <4>1, <5>1, CommandSent
      <4>3. up' = v /\ outbox' = <<>>
        BY <2>1, <3>2, <4>1
      <4>4. QED BY <2>1, <2>2, <4>2, <4>3
    <3>3. QED BY <3>1, <3>2
  <2>5. \A i \in DOMAIN engine'.pending : engine'.pending[i] > engine'.ack
    <3>1. Newest(engine.pending, engine.sequence)
      BY EngineFields
    <3>2. QED BY <1>4, <1>5, <2>2, <3>1, PushedAbove
  <2>6. /\ engine'.ack <= engine'.sequence /\ snake'.lastAckSeq <= engine'.sequence
        /\ \A k \in DOMAIN snake'.queue : snake'.queue[k].seq <= engine'.sequence
        /\ \A s \in DOMAIN down' : \A i \in DOMAIN down'[s] :
             down'[s][i].type = "snapshot" => down'[s][i].ack <= engine'.sequence
    <3>1. ASSUME NEW s \in DOMAIN down, NEW i \in DOMAIN down[s], down[s][i].type = "snapshot"
          PROVE  down[s][i].ack \in Nat
      <4>1. down[s] \in Seq(Told)
        BY <1>31, <3>1
      <4>2. down[s][i] \in Told
        BY ONLY <4>1, <3>1
      <4>3. QED BY <3>1, <4>2, ToldIs
    <3>2. QED BY <1>4, <1>5, <2>1, <2>2, <3>1
  <2>7. QED BY <2>4, <2>5, <2>6 DEF Acked
<1>11. CASE interval
  <2>1. /\ UNCHANGED <<outbox, up, down, snake>> /\ engine'.ack = engine.ack /\ engine'.sequence = engine.sequence
        /\ engine'.pending = engine.pending
    BY <1>11, IntervalIs DEF interval
  <2>2. QED BY <1>2, <1>5, <2>1 DEF Acked
<1>12. CASE tick
  <2>1. UNCHANGED <<engine, outbox, up>>
    BY <1>12 DEF tick
  <2>2. /\ snake'.queue = <<>>
        /\ \/ snake'.lastAckSeq = snake.lastAckSeq
           \/ \E k \in DOMAIN snake.queue : snake'.lastAckSeq = snake.queue[k].seq
    <3>1. /\ snake'.queue = <<>>
          /\ \/ snake'.lastAckSeq = snake.lastAckSeq
             \/ snake'.lastAckSeq = applied(snake.lastAckSeq, snake.queue)
      BY <1>12, TickIs
    <3>2. \/ applied(snake.lastAckSeq, snake.queue) = snake.lastAckSeq
          \/ \E k \in DOMAIN snake.queue : applied(snake.lastAckSeq, snake.queue) = snake.queue[k].seq
      BY <1>4, ClientNats, AppliedIs
    <3>3. QED BY <3>1, <3>2
  <2>3. Steered(up, outbox, <<>>, snake'.lastAckSeq)
    BY <1>2, <1>3, <1>4, <2>2, QueueTaken
  <2>4. snake'.lastAckSeq <= engine.sequence
    BY <1>5, <2>2
  <2>5. \A s \in DOMAIN down' : \A i \in DOMAIN down'[s] :
           down'[s][i].type = "snapshot" => down'[s][i].ack <= engine.sequence
    <3>1. down \in Seq(Seq(Told))
      BY <1>3
    <3>2. \A s \in DOMAIN down : \A i \in DOMAIN down[s] :
            down[s][i].type = "snapshot" => down[s][i].ack <= engine.sequence
      BY <1>5
    <3>3. QED BY <1>4, <1>12, <2>4, <3>1, <3>2, TickTells
  <2>6. QED BY <1>2, <1>5, <2>1, <2>2, <2>3, <2>4, <2>5 DEF Acked
<1>13. CASE onMessage
  <2> DEFINE m == Head(down[conn])
  <2>1. UNCHANGED <<outbox, up, snake>> /\ conn # 0 /\ down[conn] # <<>> /\ down' = [down EXCEPT ![conn] = Tail(@)]
    BY <1>13 DEF onMessage
  <2>2. conn \in DOMAIN down /\ down[conn] \in Seq(Told) /\ m \in Told /\ m = down[conn][1] /\ 1 \in DOMAIN down[conn]
    BY <2>1, HeardIs
  <2>3. \A s \in DOMAIN down' : \A i \in DOMAIN down'[s] : \E j \in DOMAIN down[s] : s \in DOMAIN down /\ down'[s][i] = down[s][j]
    <3> SUFFICES ASSUME NEW s \in DOMAIN down', NEW i \in DOMAIN down'[s]
                 PROVE  \E j \in DOMAIN down[s] : s \in DOMAIN down /\ down'[s][i] = down[s][j]
      OBVIOUS
    <3>1. s \in DOMAIN down
      BY <1>3, <2>1
    <3>2. CASE s # conn
      BY <1>3, <2>1, <3>1, <3>2
    <3>3. CASE s = conn
      <4>1. down'[s] = Tail(down[conn])
        BY <1>3, <2>1, <2>2, <3>3
      <4>2. i + 1 \in DOMAIN down[conn] /\ down'[s][i] = down[conn][i + 1]
        BY ONLY <4>1, <2>1, <2>2, i \in DOMAIN down'[s]
      <4>3. QED BY <3>1, <3>3, <4>2
    <3>4. QED BY <3>2, <3>3
  <2>4. engine'.sequence = engine.sequence /\ engine'.ack <= engine.sequence
        /\ \A i \in DOMAIN engine'.pending : engine'.pending[i] > engine'.ack
    <3>1. CASE m.type = "joined" /\ engine' = onJoined(engine)
      <4>1. engine'.sequence = engine.sequence /\ engine'.ack = 0 /\ engine'.pending = <<>>
        BY <3>1, JoinedIs
      <4>2. QED BY <1>4, <4>1
    <3>2. CASE m.type = "died" /\ engine' = onDied(engine)
      <4>1. engine'.sequence = engine.sequence /\ engine'.ack = engine.ack /\ engine'.pending = engine.pending
        BY <3>2, JoinedIs
      <4>2. QED BY <1>5, <4>1
    <3>3. CASE m.type = "snapshot" /\ engine' = onSnapshot(engine, m)
      <4>1. m.ack \in Nat /\ m.ack <= engine.sequence
        BY <1>5, <2>2, <3>3, ToldIs
      <4>2. /\ engine'.sequence = engine.sequence
            /\ \/ engine'.ack = engine.ack /\ engine'.pending = engine.pending
               \/ /\ engine'.ack = (IF engine.ack >= m.ack THEN engine.ack ELSE m.ack)
                  /\ engine'.pending = above(engine.pending, m.ack)
        BY <2>2, <3>3, SnapshotHeard
      <4>3. \A i \in DOMAIN above(engine.pending, m.ack) :
              above(engine.pending, m.ack)[i] > m.ack /\ above(engine.pending, m.ack)[i] > engine.ack
        BY <1>4, <1>5, <4>1, EngineFields, AckDrops
      <4> HIDE DEF m
      <4>4. QED BY <1>4, <1>5, <4>1, <4>2, <4>3
    <3>4. QED BY <1>13, <3>1, <3>2, <3>3, HearingIs
  <2>5. QED BY <1>2, <1>5, <2>1, <2>3, <2>4 DEF Acked
<1>14. ASSUME NEW s \in 1 .. MaxSockets, closed(s)
       PROVE  /\ Sent(up', outbox', engine'.sequence)
              /\ Steered(up', outbox', snake'.queue, snake'.lastAckSeq)
              /\ Acked'
  <2>1. UNCHANGED <<engine, outbox, down, snake>> /\ up' = [up EXCEPT ![s] = <<>>] /\ s \in DOMAIN up
    BY <1>3, <1>14, NodeFields DEF closed
  <2>2. Shrunk(up, up')
    BY <1>3, <2>1, ShrunkBy
  <2>3. Sent(up', outbox, engine.sequence) /\ Steered(up', outbox, snake.queue, snake.lastAckSeq)
    BY <1>2, <1>4, <2>2, SentShrinks, SteeredShrinks
  <2>4. QED BY <1>5, <2>1, <2>3 DEF Acked
<1>15. ASSUME NEW s \in 1 .. MaxSockets, onInput(s)
       PROVE  /\ Sent(up', outbox', engine'.sequence)
              /\ Steered(up', outbox', snake'.queue, snake'.lastAckSeq)
              /\ Acked'
  <2> DEFINE c == [seq |-> Head(up[s]).seq, socket |-> s]
  <2>1. /\ UNCHANGED <<engine, outbox, down>> /\ s \in DOMAIN guards /\ up[s] # <<>> /\ Head(up[s]).type = "input"
        /\ up' = [up EXCEPT ![s] = Tail(@)]
    BY <1>15 DEF onInput
  <2>2. /\ snake'.lastAckSeq = snake.lastAckSeq
        /\ snake' = snake \/ (snake'.queue = Append(snake.queue, c) /\ c \in Queued)
    BY <1>15, InputIs
  <2>3. s \in DOMAIN up /\ Head(up[s]) = up[s][1] /\ 1 \in DOMAIN up[s] /\ c.seq = up[s][1].seq
    <3>1. s \in DOMAIN up /\ Head(up[s]) = up[s][1]
      BY <2>1, CommandIs
    <3>2. up[s] \in Seq(Input)
      BY <3>1, <1>30
    <3>3. 1 \in DOMAIN up[s]
      BY ONLY <3>2, <2>1
    <3>4. QED BY <3>1, <3>3
  <2>4. Shrunk(up, up')
    BY <1>3, <2>1, <2>3, ShrunkBy
  <2>5. Sent(up', outbox', engine'.sequence)
    BY <1>2, <1>4, <2>1, <2>4, SentShrinks
  <2>6. c.seq <= engine.sequence
    BY <1>2, <2>3 DEF Sent
  <2>7. Steered(up', outbox', snake'.queue, snake'.lastAckSeq)
    <3>1. CASE snake' = snake
      BY <1>2, <2>1, <2>4, <3>1, SteeredShrinks
    <3>2. CASE snake'.queue = Append(snake.queue, c)
      <4>1. Steered([up EXCEPT ![s] = Tail(@)], outbox, Append(snake.queue, c), snake.lastAckSeq)
        BY <1>2, <1>4, <2>1, <2>3, CommandQueued
      <4>2. QED BY <2>1, <2>2, <3>2, <4>1
    <3>3. QED BY <2>2, <3>1, <3>2
  <2>8. \A k \in DOMAIN snake'.queue : snake'.queue[k].seq <= engine.sequence
    <3>1. CASE snake' = snake
      BY <1>5, <3>1
    <3>2. CASE snake'.queue = Append(snake.queue, c) /\ c \in Queued
      <4> HIDE DEF c
      <4>1. \A k \in DOMAIN snake'.queue : (k \in DOMAIN snake.queue /\ snake'.queue[k] = snake.queue[k]) \/ snake'.queue[k] = c
        BY ONLY <1>4, <3>2
      <4>2. QED BY <1>5, <2>6, <4>1
    <3>3. QED BY <2>2, <3>1, <3>2
  <2>9. QED BY <1>5, <2>1, <2>2, <2>5, <2>7, <2>8 DEF Acked
<1>16. ASSUME NEW s \in 1 .. MaxSockets, onLeave(s) PROVE FALSE
  <2>1. up[s] # <<>> /\ Head(up[s]).type = "leave" /\ s \in DOMAIN up
    BY <1>3, <1>16, NodeFields DEF onLeave
  <2>2. up[s] \in Seq(Input)
    BY <1>30, <2>1
  <2>3. Head(up[s]) \in Input
    BY ONLY <2>1, <2>2
  <2>4. Head(up[s]).type = "input"
    BY <2>3 DEF Input
  <2>5. QED BY <2>1, <2>4
<1>17. QED BY <1>1, <1>6, <1>7, <1>8, <1>9, <1>10, <1>11, <1>12, <1>13, <1>14, <1>15, <1>16 DEF ClientNext

(* An unbroken socket: its commands continue where its guard stands, and   *)
(* its budget covers them with the room the burst leaves over the flight.  *)
Flowing(q, g, last, polled) ==
  /\ q \in Seq(Input) /\ Len(q) <= MaxFlight /\ g.suspicion = 0
  /\ g.lastSeq + Len(q) = last
  /\ \A i \in DOMAIN q : q[i].seq = g.lastSeq + i
  /\ g.budget + polled >= Len(q) + (Burst - MaxFlight)

Polled == IF engine.polled THEN 1 ELSE 0

PacedInv ==
  lost = 0 =>
    \/ /\ Len(up) = 0 /\ DOMAIN guards = {} /\ conn = 0 /\ outbox = <<>>
       /\ engine.sequence = 0 /\ ~engine.alive /\ ~engine.polled
    \/ /\ Len(up) = 1 /\ DOMAIN guards = {1} /\ conn = 1 /\ outbox = <<>>
       /\ Flowing(up[1], guards[1], engine.sequence, Polled)

LEMMA FlowSends ==
  ASSUME NEW q, NEW g \in Guard, NEW last \in Nat, Flowing(q, g, last, 0),
         NEW c \in Input, c.seq = last + 1, Len(q) < MaxFlight
  PROVE  Flowing(Append(q, c), g, last + 1, 1)
<1>1. q \in Seq(Input)
  BY DEF Flowing
<1> DEFINE p == Append(q, c)
           n == Len(q)
<1>2. /\ p \in Seq(Input) /\ Len(p) = n + 1 /\ n \in Nat /\ DOMAIN q = 1 .. n /\ DOMAIN p = 1 .. n + 1
      /\ p[n + 1] = c /\ \A i \in 1 .. n : p[i] = q[i]
  BY ONLY <1>1, c \in Input
<1>3. /\ n <= MaxFlight /\ g.suspicion = 0 /\ g.lastSeq + n = last /\ n < MaxFlight
      /\ g.budget >= n + (Burst - MaxFlight)
      /\ \A i \in 1 .. n : q[i].seq = g.lastSeq + i
  <2>1. g.budget \in Nat
    BY GuardIs
  <2>2. QED BY <1>2, <2>1 DEF Flowing
<1>4. g.lastSeq \in Nat /\ g.budget \in Nat
  BY GuardIs
<1> HIDE DEF p, n
<1>5. \A i \in 1 .. n + 1 : p[i].seq = g.lastSeq + i
  <2>1. ASSUME NEW i \in 1 .. n + 1 PROVE p[i].seq = g.lastSeq + i
    <3>1. CASE i = n + 1
      <4>1. p[i].seq = last + 1
        BY <1>2, <3>1
      <4>2. last + 1 = g.lastSeq + i
        BY ONLY <1>2, <1>3, <1>4, <3>1
      <4>3. QED BY <4>1, <4>2
    <3>2. CASE i # n + 1
      <4>1. i \in 1 .. n
        BY ONLY <1>2, <2>1, <3>2
      <4>2. QED BY <1>2, <1>3, <4>1
    <3>3. QED BY <3>1, <3>2
  <2>2. QED BY <2>1
<1>6. n + 1 <= MaxFlight /\ g.lastSeq + (n + 1) = last + 1 /\ g.budget + 1 >= (n + 1) + (Burst - MaxFlight)
  <2>1. /\ n \in Nat /\ n < MaxFlight /\ g.lastSeq + n = last /\ g.budget >= n + (Burst - MaxFlight)
    BY <1>2, <1>3
  <2>2. QED BY ONLY <2>1, <1>4, ClientNats
<1>7. QED BY <1>2, <1>3, <1>5, <1>6 DEF Flowing, p

LEMMA FlowRefills ==
  ASSUME NEW q, NEW g \in Guard, NEW last, Flowing(q, g, last, 1)
  PROVE  Flowing(q, refilled(g), last, 0)
<1>1. q \in Seq(Input) /\ Len(q) <= MaxFlight /\ g.budget + 1 >= Len(q) + (Burst - MaxFlight)
  BY DEF Flowing
<1> DEFINE n == Len(q)
           b == refilled(g).budget
<1>2. n \in Nat /\ n <= MaxFlight /\ g.budget \in Nat /\ g.budget + 1 >= n + (Burst - MaxFlight)
  <2>1. g.budget \in Nat
    BY GuardIs
  <2>2. n \in Nat
    BY <1>1
  <2>3. QED BY <1>1, <2>1, <2>2
<1>3. b = (IF Burst <= g.budget + Refill THEN Burst ELSE g.budget + Refill)
      /\ refilled(g).lastSeq = g.lastSeq /\ refilled(g).suspicion = g.suspicion
  BY RefilledIs
<1> HIDE DEF n, b
<1>4. b + 0 >= n + (Burst - MaxFlight)
  BY ONLY <1>2, <1>3, ClientNats
<1>5. QED BY <1>1, <1>3, <1>4 DEF Flowing, n, b

LEMMA FlowHears ==
  ASSUME NEW q, NEW g \in Guard, NEW last \in Nat, NEW polled \in {0, 1}, Flowing(q, g, last, polled), q # <<>>
  PROVE  /\ Head(q).seq = g.lastSeq + 1
         /\ Flowing(Tail(q), validateInputBatch(g, Head(q).seq), last, polled)
<1>1. q \in Seq(Input)
  BY DEF Flowing
<1> DEFINE n == Len(q)
           p == Tail(q)
           v == validateInputBatch(g, Head(q).seq)
<1>2. /\ p \in Seq(Input) /\ Len(p) = n - 1 /\ n \in Nat /\ n >= 1 /\ DOMAIN p = 1 .. n - 1 /\ DOMAIN q = 1 .. n
      /\ \A i \in 1 .. n - 1 : i + 1 \in 1 .. n /\ p[i] = q[i + 1]
      /\ Head(q) = q[1] /\ Head(q) \in Input
  BY ONLY <1>1, q # <<>>
<1>3. g.lastSeq \in Nat /\ g.budget \in Nat /\ g.suspicion \in Nat
  BY GuardIs
<1>4. /\ n <= MaxFlight /\ g.suspicion = 0 /\ g.lastSeq + n = last
      /\ g.budget + polled >= n + (Burst - MaxFlight)
      /\ \A i \in 1 .. n : q[i].seq = g.lastSeq + i
  BY <1>2 DEF Flowing
<1>5. Head(q).seq = g.lastSeq + 1 /\ Head(q).seq \in 1 .. MaxCommands
  BY <1>2, <1>4, InputSeq
<1> HIDE DEF n, p
<1>6. g.budget >= 1
  BY ONLY <1>2, <1>3, <1>4, polled \in {0, 1}, ClientNats
<1>7. v.lastSeq = g.lastSeq + 1 /\ v.budget = g.budget - 1 /\ v.suspicion = 0
  <2>1. rejectionOf(g, Head(q).seq) = "none"
    BY <1>5, <1>6, ValidatedIs
  <2>2. QED BY <1>4, <1>5, <2>1, ValidatedIs
<1> HIDE DEF v
<1>8. \A i \in 1 .. n - 1 : p[i].seq = v.lastSeq + i
  <2>1. ASSUME NEW i \in 1 .. n - 1 PROVE p[i].seq = v.lastSeq + i
    <3>1. i + 1 \in 1 .. n /\ p[i].seq = q[i + 1].seq
      BY <1>2, <2>1
    <3>2. p[i].seq = g.lastSeq + (i + 1)
      BY <1>4, <3>1
    <3>3. g.lastSeq + (i + 1) = (g.lastSeq + 1) + i
      <4>1. i \in Nat
        BY <1>2, <2>1
      <4>2. QED BY ONLY <4>1, <1>3
    <3>4. QED BY <1>7, <3>2, <3>3
  <2>2. QED BY <2>1
<1>9. n - 1 <= MaxFlight /\ v.lastSeq + (n - 1) = last /\ v.budget + polled >= (n - 1) + (Burst - MaxFlight)
  <2>1. /\ n \in Nat /\ n >= 1 /\ n <= MaxFlight /\ g.lastSeq + n = last
        /\ g.budget + polled >= n + (Burst - MaxFlight)
    BY <1>2, <1>4
  <2>2. n - 1 <= MaxFlight
    BY ONLY <2>1, ClientNats
  <2>3. v.lastSeq + (n - 1) = last
    BY ONLY <2>1, <1>3, <1>7
  <2>4. v.budget + polled >= (n - 1) + (Burst - MaxFlight)
    BY ONLY <2>1, <1>3, <1>7, polled \in {0, 1}, ClientNats
  <2>5. QED BY <2>2, <2>3, <2>4
<1>10. QED BY <1>2, <1>5, <1>7, <1>8, <1>9 DEF Flowing, p, v

LEMMA PacedInvStep ==
  PageTyped /\ EngineTyped /\ NodeTyped /\ PageInv /\ PacedInv /\ ClientNext => PacedInv'
<1> SUFFICES ASSUME PageTyped, EngineTyped, NodeTyped, PageInv, PacedInv, ClientNext, lost' = 0 PROVE PacedInv'
  BY DEF PacedInv
<1> USE DEF serverSide
<1> DEFINE Before == /\ Len(up) = 0 /\ DOMAIN guards = {} /\ conn = 0 /\ outbox = <<>>
                     /\ engine.sequence = 0 /\ ~engine.alive /\ ~engine.polled
           During == /\ Len(up) = 1 /\ DOMAIN guards = {1} /\ conn = 1 /\ outbox = <<>>
                     /\ Flowing(up[1], guards[1], engine.sequence, Polled)
<1>1. lost \in Nat /\ up \in Seq(Seq(Input \cup Leave))
  BY DEF PageTyped
<1>2. lost = 0 /\ ~disconnect /\ (conn # 0 => ~cleanup /\ ~leave)
  <2>1. lost' = lost \/ (lost' = lost + 1 /\ conn # 0)
    <3>1. CASE cleanup \/ leave \/ disconnect
      BY <3>1 DEF cleanup, leave, disconnect
    <3>2. CASE ~(cleanup \/ leave \/ disconnect)
      BY <3>2 DEF ClientNext, mount, initialised, connect, connectError, evict, reap, onFrame,
           interval, decaySuspicion, tick, onMessage, closed, onInput, onLeave
    <3>3. QED BY <3>1, <3>2
  <2>2. ~(lost' = lost + 1)
    BY ONLY <1>1, lost' = 0
  <2>3. disconnect \/ (conn # 0 /\ (cleanup \/ leave)) => lost' = lost + 1
    BY DEF disconnect, cleanup, leave
  <2>4. QED BY <2>1, <2>2, <2>3
<1>3. Before \/ During
  BY <1>2 DEF PacedInv
<1>4. Before' \/ During' => PacedInv'
  BY DEF PacedInv
<1> HIDE DEF Before, During
<1>5. ASSUME UNCHANGED <<up, guards, conn, outbox, engine>> PROVE Before' \/ During'
  BY <1>3, <1>5 DEF Before, During, Polled
<1>6. CASE mount \/ initialised \/ connectError \/ evict \/ reap \/ tick
  <2>1. UNCHANGED <<up, guards, conn, outbox, engine>>
    BY <1>6 DEF mount, initialised, connectError, evict, reap, tick
  <2>2. QED BY <1>4, <1>5, <2>1
<1>7. CASE cleanup \/ leave
  <2>1. conn = 0 /\ Before
    BY <1>2, <1>3, <1>7 DEF During
  <2>2. UNCHANGED <<up, guards>> /\ engine' = freshEngine /\ conn' = 0 /\ outbox' = <<>>
    BY <1>7, <2>1 DEF cleanup, leave
  <2>3. Before'
    BY <2>1, <2>2, FreshIs DEF Before
  <2>4. QED BY <1>4, <2>3
<1>8. CASE connect
  <2>1. Before
    BY <1>3, <1>8 DEF connect, During
  <2>2. /\ up' = Append(up, <<>>) /\ outbox' = <<>> /\ UNCHANGED engine /\ conn' = 1
        /\ guards' = put(guards, 1, createGuardState)
    BY <1>8, <2>1 DEF connect, Opened, Before
  <2>3. up = <<>> /\ Len(up') = 1 /\ up'[1] = <<>>
    BY <1>1, <2>1, <2>2 DEF Before
  <2>4. DOMAIN guards' = {1} /\ guards'[1] = createGuardState
    BY <2>1, <2>2 DEF put, Before
  <2>5. Flowing(<<>>, createGuardState, 0, 0)
    <3>1. <<>> \in Seq(Input) /\ Len(<<>>) = 0 /\ DOMAIN <<>> = {}
      OBVIOUS
    <3>2. createGuardState.suspicion = 0 /\ createGuardState.lastSeq = 0 /\ createGuardState.budget = Burst
      BY DEF createGuardState
    <3>3. Burst + 0 >= 0 + (Burst - MaxFlight) /\ 0 <= MaxFlight
      BY ONLY ClientNats
    <3>4. QED BY <3>1, <3>2, <3>3 DEF Flowing
  <2>6. engine'.sequence = 0 /\ Polled' = 0
    BY <2>1, <2>2 DEF Before, Polled
  <2>7. During'
    BY <2>2, <2>3, <2>4, <2>5, <2>6 DEF During
  <2>8. QED BY <1>4, <2>7
<1>9. CASE disconnect
  BY <1>2, <1>9
<1>10. ASSUME During
       PROVE  /\ guards[1] \in Guard /\ engine.sequence \in Nat /\ Polled \in {0, 1} /\ up[1] \in Seq(Input) /\ 1 \in DOMAIN up
  <2>1. up[1] \in Seq(Input) /\ 1 \in DOMAIN guards
    BY <1>10 DEF During, Flowing
  <2>2. guards[1] \in Guard
    BY <2>1, NodeFields
  <2>3. 1 \in DOMAIN up
    BY <1>1, <1>10 DEF During
  <2>4. QED BY <2>1, <2>2, <2>3, EngineFields DEF Polled
<1>11. CASE onFrame
  <2> DEFINE c == [type |-> "input", seq |-> engine.sequence + 1]
  <2>1. During
    BY <1>3, <1>11 DEF onFrame, Before
  <2>2. ~engine.polled /\ Len(up[1]) < MaxFlight /\ up' = [up EXCEPT ![1] = Append(up[1], c)]
        /\ UNCHANGED <<outbox, guards, conn>> /\ engine.sequence < MaxCommands
    BY <1>11, <2>1 DEF onFrame, During
  <2>3. c \in Input /\ c.seq = engine.sequence + 1
    <3>1. engine.sequence + 1 \in 1 .. MaxCommands
      BY ONLY <1>10, <2>1, <2>2, ClientNats
    <3>2. QED BY <3>1 DEF Input
  <2>4. engine'.sequence = engine.sequence + 1 /\ engine'.polled = TRUE
    BY <1>11, FramePredicts
  <2> HIDE DEF c
  <2>5. Flowing(Append(up[1], c), guards[1], engine.sequence + 1, 1)
    <3>1. Flowing(up[1], guards[1], engine.sequence, 0)
      BY <2>1, <2>2 DEF During, Polled
    <3>2. QED BY <1>10, <2>1, <2>2, <2>3, <3>1, FlowSends
  <2>6. Len(up') = 1 /\ up'[1] = Append(up[1], c)
    BY <1>1, <1>10, <2>1, <2>2 DEF During
  <2>7. During'
    BY <2>1, <2>2, <2>4, <2>5, <2>6 DEF During, Polled
  <2>8. QED BY <1>4, <2>7
<1>12. CASE interval
  <2>1. engine.polled /\ engine'.sequence = engine.sequence /\ engine'.polled = FALSE
    BY <1>12, IntervalIs
  <2>2. During
    BY <1>3, <2>1 DEF Before
  <2>3. UNCHANGED <<up, conn, outbox>> /\ guards' = [s \in DOMAIN guards |-> refilled(guards[s])]
    BY <1>12 DEF interval
  <2>4. Flowing(up[1], refilled(guards[1]), engine.sequence, 0)
    <3>1. Flowing(up[1], guards[1], engine.sequence, 1)
      BY <2>1, <2>2 DEF During, Polled
    <3>2. QED BY <1>10, <2>2, <3>1, FlowRefills
  <2>5. DOMAIN guards' = {1} /\ guards'[1] = refilled(guards[1])
    BY <2>2, <2>3 DEF During
  <2>6. During'
    BY <2>1, <2>2, <2>3, <2>4, <2>5 DEF During, Polled
  <2>7. QED BY <1>4, <2>6
<1>13. CASE decaySuspicion
  <2>1. PICK s \in DOMAIN guards : guards[s].suspicion > 0
    BY <1>13 DEF decaySuspicion
  <2>2. QED BY <1>3, <2>1 DEF Before, During, Flowing
<1>14. CASE onMessage
  <2>1. UNCHANGED <<up, guards, conn, outbox>> /\ conn # 0
    BY <1>14 DEF onMessage
  <2>2. During
    BY <1>3, <2>1 DEF Before
  <2>3. engine'.sequence = engine.sequence /\ engine'.polled = engine.polled
    <3>1. conn # 0 /\ down[conn] # <<>>
      BY <1>14 DEF onMessage
    <3>2. QED BY <1>14, <3>1, HearingIs, JoinedIs, SnapshotHeard, HeardIs
  <2>4. During'
    BY <2>1, <2>2, <2>3 DEF During, Polled
  <2>5. QED BY <1>4, <2>4
<1>15. ASSUME NEW s \in 1 .. MaxSockets, closed(s) PROVE FALSE
  BY <1>3, <1>15 DEF closed, Before, During
<1>16. ASSUME NEW s \in 1 .. MaxSockets, onLeave(s) PROVE FALSE
  <2>1. s \in DOMAIN guards /\ up[s] # <<>> /\ Head(up[s]).type = "leave"
    BY <1>16 DEF onLeave
  <2>2. During /\ s = 1
    BY <1>3, <2>1 DEF Before, During
  <2>3. up[s] \in Seq(Input)
    BY <1>10, <2>2
  <2>4. Head(up[s]) \in Input
    BY ONLY <2>1, <2>3
  <2>5. QED BY <2>1, <2>4 DEF Input
<1>17. ASSUME NEW s \in 1 .. MaxSockets, onInput(s) PROVE PacedInv'
  <2> DEFINE v == validateInputBatch(guards[s], Head(up[s]).seq)
  <2>1. s \in DOMAIN guards /\ up[s] # <<>> /\ UNCHANGED <<engine, conn, outbox>>
        /\ up' = [up EXCEPT ![s] = Tail(up[s])] /\ guards' = [guards EXCEPT ![s] = v]
    BY <1>17 DEF onInput
  <2>2. During /\ s = 1
    BY <1>3, <2>1 DEF Before, During
  <2>3. Flowing(Tail(up[1]), v, engine.sequence, Polled)
    BY SMTT(30), <1>10, <2>1, <2>2, FlowHears DEF During
  <2> HIDE DEF v
  <2>4. Len(up') = 1 /\ up'[1] = Tail(up[1])
    BY <1>1, <1>10, <2>1, <2>2 DEF During
  <2>5. DOMAIN guards' = {1} /\ guards'[1] = v
    BY <2>1, <2>2 DEF During
  <2>6. During'
    BY <2>1, <2>2, <2>3, <2>4, <2>5 DEF During, Polled
  <2>7. QED BY <1>4, <2>6
<1>18. QED BY <1>6, <1>7, <1>8, <1>9, <1>11, <1>12, <1>13, <1>14, <1>15, <1>16, <1>17 DEF ClientNext

ClientHolds == PageTyped /\ EngineTyped /\ NodeTyped /\ PageInv /\ AloneInv /\ PacedInv

LEMMA ClientStarts == ClientInit => ClientHolds
<1> SUFFICES ASSUME ClientInit PROVE ClientHolds
  OBVIOUS
<1>1. PageTyped /\ EngineTyped /\ NodeTyped
  BY ClientBegins
<1>2. /\ engines = <<>> /\ engine = freshEngine /\ status = "idle" /\ conn = 0 /\ outbox = <<>> /\ up = <<>> /\ down = <<>>
      /\ guards = <<>> /\ lost = 0 /\ left = FALSE /\ snake.queue = <<>> /\ snake.lastAckSeq = 0
  BY DEF ClientInit
<1>3. PageInv
  BY <1>2 DEF PageInv
<1>4. Sent(up, outbox, engine.sequence) /\ Steered(up, outbox, snake.queue, snake.lastAckSeq)
  <2>1. up \in Seq(Seq(Input)) /\ outbox \in Seq(Input) /\ DOMAIN up = {} /\ DOMAIN outbox = {} /\ DOMAIN snake.queue = {}
    BY <1>2, EmptySeq
  <2>2. QED BY <2>1 DEF Sent, Steered
<1>5. Acked
  BY <1>2, FreshIs DEF Acked
<1>6. PacedInv
  BY <1>2, FreshIs DEF PacedInv
<1>7. QED BY <1>1, <1>3, <1>4, <1>5, <1>6 DEF ClientHolds, AloneInv

LEMMA ClientSteps == ClientHolds /\ [ClientNext]_clientVars => ClientHolds'
<1> SUFFICES ASSUME ClientHolds, [ClientNext]_clientVars PROVE ClientHolds'
  OBVIOUS
<1>1. PageTyped /\ EngineTyped /\ NodeTyped /\ PageInv /\ AloneInv /\ PacedInv
  BY DEF ClientHolds
<1>2. CASE ClientNext
  <2>1. PageTyped' /\ EngineTyped' /\ NodeTyped'
    BY <1>1, <1>2, PageTypedStep, EngineTypedStep, NodeTypedStep
  <2>2. PageInv' /\ AloneInv' /\ PacedInv'
    BY <1>1, <1>2, <2>1, PageInvStep, AloneInvStep, PacedInvStep
  <2>3. QED BY <2>1, <2>2 DEF ClientHolds
<1>3. CASE UNCHANGED clientVars
  <2> USE <1>1, <1>3 DEF clientVars
  <2>1. PageTyped'
    BY DEF PageTyped
  <2>2. EngineTyped'
    BY DEF EngineTyped
  <2>3. NodeTyped'
    BY DEF NodeTyped
  <2>4. PageInv'
    BY DEF PageInv, Running, Mounted
  <2>5. AloneInv'
    BY DEF AloneInv, Alone, Acked, Mounted
  <2>6. PacedInv'
    BY DEF PacedInv, Polled
  <2>7. QED BY <2>1, <2>2, <2>3, <2>4, <2>5, <2>6 DEF ClientHolds
<1>4. QED BY <1>2, <1>3

LEMMA ClientHoldsImplies == ClientHolds => ClientInv
<1> SUFFICES ASSUME ClientHolds PROVE ClientInv
  OBVIOUS
<1>1. PageTyped /\ EngineTyped /\ NodeTyped /\ PageInv /\ AloneInv /\ PacedInv
  BY DEF ClientHolds
<1>2. /\ engine.sequence \in 0 .. MaxCommands /\ engine.sequence \in Nat
      /\ Ordered(engine.buffer) /\ Len(engine.buffer) <= BufferSize
      /\ Newest(engine.pending, engine.sequence) /\ Len(engine.pending) <= MaxPending
  BY <1>1, EngineFields
<1>3. /\ \A s \in DOMAIN guards : guards[s] \in Guard
      /\ seat.held \in BOOLEAN /\ (seat.held => seat.socket = Len(up) /\ Len(up) > 0)
      /\ (~seat.held => snake.queue = <<>>)
  BY <1>1, NodeFields
<1>4. /\ Len(up) \in Nat /\ Len(down) = Len(up) /\ conn \in {0, Len(up)} /\ engines \in Seq(EngineStates)
      /\ status \in {"idle", "connected", "reconnecting", "disconnected"}
  BY <1>1 DEF PageTyped
<1>5. ClientTypeOK
  <2>1. conn \in 0 .. Opened /\ Len(down) = Opened
    BY <1>4 DEF Opened
  <2>2. \A s \in DOMAIN guards : guards[s].budget \in 0 .. Burst /\ guards[s].suspicion \in 0 .. Suspicious
    BY <1>3, GuardIs
  <2>3. seat.held => seat.socket \in 1 .. Opened
    BY <1>3, <1>4 DEF Opened
  <2>4. engines \in Seq({"initialising", "cancelled", "running", "destroyed"})
    BY <1>4 DEF EngineStates
  <2>5. QED BY <1>2, <1>4, <2>1, <2>2, <2>3, <2>4 DEF ClientTypeOK
<1>6. OneEngine
  BY <1>1 DEF PageInv, OneEngine, Current
<1>7. FramesEnclose
  <2> SUFFICES ASSUME engine.buffer # <<>>, NEW t \in 0 .. MaxClock + 1
               PROVE  LET frame == sampleAt(engine.buffer, t)
                      IN  /\ frame.stale => \A i \in DOMAIN engine.buffer : engine.buffer[i] <= frame.from
                          /\ frame.from # frame.to => frame.from <= t /\ t <= frame.to /\ frame.from < frame.to
                          /\ frame.from = frame.to /\ ~frame.stale => t <= frame.from
    BY DEF FramesEnclose
  <2>1. t \in Nat
    BY ONLY t \in 0 .. MaxClock + 1, ClientNats
  <2>2. QED BY <1>2, <2>1, FrameEncloses
<1>8. ReplayIsExact
  <2>1. engine.pending = [i \in DOMAIN engine.pending |-> engine.sequence - Len(engine.pending) + i]
    <3>1. /\ engine.pending \in Seq(Nat)
          /\ \A i \in DOMAIN engine.pending : engine.pending[i] = engine.sequence - Len(engine.pending) + i
      BY <1>2 DEF Newest
    <3>2. QED BY ONLY <3>1
  <2>2. Current = 1 => \A i \in DOMAIN engine.pending : engine.pending[i] > engine.ack
    <3> SUFFICES ASSUME Current = 1 PROVE \A i \in DOMAIN engine.pending : engine.pending[i] > engine.ack
      OBVIOUS
    <3>1. CASE Mounted
      BY <1>1, <3>1 DEF AloneInv, Alone, Acked, Current
    <3>2. CASE ~Mounted
      <4>1. engine.pending = <<>>
        BY <1>1, <3>2, FreshIs DEF PageInv, Running
      <4>2. DOMAIN engine.pending = {}
        BY <4>1
      <4>3. QED BY <4>2
    <3>3. QED BY <3>1, <3>2
  <2>3. QED BY <2>1, <2>2 DEF ReplayIsExact
<1>9. PacedIsAccepted
  BY <1>1 DEF PacedIsAccepted, PacedInv, Flowing
<1>10. EngineIsHeard
  <2> SUFFICES ASSUME Running, Current = 1, NEW i \in Waiting
               PROVE  snake.queue[i].seq \in snake.lastAckSeq + 1 .. engine.sequence
    BY DEF EngineIsHeard
  <2>1. Alone
    BY DEF Running, Alone, Current
  <2>2. i \in DOMAIN snake.queue /\ snake.queue[i].socket = seat.socket
    BY DEF Waiting
  <2>3. seat.held
    BY <1>3, <2>2
  <2>4. snake.queue[i].socket = Len(up)
    BY <1>3, <2>2, <2>3
  <2>5. snake.queue[i].seq > snake.lastAckSeq /\ snake.queue[i].seq <= engine.sequence
    BY <1>1, <2>1, <2>2, <2>4 DEF AloneInv, Steered, Acked
  <2>6. snake.queue[i].seq \in Nat /\ snake.lastAckSeq \in Nat
    BY <1>1, <2>2, QueueFacts, NodeFields
  <2>7. QED BY ONLY <2>5, <2>6, <1>2
<1>11. QED BY <1>5, <1>6, <1>7, <1>8, <1>9, <1>10 DEF ClientInv

(***************************************************************************)
(* Whatever the bounds, the buffers and the guard's parameters: through    *)
(* remounts, lost sockets and late packets the page runs one engine, every *)
(* render time is shown from snapshots that enclose it (pushSnapshot,      *)
(* sampleAt), what is kept for replay is exactly what is unacknowledged    *)
(* (pushPrediction, reconcile), and a player who keeps to the send rate is *)
(* accepted and steers the snake (consumeInputBudget, isSequenceValid).    *)
(***************************************************************************)
THEOREM ClientPlaysOn == ClientSpec => []ClientInv
<1>1. ClientInit => ClientHolds
  BY ClientStarts
<1>2. ClientHolds /\ [ClientNext]_clientVars => ClientHolds'
  BY ClientSteps
<1>3. ClientHolds => ClientInv
  BY ClientHoldsImplies
<1>4. QED BY <1>1, <1>2, <1>3, PTL DEF ClientSpec

-----------------------------------------------------------------------------
(***************************************************************************)
(* The wire protocol.  The invariant says where every field the encoder    *)
(* has written lies, and that the decoder stands where the next field      *)
(* begins; the places are sums over the snakes that come before.           *)
(***************************************************************************)
LEMMA WireNats ==
  /\ MaxSnakes \in Nat /\ MaxPoints \in Nat /\ MaxPellets \in Nat /\ MaxRemoved \in Nat
  /\ MaxChars \in Nat /\ Half \in Nat /\ Reach \in Nat /\ 3 * MaxChars < 256
  /\ MaxSnakes < 65536 /\ MaxPoints < 65536 /\ MaxPellets < 65536 /\ MaxRemoved < 65536
<1>1. /\ {MaxSnakes, MaxPoints, MaxPellets, MaxRemoved, MaxChars, Half, Reach} \subseteq Nat
      /\ 3 * MaxChars < 256
      /\ MaxSnakes < 65536 /\ MaxPoints < 65536 /\ MaxPellets < 65536 /\ MaxRemoved < 65536
  BY WireConstants
<1>2. QED BY ONLY <1>1

LEMMA FitsWidth == \A x \in Nat : (x < 256 => u8(x) = x) /\ (x < 65536 => u16(x) = x)
BY DEF u8, u16

(* What a snapshot is.                                                     *)
SnakeSent(s) ==
  /\ s.chars \in Nat /\ s.bytes \in Nat /\ s.points \in Nat /\ s.at \in Int
  /\ s.bytes < 256 /\ s.points < 65536 /\ s.bytes <= 3 * s.chars

SnapshotSent(s) ==
  /\ s.snakes \in Seq(SnakeState) /\ Len(s.snakes) \in Nat /\ Len(s.snakes) < 65536
  /\ \A i \in 1 .. Len(s.snakes) : SnakeSent(s.snakes[i])
  /\ s.food \in Nat /\ s.food < 65536 /\ s.removedSnakes \in Nat /\ s.removedSnakes < 65536
  /\ s.removedFood \in Nat /\ s.removedFood < 65536

LEMMA SnapshotIs ==
  ASSUME NEW s \in Snapshots
  PROVE  SnapshotSent(s)
<1> DEFINE Named == {x \in SnakeState : IsNickname(x)}
<1>1. /\ s.snakes \in UNION {[1 .. n -> Named] : n \in 0 .. MaxSnakes}
      /\ s.food \in 0 .. MaxPellets /\ s.removedSnakes \in 0 .. MaxRemoved /\ s.removedFood \in 0 .. MaxRemoved
  BY DEF Snapshots
<1>2. ASSUME NEW x \in Named PROVE SnakeSent(x)
  <2>1. /\ x.chars \in 0 .. MaxChars /\ x.bytes \in 0 .. 3 * MaxChars /\ x.points \in 0 .. MaxPoints
        /\ x.at \in -Reach .. Reach /\ x.bytes <= 3 * x.chars
    BY DEF SnakeState, IsNickname
  <2> DEFINE c == x.chars
             b == x.bytes
             p == x.points
             a == x.at
  <2>2. c \in 0 .. MaxChars /\ b \in 0 .. 3 * MaxChars /\ p \in 0 .. MaxPoints /\ a \in -Reach .. Reach
    BY <2>1
  <2> HIDE DEF c, b, p, a
  <2>3. c \in Nat /\ b \in Nat /\ p \in Nat /\ a \in Int /\ b < 256 /\ p < 65536
    BY ONLY <2>2, WireNats
  <2>4. QED BY <2>1, <2>3 DEF SnakeSent, c, b, p, a
<1>3. PICK n \in 0 .. MaxSnakes : s.snakes \in [1 .. n -> Named]
  BY <1>1
<1>4. n \in Nat /\ n < 65536
  BY <1>3, WireNats
<1> DEFINE q == s.snakes
<1>5. q \in Seq(Named) /\ DOMAIN q = 1 .. n
  BY <1>3, <1>4, SeqDef
<1> HIDE DEF q, Named
<1>6. Len(q) = n /\ \A i \in 1 .. n : q[i] \in Named
  BY ONLY <1>3, <1>4, <1>5
<1>7. q \in Seq(SnakeState)
  <2>1. Named \subseteq SnakeState
    BY DEF Named
  <2>2. q \in [1 .. n -> SnakeState]
    BY <1>3, <2>1 DEF q
  <2>3. QED BY <1>4, <2>2, SeqDef
<1>8. /\ s.food \in Nat /\ s.food < 65536 /\ s.removedSnakes \in Nat /\ s.removedSnakes < 65536
      /\ s.removedFood \in Nat /\ s.removedFood < 65536
  BY <1>1, WireNats
<1>9. QED BY <1>2, <1>4, <1>6, <1>7, <1>8 DEF SnapshotSent, q

(***************************************************************************)
(* Where the fields of a snapshot begin.                                   *)
(***************************************************************************)
StartOf(s, k) == HeaderBytes + Total([i \in 1 .. k |-> snakeBytes(s.snakes[i])])
At(s, k, f, r, q) == StartOf(s, k) + 9 * f + UuidBytes * r + 4 * q

LEMMA SnakeBytesAre ==
  ASSUME NEW s, SnakeSent(s)
  PROVE  snakeBytes(s) \in Nat /\ snakeBytes(s) = 26 + s.bytes + 4 * s.points
BY DEF SnakeSent, snakeBytes, UuidBytes

LEMMA StartIs ==
  ASSUME NEW s, SnapshotSent(s)
  PROVE  /\ StartOf(s, 0) = HeaderBytes
         /\ \A k \in 0 .. Len(s.snakes) : StartOf(s, k) \in Nat /\ StartOf(s, k) >= HeaderBytes
         /\ \A k \in 1 .. Len(s.snakes) : StartOf(s, k) = StartOf(s, k - 1) + snakeBytes(s.snakes[k])
<1> DEFINE n == Len(s.snakes)
           b(k) == [i \in 1 .. k |-> snakeBytes(s.snakes[i])]
<1>1. n \in Nat /\ \A i \in 1 .. n : snakeBytes(s.snakes[i]) \in Nat
  BY SnakeBytesAre DEF SnapshotSent
<1>2. \A k \in 0 .. n : \A i \in 1 .. k : i \in 1 .. n
  BY <1>1
<1>3. \A k \in 0 .. n : b(k) \in [1 .. k -> Nat]
  BY <1>1, <1>2
<1> HIDE DEF n
<1>4. ASSUME NEW k \in 1 .. n PROVE Total(b(k)) = Total(b(k - 1)) + snakeBytes(s.snakes[k])
  <2>1. k - 1 \in Nat /\ (k - 1) + 1 = k /\ k - 1 \in 0 .. n /\ k \in 0 .. n /\ k \in 1 .. k
    BY <1>1
  <2>2. b(k - 1) \in [1 .. (k - 1) -> Nat] /\ b(k) \in [1 .. ((k - 1) + 1) -> Nat]
    BY <1>3, <2>1
  <2>3. \A i \in 1 .. (k - 1) : i \in 1 .. k
    BY <2>1
  <2>4. (\A i \in 1 .. (k - 1) : b(k)[i] = b(k - 1)[i]) /\ b(k)[k] = snakeBytes(s.snakes[k])
    BY <2>1, <2>3
  <2> DEFINE f == b(k - 1)
             g == b(k)
  <2> HIDE DEF f, g
  <2>5. Total(g) = Total(f) + g[(k - 1) + 1]
    <3>1. f \in [1 .. (k - 1) -> Nat] /\ g \in [1 .. ((k - 1) + 1) -> Nat]
          /\ \A i \in 1 .. (k - 1) : g[i] = f[i]
      BY <2>2, <2>4 DEF f, g
    <3>2. QED BY ONLY <2>1, <3>1, TotalAppend
  <2>6. QED BY <2>1, <2>4, <2>5 DEF f, g
<1>5. ASSUME NEW k \in 0 .. n PROVE Total(b(k)) \in Nat
  <2>1. k \in Int /\ 1 \in Int
    BY <1>1
  <2>2. IsFiniteSet(1 .. k)
    BY <2>1, FS_Interval
  <2>3. b(k) \in [1 .. k -> Nat]
    BY <1>3
  <2> HIDE DEF b
  <2>4. QED BY <2>2, <2>3, TotalType
<1>6. Total(b(0)) = 0
  <2>1. b(0) = [i \in 1 .. 0 |-> 0]
    OBVIOUS
  <2>2. Total([i \in 1 .. 0 |-> 0]) = 0
    BY TotalZero
  <2>3. QED BY <2>1, <2>2
<1>7. \A k : StartOf(s, k) = HeaderBytes + Total(b(k))
  BY DEF StartOf
<1> HIDE DEF b
<1>9. ASSUME NEW k \in 0 .. n PROVE StartOf(s, k) \in Nat /\ StartOf(s, k) >= HeaderBytes
  <2>1. Total(b(k)) \in Nat /\ StartOf(s, k) = HeaderBytes + Total(b(k))
    BY <1>5, <1>7
  <2>2. QED BY ONLY <2>1 DEF HeaderBytes
<1>10. StartOf(s, 0) = HeaderBytes
  <2>1. StartOf(s, 0) = HeaderBytes + Total(b(0))
    BY <1>7
  <2>2. QED BY ONLY <2>1, <1>6 DEF HeaderBytes
<1>11. ASSUME NEW k \in 1 .. n PROVE StartOf(s, k) = StartOf(s, k - 1) + snakeBytes(s.snakes[k])
  <2>1. k \in 0 .. n /\ k - 1 \in 0 .. n
    BY ONLY <1>1, <1>11
  <2>2. /\ StartOf(s, k) = HeaderBytes + Total(b(k)) /\ StartOf(s, k - 1) = HeaderBytes + Total(b(k - 1))
        /\ Total(b(k - 1)) \in Nat /\ snakeBytes(s.snakes[k]) \in Nat
        /\ Total(b(k)) = Total(b(k - 1)) + snakeBytes(s.snakes[k])
    BY <1>1, <1>4, <1>5, <1>7, <2>1
  <2> DEFINE u == Total(b(k - 1))
             v == snakeBytes(s.snakes[k])
  <2>3. u \in Nat /\ v \in Nat /\ StartOf(s, k) = HeaderBytes + (u + v) /\ StartOf(s, k - 1) = HeaderBytes + u
    BY <2>2
  <2> HIDE DEF u, v
  <2>4. StartOf(s, k) = StartOf(s, k - 1) + v
    BY ONLY <2>3 DEF HeaderBytes
  <2>5. QED BY <2>4 DEF v
<1>12. QED BY <1>9, <1>10, <1>11 DEF n

LEMMA TotalUnder ==
  ASSUME NEW n \in Nat, NEW k \in 0 .. n, NEW f, NEW g, f \in [1 .. n -> Nat], g \in [1 .. n -> Nat],
         \A i \in 1 .. n : f[i] <= g[i], NEW b, b = [i \in 1 .. k |-> f[i]]
  PROVE  Total(b) <= Total(g)
<1> DEFINE D == 1 .. n
           W == 1 .. k
           p == [i \in D |-> IF i \in W THEN b[i] ELSE 0]
           d == [i \in D |-> g[i] - p[i]]
<1>1. IsFiniteSet(D) /\ W \in SUBSET D
  BY FS_Interval
<1>2. b \in [W -> Nat]
  OBVIOUS
<1>3. \A i \in D : p[i] \in Nat /\ p[i] <= g[i] /\ g[i] \in Nat
  OBVIOUS
<1>4. p \in [D -> Nat] /\ DOMAIN p = D
  BY <1>3
<1>5. d \in [D -> Nat]
  <2>1. \A i \in D : g[i] - p[i] \in Nat
    BY ONLY <1>3
  <2>2. QED BY <2>1
<1>6. \A i \in D : g[i] = p[i] + d[i]
  <2>1. \A i \in D : d[i] = g[i] - p[i]
    OBVIOUS
  <2>2. QED BY ONLY <1>3, <2>1
<1>7. Total(p) = Total(b)
  <2> HIDE DEF D, W
  <2>1. Total([i \in D |-> IF i \in W THEN b[i] ELSE 0]) = Total(b)
    BY ONLY <1>1, <1>2, TotalExtend
  <2>2. QED BY ONLY <2>1
<1> HIDE DEF p, d
<1>8. Total(g) = Total(p) + Total(d)
  <2>1. g \in [D -> Nat]
    OBVIOUS
  <2> HIDE DEF D
  <2>2. QED BY ONLY <1>1, <1>4, <1>5, <1>6, <2>1, TotalAdd
<1>9. Total(p) \in Nat /\ Total(d) \in Nat
  <2> HIDE DEF D
  <2>1. QED BY <1>1, <1>4, <1>5, TotalType
<1>10. QED BY ONLY <1>7, <1>8, <1>9

(* Each snake takes no more bytes than are estimated for it, so whatever   *)
(* has been written fits.                                                  *)
LEMMA EstimateCovers ==
  ASSUME NEW s, SnapshotSent(s), NEW k \in 0 .. Len(s.snakes), NEW f \in 0 .. s.food,
         NEW r \in 0 .. s.removedSnakes, NEW q \in 0 .. s.removedFood
  PROVE  At(s, k, f, r, q) <= estimateSize(s) /\ estimateSize(s) \in Nat
<1> DEFINE n == Len(s.snakes)
           guess(i) == UuidBytes + 1 + s.snakes[i].chars * 3 + 9 + s.snakes[i].points * 4
           g == [i \in 1 .. n |-> guess(i)]
           h == [i \in 1 .. n |-> snakeBytes(s.snakes[i])]
           b == [i \in 1 .. k |-> h[i]]
<1>1. n \in Nat /\ \A i \in 1 .. n : SnakeSent(s.snakes[i])
  BY DEF SnapshotSent
<1>2. ASSUME NEW i \in 1 .. n
      PROVE  snakeBytes(s.snakes[i]) \in Nat /\ guess(i) \in Nat /\ snakeBytes(s.snakes[i]) <= guess(i)
  <2>1. PICK x : x = s.snakes[i]
    OBVIOUS
  <2>2. SnakeSent(x)
    BY <1>1, <2>1
  <2> DEFINE c == x.chars
             y == x.bytes
             p == x.points
  <2>3. c \in Nat /\ y \in Nat /\ p \in Nat /\ y <= 3 * c
    BY <2>2 DEF SnakeSent
  <2>4. guess(i) = UuidBytes + 1 + c * 3 + 9 + p * 4 /\ snakeBytes(s.snakes[i]) = 26 + y + 4 * p
    BY <2>1, <2>2, SnakeBytesAre
  <2> HIDE DEF c, y, p, guess
  <2>5. QED BY ONLY <2>3, <2>4 DEF UuidBytes
<1> HIDE DEF guess
<1>3. g \in [1 .. n -> Nat] /\ h \in [1 .. n -> Nat] /\ \A i \in 1 .. n : h[i] <= g[i]
  BY <1>2
<1>4. b = [i \in 1 .. k |-> snakeBytes(s.snakes[i])]
  <2>1. \A i \in 1 .. k : i \in 1 .. n
    BY <1>1
  <2>2. QED BY <2>1
<1>5. Total(b) <= Total(g)
  <2>1. k \in 0 .. n /\ b = [i \in 1 .. k |-> h[i]]
    OBVIOUS
  <2> HIDE DEF g, h, b, n
  <2>2. QED BY <1>1, <1>3, <2>1, TotalUnder
<1>6. Total(b) \in Nat /\ Total(g) \in Nat
  <2>1. b \in [1 .. k -> Nat]
    BY <1>1, <1>2
  <2>2. IsFiniteSet(1 .. k) /\ IsFiniteSet(1 .. n)
    BY <1>1, FS_Interval
  <2> HIDE DEF g, b
  <2>3. QED BY <1>3, <2>1, <2>2, TotalType
<1>7. At(s, k, f, r, q) = HeaderBytes + Total(b) + 9 * f + UuidBytes * r + 4 * q
  <2> HIDE DEF b, h
  <2>1. QED BY <1>4 DEF At, StartOf
<1>8. estimateSize(s) = HeaderBytes + Total(g) + s.food * 9 + s.removedSnakes * UuidBytes + s.removedFood * 4
  BY DEF estimateSize, guess
<1> DEFINE tb == Total(b)
           tg == Total(g)
           sf == s.food
           sr == s.removedSnakes
           sq == s.removedFood
<1>9. /\ tb \in Nat /\ tg \in Nat /\ tb <= tg /\ sf \in Nat /\ sr \in Nat /\ sq \in Nat
      /\ f \in 0 .. sf /\ r \in 0 .. sr /\ q \in 0 .. sq
      /\ At(s, k, f, r, q) = HeaderBytes + tb + 9 * f + UuidBytes * r + 4 * q
      /\ estimateSize(s) = HeaderBytes + tg + sf * 9 + sr * UuidBytes + sq * 4
  BY <1>5, <1>6, <1>7, <1>8 DEF SnapshotSent
<1> HIDE DEF tb, tg, sf, sr, sq
<1>10. QED BY ONLY <1>9 DEF HeaderBytes, UuidBytes

LEMMA AtIs ==
  ASSUME NEW s, SnapshotSent(s)
  PROVE  /\ At(s, 0, 0, 0, 0) = HeaderBytes
         /\ \A k \in 0 .. Len(s.snakes) : At(s, k, 0, 0, 0) = StartOf(s, k) /\ StartOf(s, k) \in Nat
         /\ \A k \in 1 .. Len(s.snakes) :
              At(s, k, 0, 0, 0) = At(s, k - 1, 0, 0, 0) + snakeBytes(s.snakes[k])
         /\ \A k \in 0 .. Len(s.snakes), f, r, q \in Nat :
              /\ At(s, k, f, r, q) \in Nat /\ At(s, k, f, r, q) >= HeaderBytes
              /\ At(s, k, f + 1, r, q) = At(s, k, f, r, q) + 9
              /\ At(s, k, f, r + 1, q) = At(s, k, f, r, q) + UuidBytes
              /\ At(s, k, f, r, q + 1) = At(s, k, f, r, q) + 4
<1> DEFINE n == Len(s.snakes)
<1>1. /\ StartOf(s, 0) = HeaderBytes
      /\ \A k \in 0 .. n : StartOf(s, k) \in Nat /\ StartOf(s, k) >= HeaderBytes
      /\ \A k \in 1 .. n : StartOf(s, k) = StartOf(s, k - 1) + snakeBytes(s.snakes[k])
  BY StartIs
<1>2. n \in Nat
  BY DEF SnapshotSent
<1>3. ASSUME NEW k \in 0 .. n PROVE At(s, k, 0, 0, 0) = StartOf(s, k)
  <2>1. PICK c \in Nat : c = StartOf(s, k)
    BY <1>1
  <2>2. At(s, k, 0, 0, 0) = c + 9 * 0 + 16 * 0 + 4 * 0
    BY <2>1 DEF At, UuidBytes
  <2>3. QED BY ONLY <2>1, <2>2
<1>4. ASSUME NEW k \in 0 .. n, NEW f \in Nat, NEW r \in Nat, NEW q \in Nat
      PROVE  /\ At(s, k, f, r, q) \in Nat /\ At(s, k, f, r, q) >= HeaderBytes
             /\ At(s, k, f + 1, r, q) = At(s, k, f, r, q) + 9
             /\ At(s, k, f, r + 1, q) = At(s, k, f, r, q) + UuidBytes
             /\ At(s, k, f, r, q + 1) = At(s, k, f, r, q) + 4
  <2>1. PICK c \in Nat : c = StartOf(s, k) /\ c >= HeaderBytes
    BY <1>1
  <2>2. /\ At(s, k, f, r, q) = c + 9 * f + 16 * r + 4 * q
        /\ At(s, k, f + 1, r, q) = c + 9 * (f + 1) + 16 * r + 4 * q
        /\ At(s, k, f, r + 1, q) = c + 9 * f + 16 * (r + 1) + 4 * q
        /\ At(s, k, f, r, q + 1) = c + 9 * f + 16 * r + 4 * (q + 1)
    BY <2>1 DEF At, UuidBytes
  <2> DEFINE a == At(s, k, f, r, q)
             af == At(s, k, f + 1, r, q)
             ar == At(s, k, f, r + 1, q)
             aq == At(s, k, f, r, q + 1)
  <2> HIDE DEF a, af, ar, aq
  <2>3. /\ f \in Nat /\ r \in Nat /\ q \in Nat /\ c \in Nat /\ c >= 22
        /\ a = c + 9 * f + 16 * r + 4 * q /\ af = c + 9 * (f + 1) + 16 * r + 4 * q
        /\ ar = c + 9 * f + 16 * (r + 1) + 4 * q /\ aq = c + 9 * f + 16 * r + 4 * (q + 1)
    BY <2>1, <2>2 DEF a, af, ar, aq, HeaderBytes
  <2>4. a \in Nat /\ a >= 22 /\ af = a + 9 /\ ar = a + 16 /\ aq = a + 4
    BY ONLY <2>3
  <2>5. QED BY <2>4 DEF a, af, ar, aq, HeaderBytes, UuidBytes
<1>5. \A k \in 1 .. n : k \in 0 .. n /\ k - 1 \in 0 .. n
  BY ONLY <1>2
<1>6. 0 \in 0 .. n
  BY ONLY <1>2
<1> HIDE DEF n
<1>7. QED BY ONLY <1>1, <1>3, <1>4, <1>5, <1>6 DEF n

LEMMA AtIsNat ==
  ASSUME NEW s, SnapshotSent(s), NEW k \in 0 .. Len(s.snakes), NEW f \in Nat, NEW r \in Nat, NEW q \in Nat
  PROVE  At(s, k, f, r, q) \in Nat
BY AtIs

(* The fields are in the buffer, each at its offset.                       *)
Carries(w, fields) == \A o \in DOMAIN fields : o \in DOMAIN w /\ w[o] = fields[o]

(* The counts of one side, within those of the snapshot and in the order   *)
(* the parts are written: a part is begun when the one before is complete. *)
InTurn(s, header, snakes, e) ==
  /\ snakes \in 0 .. Len(s.snakes) /\ e.food \in 0 .. s.food
  /\ e.removedSnakes \in 0 .. s.removedSnakes /\ e.removedFood \in 0 .. s.removedFood
  /\ ~header => snakes = 0
  /\ ~header \/ snakes # Len(s.snakes) => e.food = 0
  /\ ~header \/ snakes # Len(s.snakes) \/ e.food # s.food => e.removedSnakes = 0
  /\ ~header \/ snakes # Len(s.snakes) \/ e.food # s.food \/ e.removedSnakes # s.removedSnakes
       => e.removedFood = 0

IdAt(at) == [o \in {at} |-> F("id", UuidBytes, 0)]
FoodIdAt(at) == [o \in {at} |-> F("foodId", 4, 0)]

(* What the encoder has put into the buffer.                               *)
InBuffer(s, base, w, e) ==
  /\ e.header => Carries(w, headerFields(s))
  /\ \A i \in 1 .. e.snakes : Carries(w, snakeFields(s.snakes[i], base, StartOf(s, i - 1)))
  /\ \A i \in 0 .. e.food - 1 : Carries(w, foodFields(At(s, Len(s.snakes), i, 0, 0)))
  /\ \A i \in 0 .. e.removedSnakes - 1 : Carries(w, IdAt(At(s, Len(s.snakes), s.food, i, 0)))
  /\ \A i \in 0 .. e.removedFood - 1 : Carries(w, FoodIdAt(At(s, Len(s.snakes), s.food, s.removedSnakes, i)))

Counts == [header : BOOLEAN, snakes : Nat, food : Nat, removedSnakes : Nat, removedFood : Nat]

Writing(s, base, w, n, e) ==
  /\ e \in Counts
  /\ InTurn(s, e.header, e.snakes, e)
  /\ n = IF e.header THEN At(s, e.snakes, e.food, e.removedSnakes, e.removedFood) ELSE 0
  /\ \A o \in DOMAIN w : o \in Nat /\ o < n
  /\ InBuffer(s, base, w, e)

Complete(s, e) ==
  /\ e.header /\ e.snakes = Len(s.snakes) /\ e.food = s.food
  /\ e.removedSnakes = s.removedSnakes /\ e.removedFood = s.removedFood

(* What the decoder has made of a snake.                                   *)
Recovered(body, seen, base) ==
  /\ seen.sound /\ seen.points = body.points
  /\ seen.points > 0 /\ (body.at - base) \div 2 \in -Half - 1 .. Half - 1 => seen.at - body.at \in -1 .. 1

SeenSnake == [points : Nat, at : Int, sound : BOOLEAN]
Readings ==
  [header : BOOLEAN, snakes : Seq(SeenSnake), food : Nat, removedSnakes : Nat, removedFood : Nat, sound : BOOLEAN]

Reading(s, base, at, e, g) ==
  /\ g \in Readings
  /\ InTurn(s, g.header, Len(g.snakes), g)
  /\ g.sound /\ (g.header => Complete(s, e))
  /\ at = IF g.header THEN At(s, Len(g.snakes), g.food, g.removedSnakes, g.removedFood) ELSE 0
  /\ \A i \in 1 .. Len(g.snakes) : Recovered(s.snakes[i], g.snakes[i], base)


WireInv ==
  /\ snapshot \in Snapshots /\ origin \in {0, 1}
  /\ Writing(snapshot, origin, wire, written, sent)
  /\ Reading(snapshot, origin, offset, sent, got)

(* Writing beyond what is written disturbs nothing.                        *)
Laid(w, fields) ==
  [o \in DOMAIN w \cup DOMAIN fields |-> IF o \in DOMAIN fields THEN fields[o] ELSE w[o]]

LEMMA LaidBeyond ==
  ASSUME NEW w, NEW fields, NEW n \in Nat, NEW m \in Nat, n <= m,
         \A o \in DOMAIN w : o \in Nat /\ o < n,
         \A o \in DOMAIN fields : o \in Nat /\ n <= o /\ o < m,
         NEW v, v = Laid(w, fields)
  PROVE  /\ \A o \in DOMAIN v : o \in Nat /\ o < m
         /\ Carries(v, fields) /\ \A g : Carries(w, g) => Carries(v, g)
<1>1. /\ DOMAIN v = DOMAIN w \cup DOMAIN fields
      /\ \A o \in DOMAIN fields : v[o] = fields[o]
      /\ \A o \in DOMAIN w : o \notin DOMAIN fields => v[o] = w[o]
  BY DEF Laid
<1>2. \A o \in DOMAIN w : o \in Nat /\ o < m
  OBVIOUS
<1>3. \A o \in DOMAIN w : o \notin DOMAIN fields
  OBVIOUS
<1>4. \A o \in DOMAIN v : o \in Nat /\ o < m
  BY <1>1, <1>2
<1>5. Carries(v, fields)
  BY <1>1 DEF Carries
<1>6. ASSUME NEW g, Carries(w, g) PROVE Carries(v, g)
  BY <1>1, <1>3, <1>6 DEF Carries
<1>7. QED BY <1>4, <1>5, <1>6

(* The fields of a snake, offset by offset.                                *)
LEMMA SnakeFieldsAre ==
  ASSUME NEW s, SnakeSent(s), NEW base, NEW at \in Nat, NEW rest, rest = at + 17 + s.bytes,
         NEW fs, fs = snakeFields(s, base, at)
  PROVE  /\ \A o \in DOMAIN fs : o \in Nat /\ at <= o /\ o < at + snakeBytes(s)
         /\ {at, at + 16, rest, rest + 2, rest + 4, rest + 6, rest + 7} \subseteq DOMAIN fs
         /\ fs[at] = F("id", 16, 0) /\ fs[at + 16] = F("nicknameLength", 1, s.bytes)
         /\ fs[rest] = F("angle", 2, 0) /\ fs[rest + 2] = F("mass", 2, 0)
         /\ fs[rest + 4] = F("radius", 2, 0) /\ fs[rest + 6] = F("state", 1, 0)
         /\ fs[rest + 7] = F("pointCount", 2, s.points)
         /\ \A i \in 0 .. s.points - 1 :
              /\ rest + 9 + 4 * i \in DOMAIN fs /\ fs[rest + 9 + 4 * i] = F("x", 2, quantise(s.at, base))
              /\ rest + 11 + 4 * i \in DOMAIN fs /\ fs[rest + 11 + 4 * i] = F("y", 2, quantise(s.at, base))
<1> DEFINE b == s.bytes
           p == s.points
           xs == {rest + 9 + 4 * i : i \in 0 .. p - 1}
           ys == {rest + 11 + 4 * i : i \in 0 .. p - 1}
           name == IF b = 0 THEN {} ELSE {at + 17}
           D == {at, at + 16} \cup name \cup {rest, rest + 2, rest + 4, rest + 6, rest + 7} \cup xs \cup ys
           value(o) ==
             IF o = at THEN F("id", 16, 0)
             ELSE IF o = at + 16 THEN F("nicknameLength", 1, u8(b))
             ELSE IF o < rest THEN F("nickname", b, 0)
             ELSE IF o = rest THEN F("angle", 2, 0) ELSE IF o = rest + 2 THEN F("mass", 2, 0)
             ELSE IF o = rest + 4 THEN F("radius", 2, 0) ELSE IF o = rest + 6 THEN F("state", 1, 0)
             ELSE IF o = rest + 7 THEN F("pointCount", 2, u16(p))
             ELSE IF o \in xs THEN F("x", 2, quantise(s.at, base)) ELSE F("y", 2, quantise(s.at, base))
<1>1. /\ b \in Nat /\ b < 256 /\ p \in Nat /\ p < 65536 /\ rest = at + 17 + b /\ rest \in Nat
      /\ snakeBytes(s) = 26 + b + 4 * p
  <2>1. b \in Nat /\ b < 256 /\ p \in Nat /\ p < 65536 /\ rest = at + 17 + b
    BY DEF SnakeSent
  <2>2. snakeBytes(s) = 26 + b + 4 * p
    BY SnakeBytesAre
  <2> HIDE DEF b, p
  <2>3. rest \in Nat
    BY ONLY <2>1, at \in Nat
  <2>4. QED BY <2>1, <2>2, <2>3
<1>2. fs = [o \in D |-> value(o)]
  <2>1. at + UuidBytes + 1 = at + 17 /\ at + UuidBytes = at + 16
    BY DEF UuidBytes
  <2>2. at + UuidBytes + 1 + s.bytes = rest
    <3>1. b \in Nat /\ at + UuidBytes + 1 + b = at + 16 + 1 + b /\ rest = at + 17 + b
      BY <1>1 DEF UuidBytes
    <3> HIDE DEF b
    <3>2. at + UuidBytes + 1 + b = rest
      BY ONLY <3>1, at \in Nat
    <3>3. QED BY <3>2 DEF b
  <2>3. QED BY <2>1, <2>2 DEF snakeFields, UuidBytes
<1> HIDE DEF b, p
<1>3. \A i \in 0 .. p - 1 : /\ rest + 9 + 4 * i \in Nat /\ rest + 11 + 4 * i \in Nat
                            /\ rest + 11 + 4 * i < rest + 9 + 4 * p
                            /\ rest + 9 + 4 * i > rest + 7
  BY ONLY <1>1
<1>4. \A x \in xs \cup ys : x \in Nat /\ x > rest + 7 /\ x < rest + 9 + 4 * p
  <2>1. ASSUME NEW i \in 0 .. p - 1
        PROVE  /\ rest + 9 + 4 * i \in Nat /\ rest + 9 + 4 * i > rest + 7
               /\ rest + 9 + 4 * i < rest + 9 + 4 * p
               /\ rest + 11 + 4 * i \in Nat /\ rest + 11 + 4 * i > rest + 7
               /\ rest + 11 + 4 * i < rest + 9 + 4 * p
    BY ONLY <1>1, <2>1
  <2>2. QED BY <2>1
<1>5. \A i \in 0 .. p - 1 : rest + 11 + 4 * i \notin xs
  <2>1. ASSUME NEW i \in 0 .. p - 1, NEW j \in 0 .. p - 1 PROVE rest + 11 + 4 * i # rest + 9 + 4 * j
    BY ONLY <1>1, <2>1
  <2>2. QED BY <2>1
<1>6. \A x \in name : x = at + 17 /\ b > 0
  BY <1>1
<1>7. /\ at \in Nat /\ at <= at /\ at + 16 \in Nat /\ at + 17 \in Nat /\ rest + 2 \in Nat
      /\ rest + 4 \in Nat /\ rest + 6 \in Nat /\ rest + 7 \in Nat /\ rest >= at + 17
      /\ rest + 7 < at + snakeBytes(s) /\ rest + 9 + 4 * p = at + snakeBytes(s)
  BY ONLY <1>1, at \in Nat
<1>8. ASSUME NEW o \in D PROVE o \in Nat /\ at <= o /\ o < at + snakeBytes(s)
  <2>1. o \in {at, at + 16, at + 17, rest, rest + 2, rest + 4, rest + 6, rest + 7} \cup xs \cup ys
    BY <1>6
  <2> DEFINE end == at + snakeBytes(s)
  <2>2. end = rest + 9 + 4 * p
    BY <1>7
  <2> HIDE DEF end
  <2>3. CASE o \in xs \cup ys
    <3>1. o \in Nat /\ o > rest + 7 /\ o < end
      BY <1>4, <2>2, <2>3
    <3>2. at <= o
      BY ONLY <1>1, <3>1, at \in Nat
    <3>3. QED BY <3>1, <3>2 DEF end
  <2>4. CASE o \in {at, at + 16, at + 17, rest, rest + 2, rest + 4, rest + 6, rest + 7}
    <3>1. o \in Nat /\ at <= o /\ o < end
      BY ONLY <1>1, <2>2, <2>4, at \in Nat
    <3>2. QED BY <3>1 DEF end
  <2>5. QED BY <2>1, <2>3, <2>4
<1>9. {at, at + 16, rest, rest + 2, rest + 4, rest + 6, rest + 7} \subseteq D
  OBVIOUS
<1>10. u8(b) = b /\ u16(p) = p
  BY <1>1, FitsWidth
<1>11. /\ value(at) = F("id", 16, 0) /\ value(at + 16) = F("nicknameLength", 1, b)
       /\ value(rest) = F("angle", 2, 0) /\ value(rest + 2) = F("mass", 2, 0)
       /\ value(rest + 4) = F("radius", 2, 0) /\ value(rest + 6) = F("state", 1, 0)
       /\ value(rest + 7) = F("pointCount", 2, p)
  <2> HIDE DEF xs, ys, D, name
  <2>1. /\ at + 16 # at /\ rest # at /\ rest # at + 16 /\ ~(rest < rest) /\ rest + 2 # at /\ rest + 2 # at + 16
        /\ ~(rest + 2 < rest) /\ rest + 2 # rest
    BY ONLY <1>1, at \in Nat
  <2>2. /\ rest + 4 # at /\ rest + 4 # at + 16 /\ ~(rest + 4 < rest) /\ rest + 4 # rest /\ rest + 4 # rest + 2
        /\ rest + 6 # at /\ rest + 6 # at + 16 /\ ~(rest + 6 < rest) /\ rest + 6 # rest /\ rest + 6 # rest + 2
        /\ rest + 6 # rest + 4
    BY ONLY <1>1, at \in Nat
  <2>3. /\ rest + 7 # at /\ rest + 7 # at + 16 /\ ~(rest + 7 < rest) /\ rest + 7 # rest /\ rest + 7 # rest + 2
        /\ rest + 7 # rest + 4 /\ rest + 7 # rest + 6
    BY ONLY <1>1, at \in Nat
  <2>4. value(at) = F("id", 16, 0) /\ value(at + 16) = F("nicknameLength", 1, b) /\ value(rest) = F("angle", 2, 0)
        /\ value(rest + 2) = F("mass", 2, 0)
    BY ONLY <2>1, <1>10
  <2>5. value(rest + 4) = F("radius", 2, 0) /\ value(rest + 6) = F("state", 1, 0)
    BY ONLY <2>2
  <2>6. value(rest + 7) = F("pointCount", 2, p)
    BY ONLY <2>3, <1>10
  <2>7. QED BY ONLY <2>4, <2>5, <2>6
<1>12. ASSUME NEW o \in Nat, o > rest + 7
       PROVE  value(o) = IF o \in xs THEN F("x", 2, quantise(s.at, base)) ELSE F("y", 2, quantise(s.at, base))
  <2> HIDE DEF xs, ys, D, name
  <2>1. /\ o # at /\ o # at + 16 /\ ~(o < rest) /\ o # rest /\ o # rest + 2 /\ o # rest + 4 /\ o # rest + 6
        /\ o # rest + 7
    BY ONLY <1>1, <1>12, at \in Nat
  <2>2. QED BY ONLY <2>1
<1>13. ASSUME NEW i \in 0 .. p - 1
       PROVE  /\ rest + 9 + 4 * i \in D /\ value(rest + 9 + 4 * i) = F("x", 2, quantise(s.at, base))
              /\ rest + 11 + 4 * i \in D /\ value(rest + 11 + 4 * i) = F("y", 2, quantise(s.at, base))
  <2> DEFINE x == rest + 9 + 4 * i
             y == rest + 11 + 4 * i
  <2>1. x \in xs /\ y \in ys /\ y \notin xs
    BY <1>5
  <2>2. x \in Nat /\ x > rest + 7 /\ y \in Nat /\ y > rest + 7
    BY <1>4, <2>1
  <2>3. x \in D /\ y \in D
    BY <2>1
  <2> HIDE DEF x, y, value, D, xs
  <2>4. value(x) = F("x", 2, quantise(s.at, base)) /\ value(y) = F("y", 2, quantise(s.at, base))
    BY <1>12, <2>1, <2>2
  <2>5. QED BY <2>3, <2>4 DEF x, y
<1>14. \A o \in D : fs[o] = value(o)
  <2> HIDE DEF D, value
  <2>1. QED BY <1>2
<1>15. DOMAIN fs = D
  <2> HIDE DEF D, value
  <2>1. QED BY <1>2
<1> HIDE DEF D, value
<1>16. QED BY <1>8, <1>9, <1>11, <1>13, <1>14, <1>15 DEF b, p

(***************************************************************************)
(* The encoder.                                                            *)
(***************************************************************************)
LEMMA FixedFieldsLie ==
  ASSUME NEW at \in Nat
  PROVE  /\ \A o \in DOMAIN foodFields(at) : o \in Nat /\ at <= o /\ o < at + 9
         /\ \A o \in DOMAIN IdAt(at) : o \in Nat /\ at <= o /\ o < at + UuidBytes
         /\ \A o \in DOMAIN FoodIdAt(at) : o \in Nat /\ at <= o /\ o < at + 4
<1>1. DOMAIN foodFields(at) = {at, at + 4, at + 6, at + 8}
  BY DEF foodFields
<1>2. DOMAIN IdAt(at) = {at} /\ DOMAIN FoodIdAt(at) = {at}
  BY DEF IdAt, FoodIdAt
<1>3. QED BY <1>1, <1>2 DEF UuidBytes

LEMMA HeaderFieldsLie ==
  ASSUME NEW s
  PROVE  \A o \in DOMAIN headerFields(s) : o \in Nat /\ 0 <= o /\ o < HeaderBytes
<1>1. DOMAIN headerFields(s) = {0, 1, 2, 4, 6, 8, 10, 14, 18}
  BY DEF headerFields
<1>2. QED BY <1>1 DEF HeaderBytes

(* What the buffer holds stays there as more is written.                   *)
LEMMA BufferKeeps ==
  ASSUME NEW s, NEW base, NEW w, NEW v, NEW e, InBuffer(s, base, w, e),
         \A g : Carries(w, g) => Carries(v, g)
  PROVE  InBuffer(s, base, v, e)
BY DEF InBuffer

LEMMA CountsAre ==
  ASSUME NEW h \in BOOLEAN, NEW i \in Nat, NEW f \in Nat, NEW r \in Nat, NEW q \in Nat,
         NEW d, d = [header |-> h, snakes |-> i, food |-> f, removedSnakes |-> r, removedFood |-> q]
  PROVE  d \in Counts
BY DEF Counts

LEMMA HeaderWritten ==
  ASSUME NEW s, SnapshotSent(s), NEW base, NEW w, NEW n, NEW e, Writing(s, base, w, n, e), ~e.header,
         NEW d, d = [e EXCEPT !.header = TRUE], NEW v, v = Laid(w, headerFields(s))
  PROVE  Writing(s, base, v, HeaderBytes, d)
<1>1. /\ e \in Counts /\ n = 0 /\ \A o \in DOMAIN w : o \in Nat /\ o < 0
      /\ e.snakes = 0 /\ e.food = 0 /\ e.removedSnakes = 0 /\ e.removedFood = 0
  BY DEF Writing, InTurn, Counts
<1>2. d = [header |-> TRUE, snakes |-> 0, food |-> 0, removedSnakes |-> 0, removedFood |-> 0]
  BY <1>1 DEF Counts
<1>3. /\ \A o \in DOMAIN v : o \in Nat /\ o < HeaderBytes
      /\ Carries(v, headerFields(s))
  <2>1. 0 \in Nat /\ HeaderBytes \in Nat /\ 0 <= HeaderBytes
    BY DEF HeaderBytes
  <2>2. QED BY <1>1, <2>1, HeaderFieldsLie, LaidBeyond
<1>4. /\ 0 \in 0 .. Len(s.snakes) /\ 0 \in 0 .. s.food /\ 0 \in 0 .. s.removedSnakes /\ 0 \in 0 .. s.removedFood
  BY DEF SnapshotSent
<1>5. InTurn(s, d.header, d.snakes, d)
  BY <1>2, <1>4 DEF InTurn
<1>6. At(s, 0, 0, 0, 0) = HeaderBytes
  BY AtIs
<1>7. InBuffer(s, base, v, d)
  BY <1>2, <1>3 DEF InBuffer
<1>8. d \in Counts
  BY <1>2, CountsAre
<1>9. d.header /\ HeaderBytes = At(s, d.snakes, d.food, d.removedSnakes, d.removedFood)
  BY <1>2, <1>6
<1>10. QED BY ONLY <1>3, <1>5, <1>7, <1>8, <1>9 DEF Writing

LEMMA SnakeWritten ==
  ASSUME NEW s, SnapshotSent(s), NEW base, NEW w, NEW n, NEW e, Writing(s, base, w, n, e),
         e.header, e.snakes < Len(s.snakes),
         NEW d, d = [e EXCEPT !.snakes = @ + 1],
         NEW v, v = Laid(w, snakeFields(s.snakes[e.snakes + 1], base, n)),
         NEW m, m = n + snakeBytes(s.snakes[e.snakes + 1])
  PROVE  Writing(s, base, v, m, d)
<1> DEFINE k == e.snakes
           body == s.snakes[k + 1]
           all == Len(s.snakes)
<1>1. /\ e \in Counts /\ n = At(s, k, e.food, e.removedSnakes, e.removedFood)
      /\ \A o \in DOMAIN w : o \in Nat /\ o < n
      /\ InBuffer(s, base, w, e) /\ k \in Nat /\ k < all /\ all \in Nat /\ k # all
      /\ InTurn(s, e.header, k, e)
  BY DEF Writing, Counts, SnapshotSent
<1>2. e.food = 0 /\ e.removedSnakes = 0 /\ e.removedFood = 0
  BY <1>1 DEF InTurn
<1>3. d = [header |-> TRUE, snakes |-> k + 1, food |-> 0, removedSnakes |-> 0, removedFood |-> 0]
  BY <1>1, <1>2 DEF Counts
<1>4. k + 1 \in 1 .. all /\ k \in 0 .. all /\ k + 1 \in 0 .. all /\ (k + 1) - 1 = k /\ k + 1 \in Nat
  <2> HIDE DEF k, all
  <2>1. QED BY ONLY <1>1
<1>5. SnakeSent(body) /\ snakeBytes(body) \in Nat
  BY <1>4, SnakeBytesAre DEF SnapshotSent
<1>6. n = At(s, k, 0, 0, 0) /\ n \in Nat /\ n = StartOf(s, k) /\ m = At(s, k + 1, 0, 0, 0)
  <2>1. n = At(s, k, 0, 0, 0)
    BY <1>1, <1>2
  <2>2. At(s, k, 0, 0, 0) = StartOf(s, k) /\ StartOf(s, k) \in Nat
    BY <1>4, AtIs
  <2>3. At(s, k + 1, 0, 0, 0) = At(s, (k + 1) - 1, 0, 0, 0) + snakeBytes(body)
    BY <1>4, AtIs
  <2>4. QED BY <1>4, <2>1, <2>2, <2>3
<1>7. m \in Nat /\ n <= m
  <2>1. PICK b \in Nat : b = snakeBytes(body)
    BY <1>5
  <2>2. m = n + b
    BY <2>1
  <2>3. QED BY ONLY <1>6, <2>1, <2>2
<1>8. \A o \in DOMAIN snakeFields(body, base, n) : o \in Nat /\ n <= o /\ o < m
  <2>1. PICK rest : rest = n + 17 + body.bytes
    OBVIOUS
  <2>2. PICK fs : fs = snakeFields(body, base, n)
    OBVIOUS
  <2> HIDE DEF body
  <2>3. \A o \in DOMAIN fs : o \in Nat /\ n <= o /\ o < n + snakeBytes(body)
    BY ONLY <1>5, <1>6, <2>1, <2>2, SnakeFieldsAre
  <2>4. m = n + snakeBytes(body)
    BY DEF body
  <2>5. QED BY <2>2, <2>3, <2>4
<1>9. /\ \A o \in DOMAIN v : o \in Nat /\ o < m
      /\ Carries(v, snakeFields(body, base, n)) /\ \A g : Carries(w, g) => Carries(v, g)
  BY <1>1, <1>6, <1>7, <1>8, LaidBeyond
<1>10. InBuffer(s, base, v, d)
  <2>1. InBuffer(s, base, v, e)
    BY <1>1, <1>9, BufferKeeps
  <2>2. ASSUME NEW i \in 1 .. k + 1 PROVE Carries(v, snakeFields(s.snakes[i], base, StartOf(s, i - 1)))
    <3>1. CASE i \in 1 .. k
      BY <2>1, <3>1 DEF InBuffer
    <3>2. CASE i = k + 1
      BY <1>4, <1>6, <1>9, <3>2
    <3>3. i \in 1 .. k \/ i = k + 1
      <4> HIDE DEF k
      <4>1. QED BY ONLY <1>1, <2>2
    <3>4. QED BY <3>1, <3>2, <3>3
  <2>3. e.header => Carries(v, headerFields(s))
    BY <2>1 DEF InBuffer
  <2> HIDE DEF k
  <2>4. d.header = TRUE /\ d.snakes = k + 1 /\ d.food = 0 /\ d.removedSnakes = 0 /\ d.removedFood = 0
    BY <1>3
  <2>5. \A i : i \notin 0 .. 0 - 1
    OBVIOUS
  <2>6. QED BY <2>2, <2>3, <2>4, <2>5 DEF InBuffer
<1>11. InTurn(s, d.header, d.snakes, d)
  <2>1. 0 \in 0 .. s.food /\ 0 \in 0 .. s.removedSnakes /\ 0 \in 0 .. s.removedFood
    BY DEF SnapshotSent
  <2>2. QED BY <1>3, <1>4, <2>1 DEF InTurn
<1> HIDE DEF k
<1>12. d \in Counts
  <2>1. TRUE \in BOOLEAN /\ k + 1 \in Nat /\ 0 \in Nat
    BY <1>4
  <2>2. QED BY ONLY <1>3, <2>1, CountsAre
<1>13. d.header /\ m = At(s, d.snakes, d.food, d.removedSnakes, d.removedFood)
  BY <1>3, <1>6
<1>14. QED BY <1>9, <1>10, <1>11, <1>12, <1>13 DEF Writing

(* One more record behind what is written.                                 *)
OneRecord(s, base, w, n, e, fields, m, v, d) ==
  /\ n \in Nat /\ m \in Nat /\ n <= m /\ Writing(s, base, w, n, e)
  /\ \A o \in DOMAIN fields : o \in Nat /\ n <= o /\ o < m
  /\ v = Laid(w, fields) /\ (Carries(v, fields) /\ InBuffer(s, base, v, e) => InBuffer(s, base, v, d))
  /\ d \in Counts /\ d.header /\ InTurn(s, d.header, d.snakes, d)
  /\ m = At(s, d.snakes, d.food, d.removedSnakes, d.removedFood)

LEMMA RecordWritten ==
  ASSUME NEW s, NEW base, NEW w, NEW n, NEW e, NEW fields, NEW m, NEW v, NEW d,
         OneRecord(s, base, w, n, e, fields, m, v, d)
  PROVE  Writing(s, base, v, m, d)
<1>0. /\ n \in Nat /\ m \in Nat /\ n <= m /\ Writing(s, base, w, n, e)
      /\ \A o \in DOMAIN fields : o \in Nat /\ n <= o /\ o < m
      /\ v = Laid(w, fields) /\ (Carries(v, fields) /\ InBuffer(s, base, v, e) => InBuffer(s, base, v, d))
      /\ d \in Counts /\ d.header /\ InTurn(s, d.header, d.snakes, d)
      /\ m = At(s, d.snakes, d.food, d.removedSnakes, d.removedFood)
  BY DEF OneRecord
<1>1. InBuffer(s, base, w, e) /\ \A o \in DOMAIN w : o \in Nat /\ o < n
  BY <1>0 DEF Writing
<1>2. /\ \A o \in DOMAIN v : o \in Nat /\ o < m
      /\ Carries(v, fields) /\ \A g : Carries(w, g) => Carries(v, g)
  BY <1>0, <1>1, LaidBeyond
<1>3. InBuffer(s, base, v, e)
  BY <1>1, <1>2, BufferKeeps
<1>4. InBuffer(s, base, v, d)
  BY <1>0, <1>2, <1>3
<1>5. /\ d \in Counts /\ InTurn(s, d.header, d.snakes, d) /\ d.header
      /\ m = At(s, d.snakes, d.food, d.removedSnakes, d.removedFood)
  BY <1>0
<1>6. QED BY ONLY <1>2, <1>4, <1>5 DEF Writing

LEMMA TurnIs ==
  ASSUME NEW s, SnapshotSent(s), NEW e \in Counts, InTurn(s, e.header, e.snakes, e)
  PROVE  /\ e.food \in Nat /\ e.removedSnakes \in Nat /\ e.removedFood \in Nat
         /\ e.snakes # Len(s.snakes) \/ e.food # s.food => e.removedSnakes = 0
         /\ e.snakes # Len(s.snakes) \/ e.food # s.food \/ e.removedSnakes # s.removedSnakes
              => e.removedFood = 0
         /\ e.food < s.food => e.food # s.food
         /\ e.removedSnakes < s.removedSnakes => e.removedSnakes # s.removedSnakes
         /\ e.food \in 0 .. s.food /\ e.removedSnakes \in 0 .. s.removedSnakes
         /\ e.removedFood \in 0 .. s.removedFood
         /\ s.food \in Nat /\ s.removedSnakes \in Nat /\ s.removedFood \in Nat /\ Len(s.snakes) \in Nat
<1>1. e.food \in Nat /\ e.removedSnakes \in Nat /\ e.removedFood \in Nat
  BY DEF Counts
<1>2. s.food \in Nat /\ s.removedSnakes \in Nat /\ s.removedFood \in Nat /\ Len(s.snakes) \in Nat
  BY DEF SnapshotSent
<1>3. (e.food < s.food => e.food # s.food)
      /\ (e.removedSnakes < s.removedSnakes => e.removedSnakes # s.removedSnakes)
  BY <1>1, <1>2
<1>4. /\ e.snakes # Len(s.snakes) \/ e.food # s.food => e.removedSnakes = 0
      /\ e.snakes # Len(s.snakes) \/ e.food # s.food \/ e.removedSnakes # s.removedSnakes
              => e.removedFood = 0
      /\ e.food \in 0 .. s.food /\ e.removedSnakes \in 0 .. s.removedSnakes
      /\ e.removedFood \in 0 .. s.removedFood
  BY DEF InTurn
<1>5. QED BY ONLY <1>1, <1>2, <1>3, <1>4

LEMMA OneMore ==
  ASSUME NEW j \in Nat, NEW n \in Nat, j < n
  PROVE  j + 1 \in Nat /\ j + 1 \in 0 .. n /\ \A i \in 0 .. (j + 1) - 1 : i \in 0 .. j - 1 \/ i = j
OBVIOUS

LEMMA FoodWritten ==
  ASSUME NEW s, SnapshotSent(s), NEW base, NEW w, NEW n, NEW e, Writing(s, base, w, n, e),
         e.header, e.snakes = Len(s.snakes), e.food < s.food,
         NEW d, d = [e EXCEPT !.food = @ + 1],
         NEW v, v = Laid(w, foodFields(n)), NEW m, m = n + 9
  PROVE  Writing(s, base, v, m, d)
<1> DEFINE j == e.food
           all == Len(s.snakes)
<1>1. e \in Counts /\ InTurn(s, e.header, e.snakes, e) /\ n = At(s, e.snakes, e.food, e.removedSnakes, e.removedFood)
  BY DEF Writing
<1>2. e.removedSnakes = 0 /\ e.removedFood = 0 /\ j \in Nat /\ j < s.food /\ s.food \in Nat
  BY <1>1, TurnIs
<1>3. j + 1 \in Nat /\ j + 1 \in 0 .. s.food /\ \A i \in 0 .. (j + 1) - 1 : i \in 0 .. j - 1 \/ i = j
  <2> HIDE DEF j
  <2>1. QED BY <1>2, OneMore
<1>4. d = [header |-> TRUE, snakes |-> all, food |-> j + 1, removedSnakes |-> 0, removedFood |-> 0]
  BY <1>1, <1>2 DEF Counts
<1>5. n = At(s, all, j, 0, 0) /\ n \in Nat /\ m = At(s, all, j + 1, 0, 0) /\ all \in 0 .. all /\ all \in Nat
  <2>1. n = At(s, all, j, 0, 0)
    BY <1>1, <1>2
  <2>2. all \in Nat /\ all \in 0 .. all
    BY DEF SnapshotSent
  <2>3. s.food \in Nat /\ s.removedSnakes \in Nat /\ 0 \in Nat
    BY DEF SnapshotSent
  <2> HIDE DEF j
  <2>4. At(s, all, j, 0, 0) \in Nat /\ At(s, all, j + 1, 0, 0) = At(s, all, j, 0, 0) + 9
    <3>1. PICK c \in Nat : c = StartOf(s, all)
      BY <2>2, AtIs
    <3>2. At(s, all, j, 0, 0) = c + 9 * j + 16 * 0 + 4 * 0 /\ At(s, all, j + 1, 0, 0) = c + 9 * (j + 1) + 16 * 0 + 4 * 0
      BY ONLY <3>1 DEF At, UuidBytes
    <3> DEFINE food == s.food
               removed == s.removedSnakes
               here == At(s, all, j, 0, 0)
               next == At(s, all, j + 1, 0, 0)
    <3>3. food \in Nat /\ removed \in Nat /\ j \in Nat /\ here = c + 9 * j + 16 * 0 + 4 * 0 /\ next = c + 9 * (j + 1) + 16 * 0 + 4 * 0
      BY <1>2, <2>3, <3>2
    <3> HIDE DEF food, removed, here, next
    <3>4. here \in Nat /\ next = here + 9
      BY ONLY <3>1, <3>3 DEF UuidBytes
    <3>5. QED BY <3>4 DEF here, next
  <2>5. QED BY <2>1, <2>2, <2>4
<1>6. m \in Nat /\ n <= m /\ \A o \in DOMAIN foodFields(n) : o \in Nat /\ n <= o /\ o < m
  <2>1. \A o \in DOMAIN foodFields(n) : o \in Nat /\ n <= o /\ o < n + 9
    BY <1>5, FixedFieldsLie
  <2>2. m \in Nat /\ n <= m
    BY <1>5 DEF UuidBytes
  <2>3. QED BY <2>1, <2>2
<1> HIDE DEF j, all
<1>7. InTurn(s, d.header, d.snakes, d)
  <2>1. /\ e.food \in 0 .. s.food /\ e.removedSnakes \in 0 .. s.removedSnakes /\ 0 \in 0 .. s.removedFood
        /\ 0 \in 0 .. s.removedSnakes
    BY DEF SnapshotSent, Writing, InTurn
  <2>2. /\ d.header /\ d.snakes = all /\ d.food = j + 1 /\ d.removedSnakes = 0 /\ d.removedFood = 0
    BY <1>4
  <2>3. QED BY <1>3, <1>5, <2>1, <2>2 DEF InTurn, all
<1>8. d \in Counts
  <2>1. TRUE \in BOOLEAN /\ all \in Nat /\ s.food \in Nat /\ s.removedSnakes \in Nat /\ 0 \in Nat
    BY <1>5 DEF SnapshotSent
  <2>2. QED BY ONLY <1>2, <1>3, <1>4, <2>1, CountsAre
<1>9. d.header /\ m = At(s, d.snakes, d.food, d.removedSnakes, d.removedFood)
  BY <1>4, <1>5
<1>10. ASSUME Carries(v, foodFields(n)), InBuffer(s, base, v, e) PROVE InBuffer(s, base, v, d)
  <2>1. /\ d.snakes = e.snakes /\ d.food = j + 1 /\ d.removedSnakes = 0 /\ d.removedFood = 0
    BY <1>2, <1>4 DEF all
  <2>2. \A i \in 0 .. (j + 1) - 1 : Carries(v, foodFields(At(s, all, i, 0, 0)))
    <3>1. \A i \in 0 .. j - 1 : Carries(v, foodFields(At(s, all, i, 0, 0)))
      BY <1>10 DEF InBuffer, j, all
    <3>2. Carries(v, foodFields(At(s, all, j, 0, 0)))
      BY <1>5, <1>10
    <3>3. QED BY ONLY <1>3, <3>1, <3>2
  <2>3. e.header => Carries(v, headerFields(s))
    BY <1>10 DEF InBuffer
  <2>4. \A i \in 1 .. e.snakes : Carries(v, snakeFields(s.snakes[i], base, StartOf(s, i - 1)))
    BY <1>10 DEF InBuffer
  <2>8. \A i : i \notin 0 .. 0 - 1
    OBVIOUS
  <2>9. QED BY ONLY e.header, <2>1, <2>2, <2>3, <2>4, <2>8 DEF InBuffer, all
<1>11. QED
  <2>1. Carries(v, foodFields(n)) /\ InBuffer(s, base, v, e) => InBuffer(s, base, v, d)
    BY <1>10
  <2>2. PICK fields : fields = foodFields(n)
    OBVIOUS
  <2>3. v = Laid(w, fields) /\ (Carries(v, fields) /\ InBuffer(s, base, v, e) => InBuffer(s, base, v, d))
    BY <2>1, <2>2
  <2>4. /\ n \in Nat /\ m \in Nat /\ n <= m /\ Writing(s, base, w, n, e)
        /\ \A o \in DOMAIN fields : o \in Nat /\ n <= o /\ o < m
    BY <1>5, <1>6, <2>2
  <2>5. OneRecord(s, base, w, n, e, fields, m, v, d)
    BY ONLY <1>7, <1>8, <1>9, <2>3, <2>4 DEF OneRecord
  <2>6. QED BY <2>5, RecordWritten

LEMMA RemovedSnakeWritten ==
  ASSUME NEW s, SnapshotSent(s), NEW base, NEW w, NEW n, NEW e, Writing(s, base, w, n, e),
         e.header, e.snakes = Len(s.snakes), e.food = s.food, e.removedSnakes < s.removedSnakes,
         NEW d, d = [e EXCEPT !.removedSnakes = @ + 1],
         NEW v, v = Laid(w, IdAt(n)), NEW m, m = n + UuidBytes
  PROVE  Writing(s, base, v, m, d)
<1> DEFINE j == e.removedSnakes
           all == Len(s.snakes)
<1>1. e \in Counts /\ InTurn(s, e.header, e.snakes, e) /\ n = At(s, e.snakes, e.food, e.removedSnakes, e.removedFood)
  BY DEF Writing
<1>2. e.removedFood = 0 /\ j \in Nat /\ j < s.removedSnakes /\ s.removedSnakes \in Nat
  BY <1>1, TurnIs
<1>3. j + 1 \in Nat /\ j + 1 \in 0 .. s.removedSnakes /\ \A i \in 0 .. (j + 1) - 1 : i \in 0 .. j - 1 \/ i = j
  <2> HIDE DEF j
  <2>1. QED BY <1>2, OneMore
<1>4. d = [header |-> TRUE, snakes |-> all, food |-> s.food, removedSnakes |-> j + 1, removedFood |-> 0]
  BY <1>1, <1>2 DEF Counts
<1>5. n = At(s, all, s.food, j, 0) /\ n \in Nat /\ m = At(s, all, s.food, j + 1, 0) /\ all \in 0 .. all /\ all \in Nat
  <2>1. n = At(s, all, s.food, j, 0)
    BY <1>1, <1>2
  <2>2. all \in Nat /\ all \in 0 .. all
    BY DEF SnapshotSent
  <2>3. s.food \in Nat /\ s.removedSnakes \in Nat /\ 0 \in Nat
    BY DEF SnapshotSent
  <2> HIDE DEF j
  <2>4. At(s, all, s.food, j, 0) \in Nat /\ At(s, all, s.food, j + 1, 0) = At(s, all, s.food, j, 0) + UuidBytes
    <3>1. PICK c \in Nat : c = StartOf(s, all)
      BY <2>2, AtIs
    <3>2. At(s, all, s.food, j, 0) = c + 9 * s.food + 16 * j + 4 * 0 /\ At(s, all, s.food, j + 1, 0) = c + 9 * s.food + 16 * (j + 1) + 4 * 0
      BY ONLY <3>1 DEF At, UuidBytes
    <3> DEFINE food == s.food
               removed == s.removedSnakes
               here == At(s, all, s.food, j, 0)
               next == At(s, all, s.food, j + 1, 0)
    <3>3. food \in Nat /\ removed \in Nat /\ j \in Nat /\ here = c + 9 * food + 16 * j + 4 * 0 /\ next = c + 9 * food + 16 * (j + 1) + 4 * 0
      BY <1>2, <2>3, <3>2
    <3> HIDE DEF food, removed, here, next
    <3>4. here \in Nat /\ next = here + UuidBytes
      BY ONLY <3>1, <3>3 DEF UuidBytes
    <3>5. QED BY <3>4 DEF here, next
  <2>5. QED BY <2>1, <2>2, <2>4
<1>6. m \in Nat /\ n <= m /\ \A o \in DOMAIN IdAt(n) : o \in Nat /\ n <= o /\ o < m
  <2>1. \A o \in DOMAIN IdAt(n) : o \in Nat /\ n <= o /\ o < n + UuidBytes
    BY <1>5, FixedFieldsLie
  <2>2. m \in Nat /\ n <= m
    BY <1>5 DEF UuidBytes
  <2>3. QED BY <2>1, <2>2
<1> HIDE DEF j, all
<1>7. InTurn(s, d.header, d.snakes, d)
  <2>1. /\ e.food \in 0 .. s.food /\ e.removedSnakes \in 0 .. s.removedSnakes /\ 0 \in 0 .. s.removedFood
        /\ 0 \in 0 .. s.removedSnakes
    BY DEF SnapshotSent, Writing, InTurn
  <2>2. /\ d.header /\ d.snakes = all /\ d.food = s.food /\ d.removedSnakes = j + 1 /\ d.removedFood = 0
    BY <1>4
  <2>3. QED BY <1>3, <1>5, <2>1, <2>2 DEF InTurn, all
<1>8. d \in Counts
  <2>1. TRUE \in BOOLEAN /\ all \in Nat /\ s.food \in Nat /\ s.removedSnakes \in Nat /\ 0 \in Nat
    BY <1>5 DEF SnapshotSent
  <2>2. QED BY ONLY <1>2, <1>3, <1>4, <2>1, CountsAre
<1>9. d.header /\ m = At(s, d.snakes, d.food, d.removedSnakes, d.removedFood)
  BY <1>4, <1>5
<1>10. ASSUME Carries(v, IdAt(n)), InBuffer(s, base, v, e) PROVE InBuffer(s, base, v, d)
  <2>1. /\ d.snakes = e.snakes /\ d.food = e.food /\ d.removedSnakes = j + 1 /\ d.removedFood = 0
    BY <1>2, <1>4 DEF all
  <2>2. \A i \in 0 .. (j + 1) - 1 : Carries(v, IdAt(At(s, all, s.food, i, 0)))
    <3>1. \A i \in 0 .. j - 1 : Carries(v, IdAt(At(s, all, s.food, i, 0)))
      BY <1>10 DEF InBuffer, j, all
    <3>2. Carries(v, IdAt(At(s, all, s.food, j, 0)))
      BY <1>5, <1>10
    <3>3. QED BY ONLY <1>3, <3>1, <3>2
  <2>3. e.header => Carries(v, headerFields(s))
    BY <1>10 DEF InBuffer
  <2>4. \A i \in 1 .. e.snakes : Carries(v, snakeFields(s.snakes[i], base, StartOf(s, i - 1)))
    BY <1>10 DEF InBuffer
  <2>5. \A i \in 0 .. e.food - 1 : Carries(v, foodFields(At(s, Len(s.snakes), i, 0, 0)))
    BY <1>10 DEF InBuffer
  <2>8. \A i : i \notin 0 .. 0 - 1
    OBVIOUS
  <2>9. QED BY ONLY e.header, <2>1, <2>2, <2>3, <2>4, <2>5, <2>8 DEF InBuffer, all
<1>11. QED
  <2>1. Carries(v, IdAt(n)) /\ InBuffer(s, base, v, e) => InBuffer(s, base, v, d)
    BY <1>10
  <2>2. PICK fields : fields = IdAt(n)
    OBVIOUS
  <2>3. v = Laid(w, fields) /\ (Carries(v, fields) /\ InBuffer(s, base, v, e) => InBuffer(s, base, v, d))
    BY <2>1, <2>2
  <2>4. /\ n \in Nat /\ m \in Nat /\ n <= m /\ Writing(s, base, w, n, e)
        /\ \A o \in DOMAIN fields : o \in Nat /\ n <= o /\ o < m
    BY <1>5, <1>6, <2>2
  <2>5. OneRecord(s, base, w, n, e, fields, m, v, d)
    BY ONLY <1>7, <1>8, <1>9, <2>3, <2>4 DEF OneRecord
  <2>6. QED BY <2>5, RecordWritten

LEMMA RemovedFoodWritten ==
  ASSUME NEW s, SnapshotSent(s), NEW base, NEW w, NEW n, NEW e, Writing(s, base, w, n, e),
         e.header, e.snakes = Len(s.snakes), e.food = s.food, e.removedSnakes = s.removedSnakes, e.removedFood < s.removedFood,
         NEW d, d = [e EXCEPT !.removedFood = @ + 1],
         NEW v, v = Laid(w, FoodIdAt(n)), NEW m, m = n + 4
  PROVE  Writing(s, base, v, m, d)
<1> DEFINE j == e.removedFood
           all == Len(s.snakes)
<1>1. e \in Counts /\ InTurn(s, e.header, e.snakes, e) /\ n = At(s, e.snakes, e.food, e.removedSnakes, e.removedFood)
  BY DEF Writing
<1>2. j \in Nat /\ j < s.removedFood /\ s.removedFood \in Nat
  BY <1>1, TurnIs
<1>3. j + 1 \in Nat /\ j + 1 \in 0 .. s.removedFood /\ \A i \in 0 .. (j + 1) - 1 : i \in 0 .. j - 1 \/ i = j
  <2> HIDE DEF j
  <2>1. QED BY <1>2, OneMore
<1>4. d = [header |-> TRUE, snakes |-> all, food |-> s.food, removedSnakes |-> s.removedSnakes, removedFood |-> j + 1]
  BY <1>1, <1>2 DEF Counts
<1>5. n = At(s, all, s.food, s.removedSnakes, j) /\ n \in Nat /\ m = At(s, all, s.food, s.removedSnakes, j + 1) /\ all \in 0 .. all /\ all \in Nat
  <2>1. n = At(s, all, s.food, s.removedSnakes, j)
    BY <1>1, <1>2
  <2>2. all \in Nat /\ all \in 0 .. all
    BY DEF SnapshotSent
  <2>3. s.food \in Nat /\ s.removedSnakes \in Nat /\ 0 \in Nat
    BY DEF SnapshotSent
  <2> HIDE DEF j
  <2>4. At(s, all, s.food, s.removedSnakes, j) \in Nat /\ At(s, all, s.food, s.removedSnakes, j + 1) = At(s, all, s.food, s.removedSnakes, j) + 4
    <3>1. \A k \in 0 .. all, f, r, q \in Nat : At(s, k, f, r, q) \in Nat /\ At(s, k, f, r, q + 1) = At(s, k, f, r, q) + 4
      BY AtIs
    <3> DEFINE food == s.food
               removed == s.removedSnakes
    <3>2. food \in Nat /\ removed \in Nat /\ j \in Nat
      BY <1>2, <2>3
    <3> HIDE DEF food, removed
    <3>3. At(s, all, food, removed, j) \in Nat /\ At(s, all, food, removed, j + 1) = At(s, all, food, removed, j) + 4
      BY ONLY ZenonT(40), <2>2, <3>1, <3>2
    <3>4. QED BY <3>3 DEF food, removed
  <2>5. QED BY <2>1, <2>2, <2>4
<1>6. m \in Nat /\ n <= m /\ \A o \in DOMAIN FoodIdAt(n) : o \in Nat /\ n <= o /\ o < m
  <2>1. \A o \in DOMAIN FoodIdAt(n) : o \in Nat /\ n <= o /\ o < n + 4
    BY <1>5, FixedFieldsLie
  <2>2. m \in Nat /\ n <= m
    BY <1>5 DEF UuidBytes
  <2>3. QED BY <2>1, <2>2
<1> HIDE DEF j, all
<1>7. InTurn(s, d.header, d.snakes, d)
  <2>1. /\ e.food \in 0 .. s.food /\ e.removedSnakes \in 0 .. s.removedSnakes /\ 0 \in 0 .. s.removedFood
        /\ 0 \in 0 .. s.removedSnakes
    BY DEF SnapshotSent, Writing, InTurn
  <2>2. /\ d.header /\ d.snakes = all /\ d.food = s.food /\ d.removedSnakes = s.removedSnakes /\ d.removedFood = j + 1
    BY <1>4
  <2>3. QED BY <1>3, <1>5, <2>1, <2>2 DEF InTurn, all
<1>8. d \in Counts
  <2>1. TRUE \in BOOLEAN /\ all \in Nat /\ s.food \in Nat /\ s.removedSnakes \in Nat /\ 0 \in Nat
    BY <1>5 DEF SnapshotSent
  <2>2. QED BY ONLY <1>2, <1>3, <1>4, <2>1, CountsAre
<1>9. d.header /\ m = At(s, d.snakes, d.food, d.removedSnakes, d.removedFood)
  BY <1>4, <1>5
<1>10. ASSUME Carries(v, FoodIdAt(n)), InBuffer(s, base, v, e) PROVE InBuffer(s, base, v, d)
  <2>1. /\ d.snakes = e.snakes /\ d.food = e.food /\ d.removedSnakes = e.removedSnakes /\ d.removedFood = j + 1 
    BY <1>2, <1>4 DEF all
  <2>2. \A i \in 0 .. (j + 1) - 1 : Carries(v, FoodIdAt(At(s, all, s.food, s.removedSnakes, i)))
    <3>1. \A i \in 0 .. j - 1 : Carries(v, FoodIdAt(At(s, all, s.food, s.removedSnakes, i)))
      BY <1>10 DEF InBuffer, j, all
    <3>2. Carries(v, FoodIdAt(At(s, all, s.food, s.removedSnakes, j)))
      BY <1>5, <1>10
    <3>3. QED BY ONLY <1>3, <3>1, <3>2
  <2>3. e.header => Carries(v, headerFields(s))
    BY <1>10 DEF InBuffer
  <2>4. \A i \in 1 .. e.snakes : Carries(v, snakeFields(s.snakes[i], base, StartOf(s, i - 1)))
    BY <1>10 DEF InBuffer
  <2>5. \A i \in 0 .. e.food - 1 : Carries(v, foodFields(At(s, Len(s.snakes), i, 0, 0)))
    BY <1>10 DEF InBuffer
  <2>6. \A i \in 0 .. e.removedSnakes - 1 : Carries(v, IdAt(At(s, Len(s.snakes), s.food, i, 0)))
    BY <1>10 DEF InBuffer
  <2>8. \A i : i \notin 0 .. 0 - 1
    OBVIOUS
  <2>9. QED BY ONLY e.header, <2>1, <2>2, <2>3, <2>4, <2>5, <2>6, <2>8 DEF InBuffer, all
<1>11. QED
  <2>1. Carries(v, FoodIdAt(n)) /\ InBuffer(s, base, v, e) => InBuffer(s, base, v, d)
    BY <1>10
  <2>2. PICK fields : fields = FoodIdAt(n)
    OBVIOUS
  <2>3. v = Laid(w, fields) /\ (Carries(v, fields) /\ InBuffer(s, base, v, e) => InBuffer(s, base, v, d))
    BY <2>1, <2>2
  <2>4. /\ n \in Nat /\ m \in Nat /\ n <= m /\ Writing(s, base, w, n, e)
        /\ \A o \in DOMAIN fields : o \in Nat /\ n <= o /\ o < m
    BY <1>5, <1>6, <2>2
  <2>5. OneRecord(s, base, w, n, e, fields, m, v, d)
    BY ONLY <1>7, <1>8, <1>9, <2>3, <2>4 DEF OneRecord
  <2>6. QED BY <2>5, RecordWritten

(***************************************************************************)
(* The decoder.                                                            *)
(***************************************************************************)

(* A position inside the window comes back within an eighth.               *)
LEMMA QuantiseIsClose ==
  ASSUME NEW base \in {0, 1}, NEW at \in Int
  PROVE  /\ quantise(at, base) \in Int
         /\ (at - base) \div 2 \in -Half - 1 .. Half - 1 => quantise(at, base) * 2 + base - at \in -1 .. 1
<1> DEFINE r == (at - base + 1) \div 2
           m == Min({Half, r})
           q == quantise(at, base)
<1>1. Half \in Nat /\ r \in Int /\ -Half - 1 \in Int
  BY WireNats
<1>2. r = ((at - base) + 1) \div 2
  OBVIOUS
<1>3. (at - base) \div 2 \in -Half - 1 .. Half - 1 => r \in -Half - 1 .. Half
  BY ONLY base \in {0, 1}, at \in Int, <1>1, <1>2
<1>4. r * 2 + base - at \in -1 .. 1
  BY ONLY base \in {0, 1}, at \in Int, <1>2
<1> HIDE DEF r
<1>5. m = IF Half <= r THEN Half ELSE r
  BY <1>1, MinOfTwo
<1>6. m \in Int
  BY <1>1, <1>5
<1> HIDE DEF m
<1>7. Max({-Half - 1, m}) = IF -Half - 1 >= m THEN -Half - 1 ELSE m
  BY <1>1, <1>6, MaxOfTwo
<1>8. q = IF -Half - 1 >= m THEN -Half - 1 ELSE m
  <2>1. q = Max({-Half - 1, m})
    BY DEF quantise, clampI16, m, r
  <2>2. QED BY <1>7, <2>1
<1> HIDE DEF q
<1>9. q \in Int /\ (r \in -Half - 1 .. Half => q = r)
  BY ONLY <1>1, <1>5, <1>6, <1>8
<1>10. QED BY <1>3, <1>4, <1>9 DEF q

LEMMA FieldIs ==
  ASSUME NEW at, NEW field, NEW width, NEW value, at \in DOMAIN wire, wire[at] = F(field, width, value)
  PROVE  isAt(at, field, width) /\ valueAt(at) = value
BY DEF isAt, valueAt, F

(* The decoder takes a snake's fields where the encoder put them.          *)
LEMMA SnakeFound ==
  ASSUME NEW s, SnakeSent(s), NEW base, NEW at \in Nat, Carries(wire, snakeFields(s, base, at)),
         NEW rest, rest = at + 17 + s.bytes
  PROVE  /\ afterNickname(at) = rest /\ valueAt(rest + 7) = s.points
         /\ isAt(at, "id", UuidBytes) /\ isAt(at + UuidBytes, "nicknameLength", 1)
         /\ isAt(rest, "angle", 2) /\ isAt(rest + 2, "mass", 2) /\ isAt(rest + 4, "radius", 2)
         /\ isAt(rest + 6, "state", 1) /\ isAt(rest + 7, "pointCount", 2)
         /\ \A i \in 0 .. s.points - 1 :
              /\ isAt(rest + 9 + 4 * i, "x", 2) /\ isAt(rest + 9 + 4 * i + 2, "y", 2)
              /\ valueAt(rest + 9 + 4 * i) = quantise(s.at, base)
<1>1. PICK fs : fs = snakeFields(s, base, at)
  OBVIOUS
<1>2. /\ {at, at + 16, rest, rest + 2, rest + 4, rest + 6, rest + 7} \subseteq DOMAIN fs
      /\ fs[at] = F("id", 16, 0) /\ fs[at + 16] = F("nicknameLength", 1, s.bytes)
      /\ fs[rest] = F("angle", 2, 0) /\ fs[rest + 2] = F("mass", 2, 0)
      /\ fs[rest + 4] = F("radius", 2, 0) /\ fs[rest + 6] = F("state", 1, 0)
      /\ fs[rest + 7] = F("pointCount", 2, s.points)
      /\ \A i \in 0 .. s.points - 1 :
           /\ rest + 9 + 4 * i \in DOMAIN fs /\ fs[rest + 9 + 4 * i] = F("x", 2, quantise(s.at, base))
           /\ rest + 11 + 4 * i \in DOMAIN fs /\ fs[rest + 11 + 4 * i] = F("y", 2, quantise(s.at, base))
  BY <1>1, SnakeFieldsAre
<1>3. \A o \in DOMAIN fs : o \in DOMAIN wire /\ wire[o] = fs[o]
  BY <1>1 DEF Carries
<1>4. /\ isAt(at, "id", 16) /\ isAt(at + 16, "nicknameLength", 1) /\ valueAt(at + 16) = s.bytes
      /\ isAt(rest, "angle", 2) /\ isAt(rest + 2, "mass", 2) /\ isAt(rest + 4, "radius", 2)
      /\ isAt(rest + 6, "state", 1) /\ isAt(rest + 7, "pointCount", 2) /\ valueAt(rest + 7) = s.points
  <2>1. /\ at \in DOMAIN wire /\ wire[at] = F("id", 16, 0)
        /\ at + 16 \in DOMAIN wire /\ wire[at + 16] = F("nicknameLength", 1, s.bytes)
        /\ rest \in DOMAIN wire /\ wire[rest] = F("angle", 2, 0)
        /\ rest + 2 \in DOMAIN wire /\ wire[rest + 2] = F("mass", 2, 0)
        /\ rest + 4 \in DOMAIN wire /\ wire[rest + 4] = F("radius", 2, 0)
        /\ rest + 6 \in DOMAIN wire /\ wire[rest + 6] = F("state", 1, 0)
        /\ rest + 7 \in DOMAIN wire /\ wire[rest + 7] = F("pointCount", 2, s.points)
    BY ONLY <1>2, <1>3
  <2>2. QED BY ONLY <2>1, FieldIs
<1>5. ASSUME NEW i \in 0 .. s.points - 1
      PROVE  /\ isAt(rest + 9 + 4 * i, "x", 2) /\ isAt(rest + 9 + 4 * i + 2, "y", 2)
             /\ valueAt(rest + 9 + 4 * i) = quantise(s.at, base)
  <2> DEFINE x == rest + 9 + 4 * i
             y == rest + 11 + 4 * i
  <2>1. s.points \in Nat /\ s.bytes \in Nat
    BY DEF SnakeSent
  <2>2. i \in Int /\ rest \in Int
    BY <2>1
  <2>3. y = x + 2
    BY ONLY <2>2
  <2>4. /\ x \in DOMAIN wire /\ wire[x] = F("x", 2, quantise(s.at, base))
        /\ y \in DOMAIN wire /\ wire[y] = F("y", 2, quantise(s.at, base))
    BY <1>2, <1>3
  <2> HIDE DEF x, y
  <2>5. isAt(x, "x", 2) /\ valueAt(x) = quantise(s.at, base) /\ isAt(y, "y", 2)
    BY ONLY <2>4, FieldIs
  <2>6. QED BY <2>3, <2>5 DEF x
<1>6. afterNickname(at) = rest
  <2>1. PICK b \in Nat : b = s.bytes
    BY DEF SnakeSent
  <2>2. afterNickname(at) = at + 16 + 1 + b /\ rest = at + 17 + b
    BY <1>4, <2>1 DEF afterNickname, UuidBytes
  <2>3. QED BY ONLY at \in Nat, <2>1, <2>2
<1>7. QED BY <1>4, <1>5, <1>6 DEF UuidBytes

LEMMA ReadingsAre ==
  ASSUME NEW h \in BOOLEAN, NEW z \in BOOLEAN, NEW i \in Seq(SeenSnake), NEW f \in Nat, NEW r \in Nat, NEW q \in Nat,
         NEW d, d = [header |-> h, snakes |-> i, food |-> f, removedSnakes |-> r, removedFood |-> q, sound |-> z]
  PROVE  d \in Readings
BY DEF Readings

(* A snake more is decoded.                                                *)
LEMMA SnakeTaken ==
  ASSUME NEW s, SnapshotSent(s), NEW base, NEW at, NEW e, NEW g, Reading(s, base, at, e, g),
         g.header, Len(g.snakes) < Len(s.snakes), NEW seen \in SeenSnake,
         Recovered(s.snakes[Len(g.snakes) + 1], seen, base),
         NEW d, d = [g EXCEPT !.snakes = Append(@, seen)],
         NEW a, a = at + snakeBytes(s.snakes[Len(g.snakes) + 1])
  PROVE  Reading(s, base, a, e, d)
<1> DEFINE k == Len(g.snakes)
           all == Len(s.snakes)
           more == Append(g.snakes, seen)
<1>1. /\ g \in Readings /\ InTurn(s, g.header, k, g) /\ g.sound /\ Complete(s, e)
      /\ at = At(s, k, g.food, g.removedSnakes, g.removedFood)
      /\ \A i \in 1 .. k : Recovered(s.snakes[i], g.snakes[i], base)
  BY DEF Reading
<1>2. g.snakes \in Seq(SeenSnake)
  BY <1>1 DEF Readings
<1>3. k \in Nat /\ all \in Nat /\ k < all
  BY <1>2 DEF SnapshotSent
<1>4. k # all
  BY <1>3
<1>5. g.food = 0 /\ g.removedSnakes = 0 /\ g.removedFood = 0
  BY <1>1, <1>4 DEF InTurn
<1>6. /\ more \in Seq(SeenSnake) /\ Len(more) = k + 1 /\ more[k + 1] = seen
      /\ \A i \in 1 .. k : more[i] = g.snakes[i]
  BY <1>2, AppendProperties
<1>7. d = [header |-> TRUE, snakes |-> more, food |-> 0, removedSnakes |-> 0, removedFood |-> 0, sound |-> TRUE]
  BY <1>1, <1>5 DEF Readings
<1>8. a = At(s, k + 1, 0, 0, 0)
  <2>1. k + 1 \in 1 .. all /\ (k + 1) - 1 = k
    BY <1>3
  <2>2. At(s, k + 1, 0, 0, 0) = At(s, (k + 1) - 1, 0, 0, 0) + snakeBytes(s.snakes[k + 1])
    BY <2>1, AtIs
  <2>3. QED BY <1>1, <1>5, <2>1, <2>2
<1>9. \A i \in 1 .. k + 1 : Recovered(s.snakes[i], more[i], base)
  <2>1. ASSUME NEW i \in 1 .. k + 1 PROVE Recovered(s.snakes[i], more[i], base)
    <3>1. i \in 1 .. k \/ i = k + 1
      BY <1>3
    <3>2. CASE i \in 1 .. k
      BY <1>1, <1>6, <3>2
    <3>3. CASE i = k + 1
      BY <1>6, <3>3
    <3>4. QED BY <3>1, <3>2, <3>3
  <2>2. QED BY <2>1
<1>10. k + 1 \in 0 .. all
  BY <1>3
<1> HIDE DEF k, more
<1>11. d.header /\ d.snakes = more /\ d.food = 0 /\ d.removedSnakes = 0 /\ d.removedFood = 0 /\ d.sound
  BY <1>7
<1>12. d \in Readings
  <2>1. TRUE \in BOOLEAN /\ 0 \in Nat
    OBVIOUS
  <2>2. QED BY ONLY <1>6, <1>7, <2>1, ReadingsAre
<1>13. InTurn(s, d.header, k + 1, d)
  <2>1. 0 \in 0 .. s.food /\ 0 \in 0 .. s.removedSnakes /\ 0 \in 0 .. s.removedFood
    BY DEF SnapshotSent
  <2>2. QED BY <1>10, <1>11, <2>1 DEF InTurn
<1>14. QED BY ONLY <1>1, <1>6, <1>8, <1>9, <1>11, <1>12, <1>13 DEF Reading

LEMMA HeaderFound ==
  ASSUME NEW s, SnapshotSent(s), Carries(wire, headerFields(s))
  PROVE  /\ isAt(0, "type", 1) /\ valueAt(0) = 1
         /\ isAt(2, "snakeCount", 2) /\ snakeCount = Len(s.snakes)
         /\ isAt(4, "foodCount", 2) /\ foodCount = s.food
         /\ isAt(6, "removedSnakeCount", 2) /\ removedSnakeCount = s.removedSnakes
         /\ isAt(8, "removedFoodCount", 2) /\ removedFoodCount = s.removedFood
<1>1. PICK fs : fs = headerFields(s)
  OBVIOUS
<1>2. \A o \in DOMAIN fs : o \in DOMAIN wire /\ wire[o] = fs[o]
  BY <1>1 DEF Carries
<1>3. /\ {0, 2, 4, 6, 8} \subseteq DOMAIN fs
      /\ fs[0] = F("type", 1, 1) /\ fs[2] = F("snakeCount", 2, u16(Len(s.snakes)))
      /\ fs[4] = F("foodCount", 2, u16(s.food)) /\ fs[6] = F("removedSnakeCount", 2, u16(s.removedSnakes))
      /\ fs[8] = F("removedFoodCount", 2, u16(s.removedFood))
  BY <1>1 DEF headerFields
<1>4. /\ u16(Len(s.snakes)) = Len(s.snakes) /\ u16(s.food) = s.food
      /\ u16(s.removedSnakes) = s.removedSnakes /\ u16(s.removedFood) = s.removedFood
  BY FitsWidth DEF SnapshotSent
<1>5. /\ 0 \in DOMAIN wire /\ wire[0] = F("type", 1, 1)
      /\ 2 \in DOMAIN wire /\ wire[2] = F("snakeCount", 2, Len(s.snakes))
      /\ 4 \in DOMAIN wire /\ wire[4] = F("foodCount", 2, s.food)
      /\ 6 \in DOMAIN wire /\ wire[6] = F("removedSnakeCount", 2, s.removedSnakes)
      /\ 8 \in DOMAIN wire /\ wire[8] = F("removedFoodCount", 2, s.removedFood)
  BY ONLY <1>2, <1>3, <1>4
<1>6. /\ isAt(0, "type", 1) /\ valueAt(0) = 1
      /\ isAt(2, "snakeCount", 2) /\ valueAt(2) = Len(s.snakes)
      /\ isAt(4, "foodCount", 2) /\ valueAt(4) = s.food
  <2>1. 0 \in DOMAIN wire /\ wire[0] = F("type", 1, 1)
    BY ONLY <1>5
  <2>2. isAt(0, "type", 1) /\ valueAt(0) = 1
    BY ONLY <2>1 DEF isAt, valueAt, F
  <2>3. /\ 2 \in DOMAIN wire /\ wire[2] = F("snakeCount", 2, Len(s.snakes))
        /\ 4 \in DOMAIN wire /\ wire[4] = F("foodCount", 2, s.food)
    BY ONLY <1>5
  <2>4. /\ isAt(2, "snakeCount", 2) /\ valueAt(2) = Len(s.snakes)
        /\ isAt(4, "foodCount", 2) /\ valueAt(4) = s.food
    BY ONLY <2>3, FieldIs
  <2>5. QED BY ONLY <2>2, <2>4
<1>7. /\ isAt(6, "removedSnakeCount", 2) /\ valueAt(6) = s.removedSnakes
      /\ isAt(8, "removedFoodCount", 2) /\ valueAt(8) = s.removedFood
  BY ONLY <1>5, FieldIs
<1>8. QED BY ONLY <1>6, <1>7 DEF snakeCount, foodCount, removedSnakeCount, removedFoodCount

LEMMA HeaderTaken ==
  ASSUME NEW s, SnapshotSent(s), NEW base, NEW at, NEW e, NEW g, Reading(s, base, at, e, g),
         ~g.header, Complete(s, e), NEW z \in BOOLEAN, z, NEW d, d = [g EXCEPT !.header = TRUE, !.sound = z]
  PROVE  Reading(s, base, HeaderBytes, e, d)
<1>1. g \in Readings /\ InTurn(s, g.header, Len(g.snakes), g)
  BY DEF Reading
<1>2. g.snakes \in Seq(SeenSnake) /\ Len(g.snakes) \in Nat
  BY <1>1 DEF Readings
<1>3. Len(g.snakes) = 0 /\ g.food = 0 /\ g.removedSnakes = 0 /\ g.removedFood = 0
  BY <1>1 DEF InTurn
<1>4. z = TRUE
  OBVIOUS
<1>5. d = [header |-> TRUE, snakes |-> g.snakes, food |-> 0, removedSnakes |-> 0, removedFood |-> 0, sound |-> TRUE]
  BY <1>1, <1>3, <1>4 DEF Readings
<1>6. d.header /\ d.snakes = g.snakes /\ d.food = 0 /\ d.removedSnakes = 0 /\ d.removedFood = 0 /\ d.sound
  BY ONLY <1>5
<1>7. d \in Readings
  <2>1. TRUE \in BOOLEAN /\ 0 \in Nat
    OBVIOUS
  <2>2. QED BY ONLY <1>2, <1>5, <2>1, ReadingsAre
<1>8. InTurn(s, d.header, Len(d.snakes), d)
  <2>1. 0 \in 0 .. Len(s.snakes) /\ 0 \in 0 .. s.food /\ 0 \in 0 .. s.removedSnakes /\ 0 \in 0 .. s.removedFood
    BY DEF SnapshotSent
  <2>2. QED BY <1>3, <1>6, <2>1 DEF InTurn
<1>9. HeaderBytes = At(s, Len(d.snakes), d.food, d.removedSnakes, d.removedFood)
  BY <1>3, <1>6, AtIs
<1>10. \A i \in 1 .. Len(d.snakes) : Recovered(s.snakes[i], d.snakes[i], base)
  BY <1>3, <1>6
<1>11. Complete(s, e)
  OBVIOUS
<1>12. QED BY ONLY <1>6, <1>7, <1>8, <1>9, <1>10, <1>11 DEF Reading

(* One record more of a counted tail is decoded.                           *)
OneTaken(s, base, at, e, g, a, d) ==
  /\ Reading(s, base, at, e, g) /\ g.header /\ d \in Readings /\ d.header /\ d.sound
  /\ d.snakes = g.snakes /\ InTurn(s, d.header, Len(d.snakes), d)
  /\ a = At(s, Len(d.snakes), d.food, d.removedSnakes, d.removedFood)

LEMMA RecordTaken ==
  ASSUME NEW s, NEW base, NEW at, NEW e, NEW g, NEW a, NEW d, OneTaken(s, base, at, e, g, a, d)
  PROVE  Reading(s, base, a, e, d)
BY DEF OneTaken, Reading

LEMMA FoodTaken ==
  ASSUME NEW s, SnapshotSent(s), NEW base, NEW at, NEW e, NEW g, Reading(s, base, at, e, g),
         g.header, Len(g.snakes) = Len(s.snakes), g.food < s.food,
         NEW z \in BOOLEAN, z, NEW d, d = [g EXCEPT !.food = @ + 1, !.sound = z],
         NEW a, a = at + 9
  PROVE  Reading(s, base, a, e, d)
<1> DEFINE j == g.food
           all == Len(s.snakes)
<1>1. /\ g \in Readings /\ InTurn(s, g.header, Len(g.snakes), g)
      /\ at = At(s, Len(g.snakes), g.food, g.removedSnakes, g.removedFood)
  BY DEF Reading
<1>2. /\ j \in Nat /\ s.food \in Nat /\ s.removedSnakes \in Nat /\ s.removedFood \in Nat
      /\ all \in Nat /\ all \in 0 .. all
  BY <1>1 DEF Readings, SnapshotSent
<1>3. g.removedSnakes = 0 /\ g.removedFood = 0 /\ j < s.food /\ j # s.food
  BY <1>1, <1>2 DEF InTurn
<1>4. j + 1 \in Nat /\ j + 1 \in 0 .. s.food
  <2> HIDE DEF j
  <2>1. QED BY <1>2, <1>3
<1>5. z = TRUE
  OBVIOUS
<1>6. d = [header |-> TRUE, snakes |-> g.snakes, food |-> j + 1, removedSnakes |-> 0, removedFood |-> 0,
           sound |-> TRUE]
  BY <1>1, <1>3, <1>5 DEF Readings
<1>7. at = At(s, all, j, 0, 0) /\ a = At(s, all, j + 1, 0, 0)
  <2>1. at = At(s, all, j, 0, 0)
    BY <1>1, <1>3
  <2>2. PICK c \in Nat : c = StartOf(s, all)
    BY <1>2, AtIs
  <2> HIDE DEF j
  <2>3. At(s, all, j, 0, 0) = c + 9 * j + 16 * 0 + 4 * 0 /\ At(s, all, j + 1, 0, 0) = c + 9 * (j + 1) + 16 * 0 + 4 * 0
    BY ONLY <2>2 DEF At, UuidBytes
  <2> DEFINE food == s.food
             removed == s.removedSnakes
             here == At(s, all, j, 0, 0)
             next == At(s, all, j + 1, 0, 0)
  <2>4. food \in Nat /\ removed \in Nat /\ j \in Nat /\ here = c + 9 * j + 16 * 0 + 4 * 0 /\ next = c + 9 * (j + 1) + 16 * 0 + 4 * 0
    BY <1>2, <2>3
  <2>5. at = here /\ a = at + 9
    BY <2>1
  <2> HIDE DEF food, removed, here, next
  <2>6. a = next
    BY ONLY <2>2, <2>4, <2>5 DEF UuidBytes
  <2>7. QED BY <2>1, <2>6 DEF next
<1>8. g.snakes \in Seq(SeenSnake)
  BY <1>1 DEF Readings
<1> HIDE DEF j, all
<1>9. d \in Readings
  <2>1. TRUE \in BOOLEAN /\ 0 \in Nat
    OBVIOUS
  <2>2. QED BY ONLY <1>2, <1>4, <1>6, <1>8, <2>1, ReadingsAre
<1>10. /\ d.header /\ d.sound /\ d.snakes = g.snakes /\ Len(d.snakes) = all
       /\ d.food = j + 1 /\ d.removedSnakes = 0 /\ d.removedFood = 0
  <2>1. /\ d.header /\ d.sound /\ d.snakes = g.snakes
        /\ d.food = j + 1 /\ d.removedSnakes = 0 /\ d.removedFood = 0
    BY ONLY <1>6
  <2>2. Len(g.snakes) = all
    BY DEF all
  <2>3. QED BY ONLY <2>1, <2>2
<1>11. InTurn(s, d.header, Len(d.snakes), d)
  <2>1. /\ s.food \in 0 .. s.food /\ s.removedSnakes \in 0 .. s.removedSnakes /\ 0 \in 0 .. s.removedFood
        /\ 0 \in 0 .. s.removedSnakes
    BY <1>2
  <2>2. QED BY <1>2, <1>4, <1>10, <2>1 DEF InTurn, all
<1>12. a = At(s, Len(d.snakes), d.food, d.removedSnakes, d.removedFood)
  BY <1>7, <1>10
<1>13. OneTaken(s, base, at, e, g, a, d)
  BY <1>9, <1>10, <1>11, <1>12 DEF OneTaken
<1>14. QED BY <1>13, RecordTaken

LEMMA RemovedSnakeTaken ==
  ASSUME NEW s, SnapshotSent(s), NEW base, NEW at, NEW e, NEW g, Reading(s, base, at, e, g),
         g.header, Len(g.snakes) = Len(s.snakes), g.food = s.food, g.removedSnakes < s.removedSnakes,
         NEW z \in BOOLEAN, z, NEW d, d = [g EXCEPT !.removedSnakes = @ + 1, !.sound = z],
         NEW a, a = at + UuidBytes
  PROVE  Reading(s, base, a, e, d)
<1> DEFINE j == g.removedSnakes
           all == Len(s.snakes)
<1>1. /\ g \in Readings /\ InTurn(s, g.header, Len(g.snakes), g)
      /\ at = At(s, Len(g.snakes), g.food, g.removedSnakes, g.removedFood)
  BY DEF Reading
<1>2. /\ j \in Nat /\ s.food \in Nat /\ s.removedSnakes \in Nat /\ s.removedFood \in Nat
      /\ all \in Nat /\ all \in 0 .. all
  BY <1>1 DEF Readings, SnapshotSent
<1>3. g.removedFood = 0 /\ j < s.removedSnakes /\ j # s.removedSnakes
  BY <1>1, <1>2 DEF InTurn
<1>4. j + 1 \in Nat /\ j + 1 \in 0 .. s.removedSnakes
  <2> HIDE DEF j
  <2>1. QED BY <1>2, <1>3
<1>5. z = TRUE
  OBVIOUS
<1>6. d = [header |-> TRUE, snakes |-> g.snakes, food |-> s.food, removedSnakes |-> j + 1, removedFood |-> 0,
           sound |-> TRUE]
  BY <1>1, <1>3, <1>5 DEF Readings
<1>7. at = At(s, all, s.food, j, 0) /\ a = At(s, all, s.food, j + 1, 0)
  <2>1. at = At(s, all, s.food, j, 0)
    BY <1>1, <1>3
  <2>2. PICK c \in Nat : c = StartOf(s, all)
    BY <1>2, AtIs
  <2> HIDE DEF j
  <2>3. At(s, all, s.food, j, 0) = c + 9 * s.food + 16 * j + 4 * 0 /\ At(s, all, s.food, j + 1, 0) = c + 9 * s.food + 16 * (j + 1) + 4 * 0
    BY ONLY <2>2 DEF At, UuidBytes
  <2> DEFINE food == s.food
             removed == s.removedSnakes
             here == At(s, all, s.food, j, 0)
             next == At(s, all, s.food, j + 1, 0)
  <2>4. food \in Nat /\ removed \in Nat /\ j \in Nat /\ here = c + 9 * food + 16 * j + 4 * 0 /\ next = c + 9 * food + 16 * (j + 1) + 4 * 0
    BY <1>2, <2>3
  <2>5. at = here /\ a = at + UuidBytes
    BY <2>1
  <2> HIDE DEF food, removed, here, next
  <2>6. a = next
    BY ONLY <2>2, <2>4, <2>5 DEF UuidBytes
  <2>7. QED BY <2>1, <2>6 DEF next
<1>8. g.snakes \in Seq(SeenSnake)
  BY <1>1 DEF Readings
<1> HIDE DEF j, all
<1>9. d \in Readings
  <2>1. TRUE \in BOOLEAN /\ 0 \in Nat
    OBVIOUS
  <2>2. QED BY ONLY <1>2, <1>4, <1>6, <1>8, <2>1, ReadingsAre
<1>10. /\ d.header /\ d.sound /\ d.snakes = g.snakes /\ Len(d.snakes) = all
       /\ d.food = s.food /\ d.removedSnakes = j + 1 /\ d.removedFood = 0
  <2>1. /\ d.header /\ d.sound /\ d.snakes = g.snakes
        /\ d.food = s.food /\ d.removedSnakes = j + 1 /\ d.removedFood = 0
    BY ONLY <1>6
  <2>2. Len(g.snakes) = all
    BY DEF all
  <2>3. QED BY ONLY <2>1, <2>2
<1>11. InTurn(s, d.header, Len(d.snakes), d)
  <2>1. /\ s.food \in 0 .. s.food /\ s.removedSnakes \in 0 .. s.removedSnakes /\ 0 \in 0 .. s.removedFood
        /\ 0 \in 0 .. s.removedSnakes
    BY <1>2
  <2>2. QED BY <1>2, <1>4, <1>10, <2>1 DEF InTurn, all
<1>12. a = At(s, Len(d.snakes), d.food, d.removedSnakes, d.removedFood)
  BY <1>7, <1>10
<1>13. OneTaken(s, base, at, e, g, a, d)
  BY <1>9, <1>10, <1>11, <1>12 DEF OneTaken
<1>14. QED BY <1>13, RecordTaken

LEMMA RemovedFoodTaken ==
  ASSUME NEW s, SnapshotSent(s), NEW base, NEW at, NEW e, NEW g, Reading(s, base, at, e, g),
         g.header, Len(g.snakes) = Len(s.snakes), g.food = s.food, g.removedSnakes = s.removedSnakes, g.removedFood < s.removedFood,
         NEW z \in BOOLEAN, z, NEW d, d = [g EXCEPT !.removedFood = @ + 1, !.sound = z],
         NEW a, a = at + 4
  PROVE  Reading(s, base, a, e, d)
<1> DEFINE j == g.removedFood
           all == Len(s.snakes)
<1>1. /\ g \in Readings /\ InTurn(s, g.header, Len(g.snakes), g)
      /\ at = At(s, Len(g.snakes), g.food, g.removedSnakes, g.removedFood)
  BY DEF Reading
<1>2. /\ j \in Nat /\ s.food \in Nat /\ s.removedSnakes \in Nat /\ s.removedFood \in Nat
      /\ all \in Nat /\ all \in 0 .. all
  BY <1>1 DEF Readings, SnapshotSent
<1>3. j < s.removedFood /\ j # s.removedFood
  BY <1>1, <1>2 DEF InTurn
<1>4. j + 1 \in Nat /\ j + 1 \in 0 .. s.removedFood
  <2> HIDE DEF j
  <2>1. QED BY <1>2, <1>3
<1>5. z = TRUE
  OBVIOUS
<1>6. d = [header |-> TRUE, snakes |-> g.snakes, food |-> s.food, removedSnakes |-> s.removedSnakes, removedFood |-> j + 1,
           sound |-> TRUE]
  BY <1>1, <1>3, <1>5 DEF Readings
<1>7. at = At(s, all, s.food, s.removedSnakes, j) /\ a = At(s, all, s.food, s.removedSnakes, j + 1)
  <2>1. at = At(s, all, s.food, s.removedSnakes, j)
    BY <1>1, <1>3
  <2>2. PICK c \in Nat : c = StartOf(s, all)
    BY <1>2, AtIs
  <2> HIDE DEF j
  <2>3. At(s, all, s.food, s.removedSnakes, j) = c + 9 * s.food + 16 * s.removedSnakes + 4 * j /\ At(s, all, s.food, s.removedSnakes, j + 1) = c + 9 * s.food + 16 * s.removedSnakes + 4 * (j + 1)
    BY ONLY <2>2 DEF At, UuidBytes
  <2> DEFINE food == s.food
             removed == s.removedSnakes
             here == At(s, all, s.food, s.removedSnakes, j)
             next == At(s, all, s.food, s.removedSnakes, j + 1)
  <2>4. food \in Nat /\ removed \in Nat /\ j \in Nat /\ here = c + 9 * food + 16 * removed + 4 * j /\ next = c + 9 * food + 16 * removed + 4 * (j + 1)
    BY <1>2, <2>3
  <2>5. at = here /\ a = at + 4
    BY <2>1
  <2> HIDE DEF food, removed, here, next
  <2>6. a = next
    BY ONLY <2>2, <2>4, <2>5 DEF UuidBytes
  <2>7. QED BY <2>1, <2>6 DEF next
<1>8. g.snakes \in Seq(SeenSnake)
  BY <1>1 DEF Readings
<1> HIDE DEF j, all
<1>9. d \in Readings
  <2>1. TRUE \in BOOLEAN /\ 0 \in Nat
    OBVIOUS
  <2>2. QED BY ONLY <1>2, <1>4, <1>6, <1>8, <2>1, ReadingsAre
<1>10. /\ d.header /\ d.sound /\ d.snakes = g.snakes /\ Len(d.snakes) = all
       /\ d.food = s.food /\ d.removedSnakes = s.removedSnakes /\ d.removedFood = j + 1
  <2>1. /\ d.header /\ d.sound /\ d.snakes = g.snakes
        /\ d.food = s.food /\ d.removedSnakes = s.removedSnakes /\ d.removedFood = j + 1
    BY ONLY <1>6
  <2>2. Len(g.snakes) = all
    BY DEF all
  <2>3. QED BY ONLY <2>1, <2>2
<1>11. InTurn(s, d.header, Len(d.snakes), d)
  <2>1. /\ s.food \in 0 .. s.food /\ s.removedSnakes \in 0 .. s.removedSnakes /\ 0 \in 0 .. s.removedFood
        /\ 0 \in 0 .. s.removedSnakes
    BY <1>2
  <2>2. QED BY <1>2, <1>4, <1>10, <2>1 DEF InTurn, all
<1>12. a = At(s, Len(d.snakes), d.food, d.removedSnakes, d.removedFood)
  BY <1>7, <1>10
<1>13. OneTaken(s, base, at, e, g, a, d)
  BY <1>9, <1>10, <1>11, <1>12 DEF OneTaken
<1>14. QED BY <1>13, RecordTaken

LEMMA WireStarts == WireInit => WireInv
<1> SUFFICES ASSUME WireInit PROVE WireInv
  OBVIOUS
<1>1. /\ snapshot \in Snapshots /\ origin \in {0, 1} /\ wire = <<>> /\ written = 0
      /\ sent = NothingSent /\ offset = 0 /\ got = NothingRead
  BY DEF WireInit
<1>2. SnapshotSent(snapshot)
  BY <1>1, SnapshotIs
<1>3. /\ 0 \in 0 .. Len(snapshot.snakes) /\ 0 \in 0 .. snapshot.food
      /\ 0 \in 0 .. snapshot.removedSnakes /\ 0 \in 0 .. snapshot.removedFood
  BY <1>2 DEF SnapshotSent
<1>4. /\ ~sent.header /\ sent.snakes = 0 /\ sent.food = 0 /\ sent.removedSnakes = 0 /\ sent.removedFood = 0
      /\ sent \in Counts
  <2>1. sent = [header |-> FALSE, snakes |-> 0, food |-> 0, removedSnakes |-> 0, removedFood |-> 0]
    BY <1>1 DEF NothingSent
  <2>2. FALSE \in BOOLEAN /\ 0 \in Nat
    OBVIOUS
  <2>3. sent \in Counts
    BY ONLY <2>1, <2>2, CountsAre
  <2>4. QED BY <2>1, <2>3
<1>5. /\ ~got.header /\ got.snakes = <<>> /\ got.food = 0 /\ got.removedSnakes = 0 /\ got.removedFood = 0
      /\ got.sound /\ got \in Readings
  <2>1. got = [header |-> FALSE, snakes |-> <<>>, food |-> 0, removedSnakes |-> 0, removedFood |-> 0, sound |-> TRUE]
    BY <1>1 DEF NothingRead
  <2>2. FALSE \in BOOLEAN /\ TRUE \in BOOLEAN /\ 0 \in Nat /\ <<>> \in Seq(SeenSnake)
    BY EmptySeq
  <2>3. got \in Readings
    BY ONLY <2>1, <2>2, ReadingsAre
  <2>4. QED BY ONLY <2>1, <2>3
<1>6. Len(got.snakes) = 0
  BY <1>5, EmptySeq
<1>7. DOMAIN wire = {}
  BY <1>1
<1>8. InTurn(snapshot, sent.header, sent.snakes, sent) /\ InTurn(snapshot, got.header, Len(got.snakes), got)
  BY ONLY <1>3, <1>4, <1>5, <1>6 DEF InTurn
<1>9. InBuffer(snapshot, origin, wire, sent)
  BY ONLY <1>4 DEF InBuffer
<1>10. Writing(snapshot, origin, wire, written, sent)
  BY ONLY <1>1, <1>4, <1>7, <1>8, <1>9 DEF Writing
<1>11. Reading(snapshot, origin, offset, sent, got)
  BY ONLY <1>1, <1>5, <1>6, <1>8 DEF Reading
<1>12. QED BY ONLY <1>1, <1>10, <1>11 DEF WireInv

(* While the encoder still writes, nothing has been decoded.               *)
LEMMA NothingReadYet ==
  ASSUME NEW s, NEW base, NEW at, NEW e, NEW g, Reading(s, base, at, e, g), ~Complete(s, e), NEW d
  PROVE  Reading(s, base, at, d, g)
BY DEF Reading

LEMMA NotComplete ==
  ASSUME NEW s, SnapshotSent(s), NEW e \in Counts,
         \/ ~e.header \/ e.snakes < Len(s.snakes) \/ e.food < s.food
         \/ e.removedSnakes < s.removedSnakes \/ e.removedFood < s.removedFood
  PROVE  ~Complete(s, e)
BY DEF SnapshotSent, Counts, Complete

LEMMA WritesHeader == WireInv /\ writeHeader => WireInv'
<1> SUFFICES ASSUME WireInv, writeHeader PROVE WireInv'
  OBVIOUS
<1>1. /\ snapshot \in Snapshots /\ origin \in {0, 1} /\ Writing(snapshot, origin, wire, written, sent)
      /\ Reading(snapshot, origin, offset, sent, got)
  BY DEF WireInv
<1>2. SnapshotSent(snapshot) /\ sent \in Counts
  BY <1>1, SnapshotIs DEF Writing
<1>3. ~sent.header
  BY DEF writeHeader, SnakesWritten
<1>4. /\ sent' = [sent EXCEPT !.header = TRUE]
      /\ wire' = Laid(wire, headerFields(snapshot)) /\ written' = HeaderBytes
      /\ snapshot' = snapshot /\ origin' = origin /\ offset' = offset /\ got' = got
  BY DEF writeHeader, laid, Laid, IdAt, FoodIdAt
<1>5. Writing(snapshot, origin, wire', written', sent')
  BY <1>1, <1>2, <1>3, <1>4, HeaderWritten
<1>6. Reading(snapshot, origin, offset, sent', got)
  <2>1. ~Complete(snapshot, sent)
    BY <1>2, <1>3, NotComplete
  <2>2. QED BY <1>1, <2>1, NothingReadYet
<1>7. QED BY <1>1, <1>4, <1>5, <1>6 DEF WireInv

LEMMA WritesSnake == WireInv /\ writeSnake => WireInv'
<1> SUFFICES ASSUME WireInv, writeSnake PROVE WireInv'
  OBVIOUS
<1>1. /\ snapshot \in Snapshots /\ origin \in {0, 1} /\ Writing(snapshot, origin, wire, written, sent)
      /\ Reading(snapshot, origin, offset, sent, got)
  BY DEF WireInv
<1>2. SnapshotSent(snapshot) /\ sent \in Counts
  BY <1>1, SnapshotIs DEF Writing
<1>3. sent.header /\ sent.snakes < Len(snapshot.snakes)
  BY DEF writeSnake, SnakesWritten
<1>4. /\ sent' = [sent EXCEPT !.snakes = @ + 1]
      /\ wire' = Laid(wire, snakeFields(snapshot.snakes[sent.snakes + 1], origin, written)) /\ written' = written + snakeBytes(snapshot.snakes[sent.snakes + 1])
      /\ snapshot' = snapshot /\ origin' = origin /\ offset' = offset /\ got' = got
  BY DEF writeSnake, laid, Laid, IdAt, FoodIdAt
<1>5. Writing(snapshot, origin, wire', written', sent')
  BY <1>1, <1>2, <1>3, <1>4, SnakeWritten
<1>6. Reading(snapshot, origin, offset, sent', got)
  <2>1. ~Complete(snapshot, sent)
    BY <1>2, <1>3, NotComplete
  <2>2. QED BY <1>1, <2>1, NothingReadYet
<1>7. QED BY <1>1, <1>4, <1>5, <1>6 DEF WireInv

LEMMA WritesFood == WireInv /\ writeFood => WireInv'
<1> SUFFICES ASSUME WireInv, writeFood PROVE WireInv'
  OBVIOUS
<1>1. /\ snapshot \in Snapshots /\ origin \in {0, 1} /\ Writing(snapshot, origin, wire, written, sent)
      /\ Reading(snapshot, origin, offset, sent, got)
  BY DEF WireInv
<1>2. SnapshotSent(snapshot) /\ sent \in Counts
  BY <1>1, SnapshotIs DEF Writing
<1>3. sent.header /\ sent.snakes = Len(snapshot.snakes) /\ sent.food < snapshot.food
  BY DEF writeFood, SnakesWritten
<1>4. /\ sent' = [sent EXCEPT !.food = @ + 1]
      /\ wire' = Laid(wire, foodFields(written)) /\ written' = written + 9
      /\ snapshot' = snapshot /\ origin' = origin /\ offset' = offset /\ got' = got
  BY DEF writeFood, laid, Laid, IdAt, FoodIdAt
<1>5. Writing(snapshot, origin, wire', written', sent')
  BY <1>1, <1>2, <1>3, <1>4, FoodWritten
<1>6. Reading(snapshot, origin, offset, sent', got)
  <2>1. ~Complete(snapshot, sent)
    BY <1>2, <1>3, NotComplete
  <2>2. QED BY <1>1, <2>1, NothingReadYet
<1>7. QED BY <1>1, <1>4, <1>5, <1>6 DEF WireInv

LEMMA WritesRemovedSnake == WireInv /\ writeRemovedSnake => WireInv'
<1> SUFFICES ASSUME WireInv, writeRemovedSnake PROVE WireInv'
  OBVIOUS
<1>1. /\ snapshot \in Snapshots /\ origin \in {0, 1} /\ Writing(snapshot, origin, wire, written, sent)
      /\ Reading(snapshot, origin, offset, sent, got)
  BY DEF WireInv
<1>2. SnapshotSent(snapshot) /\ sent \in Counts
  BY <1>1, SnapshotIs DEF Writing
<1>3. /\ sent.header /\ sent.snakes = Len(snapshot.snakes) /\ sent.food = snapshot.food
      /\ sent.removedSnakes < snapshot.removedSnakes
  BY DEF writeRemovedSnake, SnakesWritten
<1>4. /\ sent' = [sent EXCEPT !.removedSnakes = @ + 1]
      /\ wire' = Laid(wire, IdAt(written)) /\ written' = written + UuidBytes
      /\ snapshot' = snapshot /\ origin' = origin /\ offset' = offset /\ got' = got
  BY DEF writeRemovedSnake, laid, Laid, IdAt, FoodIdAt
<1>5. Writing(snapshot, origin, wire', written', sent')
  BY <1>1, <1>2, <1>3, <1>4, RemovedSnakeWritten
<1>6. Reading(snapshot, origin, offset, sent', got)
  <2>1. ~Complete(snapshot, sent)
    BY <1>2, <1>3, NotComplete
  <2>2. QED BY <1>1, <2>1, NothingReadYet
<1>7. QED BY <1>1, <1>4, <1>5, <1>6 DEF WireInv

LEMMA WritesRemovedFood == WireInv /\ writeRemovedFood => WireInv'
<1> SUFFICES ASSUME WireInv, writeRemovedFood PROVE WireInv'
  OBVIOUS
<1>1. /\ snapshot \in Snapshots /\ origin \in {0, 1} /\ Writing(snapshot, origin, wire, written, sent)
      /\ Reading(snapshot, origin, offset, sent, got)
  BY DEF WireInv
<1>2. SnapshotSent(snapshot) /\ sent \in Counts
  BY <1>1, SnapshotIs DEF Writing
<1>3. /\ sent.header /\ sent.snakes = Len(snapshot.snakes) /\ sent.food = snapshot.food
      /\ sent.removedSnakes = snapshot.removedSnakes /\ sent.removedFood < snapshot.removedFood
  BY DEF writeRemovedFood, SnakesWritten
<1>4. /\ sent' = [sent EXCEPT !.removedFood = @ + 1]
      /\ wire' = Laid(wire, FoodIdAt(written)) /\ written' = written + 4
      /\ snapshot' = snapshot /\ origin' = origin /\ offset' = offset /\ got' = got
  BY DEF writeRemovedFood, laid, Laid, IdAt, FoodIdAt
<1>5. Writing(snapshot, origin, wire', written', sent')
  BY <1>1, <1>2, <1>3, <1>4, RemovedFoodWritten
<1>6. Reading(snapshot, origin, offset, sent', got)
  <2>1. ~Complete(snapshot, sent)
    BY <1>2, <1>3, NotComplete
  <2>2. QED BY <1>1, <2>1, NothingReadYet
<1>7. QED BY <1>1, <1>4, <1>5, <1>6 DEF WireInv

(* What a decoder finds in a buffer that is complete.                      *)
LEMMA Delivered ==
  ASSUME NEW s, SnapshotSent(s), NEW base, NEW n, NEW e, Writing(s, base, wire, n, e), Complete(s, e)
  PROVE  /\ n = At(s, Len(s.snakes), s.food, s.removedSnakes, s.removedFood)
         /\ Carries(wire, headerFields(s))
         /\ \A i \in 1 .. Len(s.snakes) : Carries(wire, snakeFields(s.snakes[i], base, StartOf(s, i - 1)))
         /\ \A i \in 0 .. s.food - 1 : Carries(wire, foodFields(At(s, Len(s.snakes), i, 0, 0)))
         /\ \A i \in 0 .. s.removedSnakes - 1 : Carries(wire, IdAt(At(s, Len(s.snakes), s.food, i, 0)))
         /\ \A i \in 0 .. s.removedFood - 1 :
              Carries(wire, FoodIdAt(At(s, Len(s.snakes), s.food, s.removedSnakes, i)))
BY DEF Writing, InBuffer, Complete

LEMMA FixedFieldsFound ==
  ASSUME NEW at \in Nat
  PROVE  /\ Carries(wire, foodFields(at)) =>
              /\ isAt(at, "foodId", 4) /\ isAt(at + 4, "x", 2) /\ isAt(at + 6, "y", 2)
              /\ isAt(at + 8, "foodMass", 1)
         /\ Carries(wire, IdAt(at)) => isAt(at, "id", UuidBytes)
         /\ Carries(wire, FoodIdAt(at)) => isAt(at, "foodId", 4)
<1>1. ASSUME Carries(wire, foodFields(at))
      PROVE  isAt(at, "foodId", 4) /\ isAt(at + 4, "x", 2) /\ isAt(at + 6, "y", 2) /\ isAt(at + 8, "foodMass", 1)
  <2>1. PICK fs : fs = foodFields(at)
    OBVIOUS
  <2>2. \A o \in DOMAIN fs : o \in DOMAIN wire /\ wire[o] = fs[o]
    BY <1>1, <2>1 DEF Carries
  <2>3. /\ {at, at + 4, at + 6, at + 8} \subseteq DOMAIN fs /\ fs[at] = F("foodId", 4, 0)
        /\ fs[at + 4] = F("x", 2, 0) /\ fs[at + 6] = F("y", 2, 0) /\ fs[at + 8] = F("foodMass", 1, 0)
    <3>1. /\ at + 4 # at /\ at + 6 # at /\ at + 6 # at + 4 /\ at + 8 # at /\ at + 8 # at + 4 /\ at + 8 # at + 6
      OBVIOUS
    <3>2. QED BY ONLY <2>1, <3>1 DEF foodFields
  <2>4. /\ at \in DOMAIN wire /\ wire[at] = F("foodId", 4, 0)
        /\ at + 4 \in DOMAIN wire /\ wire[at + 4] = F("x", 2, 0)
        /\ at + 6 \in DOMAIN wire /\ wire[at + 6] = F("y", 2, 0)
        /\ at + 8 \in DOMAIN wire /\ wire[at + 8] = F("foodMass", 1, 0)
    BY ONLY <2>2, <2>3
  <2>5. QED BY ONLY <2>4, FieldIs
<1>2. ASSUME Carries(wire, IdAt(at)) PROVE isAt(at, "id", UuidBytes)
  BY <1>2, FieldIs DEF Carries, IdAt
<1>3. ASSUME Carries(wire, FoodIdAt(at)) PROVE isAt(at, "foodId", 4)
  BY <1>3, FieldIs DEF Carries, FoodIdAt
<1>4. QED BY <1>1, <1>2, <1>3

LEMMA ReadsHeader == WireInv /\ readHeader => WireInv'
<1> SUFFICES ASSUME WireInv, readHeader PROVE WireInv'
  OBVIOUS
<1>1. /\ snapshot \in Snapshots /\ origin \in {0, 1} /\ Writing(snapshot, origin, wire, written, sent)
      /\ Reading(snapshot, origin, offset, sent, got) /\ SnapshotSent(snapshot)
  BY SnapshotIs DEF WireInv
<1> DEFINE found == /\ isAt(0, "type", 1) /\ valueAt(0) = 1
                    /\ isAt(2, "snakeCount", 2) /\ isAt(4, "foodCount", 2)
                    /\ isAt(6, "removedSnakeCount", 2) /\ isAt(8, "removedFoodCount", 2)
<1>2. Complete(snapshot, sent) /\ ~got.header
  BY DEF readHeader, Encoded, SnakesWritten, Complete
<1>3. found
  BY <1>1, <1>2, Delivered, HeaderFound
<1>4. PICK z \in BOOLEAN : z = found
  OBVIOUS
<1>5. /\ got' = [got EXCEPT !.header = TRUE, !.sound = z] /\ offset' = HeaderBytes
      /\ snapshot' = snapshot /\ origin' = origin /\ wire' = wire /\ written' = written /\ sent' = sent
  BY <1>4 DEF readHeader
<1> HIDE DEF found
<1>6. z
  BY <1>3, <1>4
<1>7. Reading(snapshot, origin, HeaderBytes, sent, got')
  BY <1>1, <1>2, <1>5, <1>6, HeaderTaken
<1>8. QED BY <1>1, <1>5, <1>7 DEF WireInv

(* What the decoder knows once it has the header.                          *)
LEMMA Underway ==
  ASSUME WireInv, got.header
  PROVE  /\ snapshot \in Snapshots /\ origin \in {0, 1} /\ Writing(snapshot, origin, wire, written, sent)
         /\ Reading(snapshot, origin, offset, sent, got) /\ SnapshotSent(snapshot)
         /\ Complete(snapshot, sent) /\ got \in Readings /\ got.sound
         /\ InTurn(snapshot, TRUE, Len(got.snakes), got)
         /\ offset = At(snapshot, Len(got.snakes), got.food, got.removedSnakes, got.removedFood)
         /\ snakeCount = Len(snapshot.snakes) /\ foodCount = snapshot.food
         /\ removedSnakeCount = snapshot.removedSnakes /\ removedFoodCount = snapshot.removedFood
<1>1. /\ snapshot \in Snapshots /\ origin \in {0, 1} /\ Writing(snapshot, origin, wire, written, sent)
      /\ Reading(snapshot, origin, offset, sent, got) /\ SnapshotSent(snapshot)
  BY SnapshotIs DEF WireInv
<1>2. /\ Complete(snapshot, sent) /\ got \in Readings /\ got.sound
      /\ InTurn(snapshot, got.header, Len(got.snakes), got)
      /\ offset = At(snapshot, Len(got.snakes), got.food, got.removedSnakes, got.removedFood)
  BY <1>1 DEF Reading
<1>3. InTurn(snapshot, TRUE, Len(got.snakes), got)
  BY <1>2 DEF InTurn
<1>4. Carries(wire, headerFields(snapshot))
  BY <1>1, <1>2, Delivered
<1>5. QED BY <1>1, <1>2, <1>3, <1>4, HeaderFound

LEMMA ReadsSnake == WireInv /\ readSnake => WireInv'
<1> SUFFICES ASSUME WireInv, readSnake PROVE WireInv'
  OBVIOUS
<1> DEFINE k == Len(got.snakes)
           all == Len(snapshot.snakes)
           body == snapshot.snakes[k + 1]
           rest == afterNickname(offset)
           found == /\ isAt(offset, "id", UuidBytes) /\ isAt(offset + UuidBytes, "nicknameLength", 1)
                    /\ isAt(rest, "angle", 2) /\ isAt(rest + 2, "mass", 2)
                    /\ isAt(rest + 4, "radius", 2) /\ isAt(rest + 6, "state", 1)
                    /\ isAt(rest + 7, "pointCount", 2)
                    /\ \A i \in 0 .. valueAt(rest + 7) - 1 :
                         isAt(rest + 9 + 4 * i, "x", 2) /\ isAt(rest + 9 + 4 * i + 2, "y", 2)
           where == IF valueAt(rest + 7) = 0 THEN 0 ELSE valueAt(rest + 9) * 2 + origin
<1>1. got.header
  BY DEF readSnake
<1>2. /\ snapshot \in Snapshots /\ origin \in {0, 1} /\ Writing(snapshot, origin, wire, written, sent)
      /\ Reading(snapshot, origin, offset, sent, got) /\ SnapshotSent(snapshot) /\ Complete(snapshot, sent)
      /\ got \in Readings /\ InTurn(snapshot, TRUE, k, got)
      /\ offset = At(snapshot, k, got.food, got.removedSnakes, got.removedFood) /\ snakeCount = all
  BY <1>1, Underway
<1>3. PICK z \in BOOLEAN : z = found
  OBVIOUS
<1>4. /\ got' = [got EXCEPT !.snakes = Append(@, [points |-> valueAt(rest + 7), at |-> where, sound |-> z])]
      /\ offset' = rest + 9 + valueAt(rest + 7) * 4 /\ k < snakeCount
      /\ snapshot' = snapshot /\ origin' = origin /\ wire' = wire /\ written' = written /\ sent' = sent
  BY <1>3 DEF readSnake
<1>5. k \in Nat /\ all \in Nat /\ k < all /\ k # all
  <2>1. k \in Nat
    BY <1>2 DEF Readings
  <2>2. all \in Nat
    BY <1>2 DEF SnapshotSent
  <2>3. k < all
    BY <1>2, <1>4
  <2> HIDE DEF k, all
  <2>4. QED BY <2>1, <2>2, <2>3
<1>6. got.food = 0 /\ got.removedSnakes = 0 /\ got.removedFood = 0
  BY <1>2, <1>5 DEF InTurn
<1>7. k + 1 \in 1 .. all /\ (k + 1) - 1 = k /\ k \in 0 .. all
  <2> HIDE DEF k, all
  <2>1. QED BY ONLY <1>5
<1>8. offset = StartOf(snapshot, k) /\ offset \in Nat
  <2> HIDE DEF k, all
  <2>1. offset = At(snapshot, k, 0, 0, 0)
    BY <1>2, <1>6
  <2>2. QED BY <1>2, <1>7, <2>1, AtIs DEF all
<1>9. SnakeSent(body)
  BY <1>2, <1>7 DEF SnapshotSent
<1>10. Carries(wire, snakeFields(body, origin, offset))
  <2>1. Carries(wire, snakeFields(snapshot.snakes[k + 1], origin, StartOf(snapshot, (k + 1) - 1)))
    <3>1. \A i \in 1 .. all : Carries(wire, snakeFields(snapshot.snakes[i], origin, StartOf(snapshot, i - 1)))
      BY <1>2, Delivered
    <3> HIDE DEF k, all
    <3>2. QED BY <1>7, <3>1
  <2>2. QED BY <1>7, <1>8, <2>1
<1>11. PICK b \in Nat, p \in Nat, a \in Int : b = body.bytes /\ p = body.points /\ a = body.at
  BY <1>9 DEF SnakeSent
<1> HIDE DEF k, all, body
<1>12. PICK r : r = offset + 17 + body.bytes
  OBVIOUS
<1>13. /\ rest = r /\ valueAt(r + 7) = p
       /\ isAt(offset, "id", UuidBytes) /\ isAt(offset + UuidBytes, "nicknameLength", 1)
       /\ isAt(r, "angle", 2) /\ isAt(r + 2, "mass", 2) /\ isAt(r + 4, "radius", 2)
       /\ isAt(r + 6, "state", 1) /\ isAt(r + 7, "pointCount", 2)
       /\ \A i \in 0 .. p - 1 :
            /\ isAt(r + 9 + 4 * i, "x", 2) /\ isAt(r + 9 + 4 * i + 2, "y", 2)
            /\ valueAt(r + 9 + 4 * i) = quantise(body.at, origin)
  BY <1>8, <1>9, <1>10, <1>11, <1>12, SnakeFound
<1>14. found
  BY <1>13
<1>15. p = 0 \/ valueAt(r + 9) = quantise(body.at, origin)
  <2>1. r \in Nat
    BY <1>8, <1>11, <1>12
  <2>2. p # 0 => 0 \in 0 .. p - 1
    BY ONLY p \in Nat
  <2>3. r + 9 + 4 * 0 = r + 9
    BY ONLY <2>1
  <2>4. QED BY <1>13, <2>2, <2>3
<1> HIDE DEF found
<1>16. z
  BY <1>3, <1>14
<1>17. valueAt(rest + 7) = p /\ (p # 0 => where = quantise(a, origin) * 2 + origin) /\ (p = 0 => where = 0)
  BY <1>11, <1>13, <1>15
<1>18. where \in Int
  <2>1. quantise(a, origin) \in Int /\ origin \in Int
    BY <1>2, QuantiseIsClose
  <2> HIDE DEF where
  <2>2. QED BY <1>17, <2>1
<1> HIDE DEF where
<1>19. PICK seen : seen = [points |-> p, at |-> where, sound |-> z]
  OBVIOUS
<1>20. seen \in SeenSnake
  BY <1>18, <1>19 DEF SeenSnake
<1>21. Recovered(body, seen, origin)
  <2>1. seen.points = p /\ seen.at = where
    BY <1>19
  <2>2. seen.sound
    BY ONLY <1>16, <1>19
  <2>3. ASSUME p > 0, (a - origin) \div 2 \in -Half - 1 .. Half - 1 PROVE where - a \in -1 .. 1
    <3>1. origin \in {0, 1} /\ a \in Int /\ where = quantise(a, origin) * 2 + origin
      BY <1>2, <1>17, <2>3
    <3>2. PICK base \in {0, 1} : base = origin
      BY <3>1
    <3>3. quantise(a, base) * 2 + base - a \in -1 .. 1
      BY ONLY <2>3, <3>1, <3>2, QuantiseIsClose
    <3>4. PICK q \in Int : q = quantise(a, base)
      BY ONLY <3>1, <3>2, QuantiseIsClose
    <3>5. q * 2 + base - a \in -1 .. 1 /\ where = q * 2 + base
      BY ONLY <3>1, <3>2, <3>3, <3>4
    <3> HIDE DEF where
    <3>6. QED BY ONLY <3>1, <3>4, <3>5, base \in {0, 1}
  <2>4. QED BY <1>11, <2>1, <2>2, <2>3 DEF Recovered
<1>22. offset' = offset + snakeBytes(body)
  <2>1. offset' = r + 9 + p * 4 /\ r = offset + 17 + b /\ snakeBytes(body) = 26 + b + 4 * p
    BY <1>4, <1>9, <1>11, <1>12, <1>13, <1>17, SnakeBytesAre
  <2>2. PICK o \in Nat : o = offset
    BY <1>8
  <2>3. QED BY <1>11, <2>1, <2>2
<1>23. got' = [got EXCEPT !.snakes = Append(@, seen)]
  BY <1>4, <1>17, <1>19
<1>24. Reading(snapshot, origin, offset', sent, got')
  <2>1. Len(got.snakes) < Len(snapshot.snakes)
    BY <1>5 DEF k, all
  <2>2. snapshot.snakes[Len(got.snakes) + 1] = body
    BY DEF body, k
  <2>3. QED BY <1>1, <1>2, <1>20, <1>21, <1>22, <1>23, <2>1, <2>2, SnakeTaken
<1>25. QED BY <1>2, <1>4, <1>24 DEF WireInv

LEMMA ReadsFood == WireInv /\ readFood => WireInv'
<1> SUFFICES ASSUME WireInv, readFood PROVE WireInv'
  OBVIOUS
<1> DEFINE found == /\ isAt(offset, "foodId", 4) /\ isAt(offset + 4, "x", 2)
                    /\ isAt(offset + 6, "y", 2) /\ isAt(offset + 8, "foodMass", 1)
<1>1. got.header
  BY DEF readFood, SnakesRead
<1>2. /\ snapshot \in Snapshots /\ origin \in {0, 1} /\ Writing(snapshot, origin, wire, written, sent)
      /\ Reading(snapshot, origin, offset, sent, got) /\ SnapshotSent(snapshot) /\ Complete(snapshot, sent)
      /\ got \in Readings /\ got.sound /\ InTurn(snapshot, TRUE, Len(got.snakes), got)
      /\ offset = At(snapshot, Len(got.snakes), got.food, got.removedSnakes, got.removedFood)
      /\ snakeCount = Len(snapshot.snakes) /\ foodCount = snapshot.food
      /\ removedSnakeCount = snapshot.removedSnakes /\ removedFoodCount = snapshot.removedFood
  BY <1>1, Underway
<1>3. PICK z \in BOOLEAN : z = (got.sound /\ found)
  OBVIOUS
<1>4. /\ got' = [got EXCEPT !.food = @ + 1, !.sound = z] /\ offset' = offset + 9
      /\ snapshot' = snapshot /\ origin' = origin /\ wire' = wire /\ written' = written /\ sent' = sent
  BY <1>3 DEF readFood
<1>5. /\ Len(got.snakes) = Len(snapshot.snakes) 
      /\ got.food < snapshot.food
  BY <1>2 DEF readFood, SnakesRead
<1> DEFINE j == got.food
           all == Len(snapshot.snakes)
<1>6. /\ j \in Nat /\ snapshot.food \in Nat /\ all \in 0 .. all
      /\ snapshot.food \in Nat /\ snapshot.removedSnakes \in Nat
  BY <1>2 DEF Readings, SnapshotSent
<1>7. j # snapshot.food /\ j \in 0 .. snapshot.food - 1
  <2>1. j < snapshot.food
    BY <1>5
  <2> HIDE DEF j
  <2>2. QED BY ONLY <1>6, <2>1
<1>8. offset = At(snapshot, all, j, 0, 0) /\ offset \in Nat
  <2>1. offset = At(snapshot, all, j, 0, 0)
    BY <1>2, <1>5, <1>7 DEF InTurn
  <2>2. 0 \in Nat
    OBVIOUS
  <2> HIDE DEF j
  <2>3. At(snapshot, all, j, 0, 0) \in Nat
    <3>1. SnapshotSent(snapshot) /\ all \in 0 .. Len(snapshot.snakes)
      BY <1>2, <1>6
    <3> HIDE DEF all
    <3>2. QED BY ONLY <1>6, <2>2, <3>1, AtIsNat
  <2>4. QED BY ONLY <2>1, <2>3
<1>9. found
  <2>1. \A i \in 0 .. snapshot.food - 1 : Carries(wire, foodFields(At(snapshot, all, i, 0, 0)))
    BY <1>2, Delivered
  <2> HIDE DEF j, all
  <2>2. Carries(wire, foodFields(offset))
    BY <1>7, <1>8, <2>1
  <2>3. QED BY <1>8, <2>2, FixedFieldsFound
<1> HIDE DEF found
<1>10. z
  BY <1>2, <1>3, <1>9
<1>11. Reading(snapshot, origin, offset', sent, got')
  BY <1>1, <1>2, <1>4, <1>5, <1>10, FoodTaken
<1>12. QED BY <1>2, <1>4, <1>11 DEF WireInv

LEMMA ReadsRemovedSnake == WireInv /\ readRemovedSnake => WireInv'
<1> SUFFICES ASSUME WireInv, readRemovedSnake PROVE WireInv'
  OBVIOUS
<1> DEFINE found == isAt(offset, "id", UuidBytes)
<1>1. got.header
  BY DEF readRemovedSnake, SnakesRead
<1>2. /\ snapshot \in Snapshots /\ origin \in {0, 1} /\ Writing(snapshot, origin, wire, written, sent)
      /\ Reading(snapshot, origin, offset, sent, got) /\ SnapshotSent(snapshot) /\ Complete(snapshot, sent)
      /\ got \in Readings /\ got.sound /\ InTurn(snapshot, TRUE, Len(got.snakes), got)
      /\ offset = At(snapshot, Len(got.snakes), got.food, got.removedSnakes, got.removedFood)
      /\ snakeCount = Len(snapshot.snakes) /\ foodCount = snapshot.food
      /\ removedSnakeCount = snapshot.removedSnakes /\ removedFoodCount = snapshot.removedFood
  BY <1>1, Underway
<1>3. PICK z \in BOOLEAN : z = (got.sound /\ found)
  OBVIOUS
<1>4. /\ got' = [got EXCEPT !.removedSnakes = @ + 1, !.sound = z] /\ offset' = offset + UuidBytes
      /\ snapshot' = snapshot /\ origin' = origin /\ wire' = wire /\ written' = written /\ sent' = sent
  BY <1>3 DEF readRemovedSnake
<1>5. /\ Len(got.snakes) = Len(snapshot.snakes) /\ got.food = snapshot.food
      /\ got.removedSnakes < snapshot.removedSnakes
  BY <1>2 DEF readRemovedSnake, SnakesRead
<1> DEFINE j == got.removedSnakes
           all == Len(snapshot.snakes)
<1>6. /\ j \in Nat /\ snapshot.removedSnakes \in Nat /\ all \in 0 .. all
      /\ snapshot.food \in Nat /\ snapshot.removedSnakes \in Nat
  BY <1>2 DEF Readings, SnapshotSent
<1>7. j # snapshot.removedSnakes /\ j \in 0 .. snapshot.removedSnakes - 1
  <2>1. j < snapshot.removedSnakes
    BY <1>5
  <2> HIDE DEF j
  <2>2. QED BY ONLY <1>6, <2>1
<1>8. offset = At(snapshot, all, snapshot.food, j, 0) /\ offset \in Nat
  <2>1. offset = At(snapshot, all, snapshot.food, j, 0)
    BY <1>2, <1>5, <1>7 DEF InTurn
  <2>2. 0 \in Nat
    OBVIOUS
  <2> HIDE DEF j
  <2>3. At(snapshot, all, snapshot.food, j, 0) \in Nat
    <3>1. SnapshotSent(snapshot) /\ all \in 0 .. Len(snapshot.snakes)
      BY <1>2, <1>6
    <3> HIDE DEF all
    <3>2. QED BY ONLY <1>6, <2>2, <3>1, AtIsNat
  <2>4. QED BY ONLY <2>1, <2>3
<1>9. found
  <2>1. \A i \in 0 .. snapshot.removedSnakes - 1 : Carries(wire, IdAt(At(snapshot, all, snapshot.food, i, 0)))
    BY <1>2, Delivered
  <2> HIDE DEF j, all
  <2>2. Carries(wire, IdAt(offset))
    BY <1>7, <1>8, <2>1
  <2>3. QED BY <1>8, <2>2, FixedFieldsFound
<1> HIDE DEF found
<1>10. z
  BY <1>2, <1>3, <1>9
<1>11. Reading(snapshot, origin, offset', sent, got')
  BY <1>1, <1>2, <1>4, <1>5, <1>10, RemovedSnakeTaken
<1>12. QED BY <1>2, <1>4, <1>11 DEF WireInv

LEMMA ReadsRemovedFood == WireInv /\ readRemovedFood => WireInv'
<1> SUFFICES ASSUME WireInv, readRemovedFood PROVE WireInv'
  OBVIOUS
<1> DEFINE found == isAt(offset, "foodId", 4)
<1>1. got.header
  BY DEF readRemovedFood, SnakesRead
<1>2. /\ snapshot \in Snapshots /\ origin \in {0, 1} /\ Writing(snapshot, origin, wire, written, sent)
      /\ Reading(snapshot, origin, offset, sent, got) /\ SnapshotSent(snapshot) /\ Complete(snapshot, sent)
      /\ got \in Readings /\ got.sound /\ InTurn(snapshot, TRUE, Len(got.snakes), got)
      /\ offset = At(snapshot, Len(got.snakes), got.food, got.removedSnakes, got.removedFood)
      /\ snakeCount = Len(snapshot.snakes) /\ foodCount = snapshot.food
      /\ removedSnakeCount = snapshot.removedSnakes /\ removedFoodCount = snapshot.removedFood
  BY <1>1, Underway
<1>3. PICK z \in BOOLEAN : z = (got.sound /\ found)
  OBVIOUS
<1>4. /\ got' = [got EXCEPT !.removedFood = @ + 1, !.sound = z] /\ offset' = offset + 4
      /\ snapshot' = snapshot /\ origin' = origin /\ wire' = wire /\ written' = written /\ sent' = sent
  BY <1>3 DEF readRemovedFood
<1>5. /\ Len(got.snakes) = Len(snapshot.snakes) /\ got.food = snapshot.food /\ got.removedSnakes = snapshot.removedSnakes
      /\ got.removedFood < snapshot.removedFood
  BY <1>2 DEF readRemovedFood, SnakesRead
<1> DEFINE j == got.removedFood
           all == Len(snapshot.snakes)
<1>6. /\ j \in Nat /\ snapshot.removedFood \in Nat /\ all \in 0 .. all
      /\ snapshot.food \in Nat /\ snapshot.removedSnakes \in Nat
  BY <1>2 DEF Readings, SnapshotSent
<1>7. j # snapshot.removedFood /\ j \in 0 .. snapshot.removedFood - 1
  <2>1. j < snapshot.removedFood
    BY <1>5
  <2> HIDE DEF j
  <2>2. QED BY ONLY <1>6, <2>1
<1>8. offset = At(snapshot, all, snapshot.food, snapshot.removedSnakes, j) /\ offset \in Nat
  <2>1. offset = At(snapshot, all, snapshot.food, snapshot.removedSnakes, j)
    BY <1>2, <1>5, <1>7 DEF InTurn
  <2>2. 0 \in Nat
    OBVIOUS
  <2> HIDE DEF j
  <2>3. At(snapshot, all, snapshot.food, snapshot.removedSnakes, j) \in Nat
    <3>1. SnapshotSent(snapshot) /\ all \in 0 .. Len(snapshot.snakes)
      BY <1>2, <1>6
    <3> HIDE DEF all
    <3>2. QED BY ONLY <1>6, <2>2, <3>1, AtIsNat
  <2>4. QED BY ONLY <2>1, <2>3
<1>9. found
  <2>1. \A i \in 0 .. snapshot.removedFood - 1 :
          Carries(wire, FoodIdAt(At(snapshot, all, snapshot.food, snapshot.removedSnakes, i)))
    BY <1>2, Delivered
  <2> HIDE DEF j, all
  <2>2. Carries(wire, FoodIdAt(offset))
    BY <1>7, <1>8, <2>1
  <2>3. QED BY <1>8, <2>2, FixedFieldsFound
<1> HIDE DEF found
<1>10. z
  BY <1>2, <1>3, <1>9
<1>11. Reading(snapshot, origin, offset', sent, got')
  BY <1>1, <1>2, <1>4, <1>5, <1>10, RemovedFoodTaken
<1>12. QED BY <1>2, <1>4, <1>11 DEF WireInv

LEMMA WireNextSound == WireInv /\ [WireNext]_wireVars => WireInv'
<1> SUFFICES ASSUME WireInv, [WireNext]_wireVars PROVE WireInv'
  OBVIOUS
<1>1. CASE UNCHANGED wireVars
  BY <1>1 DEF WireInv, wireVars
<1>2. CASE WireNext
  BY <1>2, WritesHeader, WritesSnake, WritesFood, WritesRemovedSnake, WritesRemovedFood,
     ReadsHeader, ReadsSnake, ReadsFood, ReadsRemovedSnake, ReadsRemovedFood DEF WireNext
<1>3. QED BY <1>1, <1>2

LEMMA WireInvMeans == WireInv => SnapshotSurvives
<1> SUFFICES ASSUME WireInv PROVE SnapshotSurvives
  OBVIOUS
<1>1. /\ snapshot \in Snapshots /\ origin \in {0, 1} /\ Writing(snapshot, origin, wire, written, sent)
      /\ Reading(snapshot, origin, offset, sent, got) /\ SnapshotSent(snapshot)
  BY SnapshotIs DEF WireInv
<1>2. EstimateHolds
  <2>1. /\ InTurn(snapshot, sent.header, sent.snakes, sent)
        /\ written = IF sent.header THEN At(snapshot, sent.snakes, sent.food, sent.removedSnakes, sent.removedFood) ELSE 0
    BY <1>1 DEF Writing
  <2>2. /\ sent.snakes \in 0 .. Len(snapshot.snakes) /\ sent.food \in 0 .. snapshot.food
        /\ sent.removedSnakes \in 0 .. snapshot.removedSnakes /\ sent.removedFood \in 0 .. snapshot.removedFood
    BY <2>1 DEF InTurn
  <2>3. At(snapshot, sent.snakes, sent.food, sent.removedSnakes, sent.removedFood) <= estimateSize(snapshot)
    BY <1>1, <2>2, EstimateCovers
  <2>4. At(snapshot, 0, 0, 0, 0) <= estimateSize(snapshot) /\ At(snapshot, 0, 0, 0, 0) = HeaderBytes
    <3>1. 0 \in 0 .. Len(snapshot.snakes) /\ 0 \in 0 .. snapshot.food
          /\ 0 \in 0 .. snapshot.removedSnakes /\ 0 \in 0 .. snapshot.removedFood
      BY <1>1 DEF SnapshotSent
    <3>2. QED BY <1>1, <3>1, EstimateCovers, AtIs
  <2>5. 0 <= estimateSize(snapshot)
    <3>1. 0 \in 0 .. Len(snapshot.snakes) /\ 0 \in 0 .. snapshot.food
          /\ 0 \in 0 .. snapshot.removedSnakes /\ 0 \in 0 .. snapshot.removedFood
      BY <1>1 DEF SnapshotSent
    <3>2. estimateSize(snapshot) \in Nat
      BY <1>1, <3>1, EstimateCovers
    <3>3. QED BY <3>2
  <2>6. QED BY <2>1, <2>3, <2>5 DEF EstimateHolds
<1>3. DecodesWhatWasSent
  <2>1. got.sound /\ \A i \in 1 .. Len(got.snakes) : Recovered(snapshot.snakes[i], got.snakes[i], origin)
    BY <1>1 DEF Reading
  <2>2. ASSUME Decoded
        PROVE  /\ offset = written /\ Len(got.snakes) = Len(snapshot.snakes)
               /\ got.food = snapshot.food /\ got.removedSnakes = snapshot.removedSnakes
               /\ got.removedFood = snapshot.removedFood
    <3>1. got.header
      BY <2>2 DEF Decoded, SnakesRead
    <3>2. /\ Complete(snapshot, sent)
          /\ offset = At(snapshot, Len(got.snakes), got.food, got.removedSnakes, got.removedFood)
          /\ snakeCount = Len(snapshot.snakes) /\ foodCount = snapshot.food
          /\ removedSnakeCount = snapshot.removedSnakes /\ removedFoodCount = snapshot.removedFood
      BY <3>1, Underway
    <3>3. written = At(snapshot, Len(snapshot.snakes), snapshot.food, snapshot.removedSnakes, snapshot.removedFood)
      BY <1>1, <3>2, Delivered
    <3>4. QED BY <2>2, <3>2, <3>3 DEF Decoded, SnakesRead
  <2>3. QED BY <2>1, <2>2 DEF DecodesWhatWasSent, Recovered, close, inWindow
<1>4. QED BY <1>2, <1>3 DEF SnapshotSurvives

(* Whatever the sizes of a snapshot and the lengths of its names, it fits   *)
(* the buffer estimated for it and is decoded field by field as it was      *)
(* encoded (encodeSnapshot, decodeSnapshot).                                *)
THEOREM SnapshotsSurvive == WireSpec => []SnapshotSurvives
<1>1. WireInit => WireInv
  BY WireStarts
<1>2. WireInv /\ [WireNext]_wireVars => WireInv'
  BY WireNextSound
<1>3. WireInv => SnapshotSurvives
  BY WireInvMeans
<1>4. QED BY <1>1, <1>2, <1>3, PTL DEF WireSpec
===============================================================================
