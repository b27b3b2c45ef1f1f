--------------------------- MODULE CircuitBreaker ---------------------------
(***************************************************************************)
(* The circuit breaker for RPC calls (packages/solana/src/tx): several     *)
(* callers run under one breaker, each reporting with the time at which it *)
(* started.  Times are kept as ages, so behaviours are unbounded; a call   *)
(* lasts at most MaxLasting.  Whether the endpoint answers is external.    *)
(***************************************************************************)
EXTENDS Integers, Sequences, FiniteSets

CONSTANTS Callers, FailureThreshold, Window, Cooldown, SuccessThreshold, MaxLasting

ASSUME BreakerAssumption ==
  {FailureThreshold, Window, Cooldown, SuccessThreshold, MaxLasting} \subseteq Nat \ {0}

VARIABLES breaker, \* state, failures (ages), openedAt (age), probeSuccesses, probeInFlight
          running, \* each caller's call: idle, or its role and its age
          healthy, \* whether the endpoint answers
          streak,  \* probe successes since the last probe failure or the last reset
          unruly   \* a result or an override reached the breaker out of turn

breakerVars == <<breaker, running, healthy, streak, unruly>>

NoCall == [role |-> "none", age |-> 0]

BreakerInit ==
  /\ breaker = [state |-> "closed", failures |-> <<>>, openedAt |-> 0,
                probeSuccesses |-> 0, probeInFlight |-> FALSE]
  /\ running = [c \in Callers |-> NoCall]
  /\ healthy \in BOOLEAN
  /\ streak = 0 /\ unruly = FALSE

Oldest == Window + MaxLasting

\* The state, failures and openedAt of the breaker an onFailure leaves.
opened(b, age) == [b EXCEPT !.state = "open", !.openedAt = age]

(***************************************************************************)
(* The breaker's methods, as functions of its state.                       *)
(***************************************************************************)
\* admit: what the breaker becomes, and the role the caller gets.
keepsOldSuccesses(b) ==  \* mutant: successes of an earlier spell count
  LET half == IF b.state = "open" /\ b.openedAt >= Cooldown
              THEN [b EXCEPT !.state = "half-open", !.probeInFlight = FALSE] ELSE b
  IN IF b.state = "closed" THEN [breaker |-> b, role |-> "ordinary"]
     ELSE IF half.state = "open" \/ half.probeInFlight THEN [breaker |-> half, role |-> "refused"]
     ELSE [breaker |-> [half EXCEPT !.probeInFlight = TRUE], role |-> "probe"]

admit(b) ==
  LET half == IF b.state = "open" /\ b.openedAt >= Cooldown
              THEN [b EXCEPT !.state = "half-open", !.probeSuccesses = 0, !.probeInFlight = FALSE]
              ELSE b
  IN IF b.state = "closed" THEN [breaker |-> b, role |-> "ordinary"]
     ELSE IF half.state = "open" \/ half.probeInFlight THEN [breaker |-> half, role |-> "refused"]
     ELSE [breaker |-> [half EXCEPT !.probeInFlight = TRUE], role |-> "probe"]

probeStaysOut(b, probe) ==  \* mutant: the answered probe stays marked
  IF probe
  THEN IF b.probeSuccesses + 1 >= SuccessThreshold
       THEN [b EXCEPT !.state = "closed", !.failures = <<>>, !.probeSuccesses = 0]
       ELSE [b EXCEPT !.probeSuccesses = @ + 1]
  ELSE IF b.state = "closed" THEN [b EXCEPT !.failures = <<>>] ELSE b

onSuccess(b, probe) ==
  LET done == [b EXCEPT !.probeInFlight = FALSE, !.probeSuccesses = @ + 1]
  IN IF probe
     THEN IF done.probeSuccesses >= SuccessThreshold
          THEN [done EXCEPT !.state = "closed", !.failures = <<>>, !.probeSuccesses = 0]
          ELSE done
     ELSE IF b.state = "closed" THEN [b EXCEPT !.failures = <<>>] ELSE b

\* now is the time at which the call started, age ticks ago.
onFailure(b, probe, age) ==
  LET InWindow(at) == at - age < Window
      counted == [b EXCEPT !.failures = SelectSeq(Append(@, age), InWindow)]
  IN IF probe THEN opened([b EXCEPT !.probeInFlight = FALSE], age)
     ELSE IF Len(counted.failures) >= FailureThreshold THEN opened(counted, age)
     ELSE counted

(***************************************************************************)
(* Actions.                                                                *)
(***************************************************************************)
\* execute up to its await: the call is admitted as an ordinary one or as the
\* probe, or CircuitOpenError is thrown at once.
execute(c) ==
  /\ running[c] = NoCall
  /\ LET decision == admit(breaker)
     IN /\ breaker' = decision.breaker
        /\ running' = IF decision.role = "refused" THEN running
                      ELSE [running EXCEPT ![c] = [role |-> decision.role, age |-> 0]]
  /\ UNCHANGED <<healthy, streak, unruly>>

\* The rest of execute, when fn settles.
settle(c) ==
  LET probe == running[c].role = "probe"
      ok == healthy
  IN /\ running[c] # NoCall
     /\ breaker' = IF ok THEN onSuccess(breaker, probe) ELSE onFailure(breaker, probe, running[c].age)
     /\ running' = [running EXCEPT ![c] = NoCall]
     /\ streak' = IF ~probe THEN streak ELSE IF ok /\ streak < SuccessThreshold THEN streak + 1
                  ELSE IF ok THEN streak ELSE 0
     /\ unruly' = (unruly \/ (~probe /\ ~ok /\ breaker.state # "closed"))
     /\ UNCHANGED healthy

\* The operator's override.
reset ==
  /\ breaker' = [breaker EXCEPT !.state = "closed", !.failures = <<>>, !.probeSuccesses = 0,
                                !.probeInFlight = FALSE]
  /\ streak' = 0
  /\ unruly' = (unruly \/ \E c \in Callers : running[c].role = "probe")
  /\ breaker.state # "closed"
  /\ UNCHANGED <<running, healthy>>

\* Time passes; no call outlives MaxLasting.
tick ==
  LET older(age, cap) == IF age < cap THEN age + 1 ELSE cap
  IN /\ \A c \in Callers : running[c].age < MaxLasting
     /\ breaker' = [breaker EXCEPT !.openedAt = older(@, Cooldown),
                                   !.failures = [n \in DOMAIN @ |-> older(@[n], Oldest)]]
     /\ running' = [c \in Callers |-> IF running[c] = NoCall THEN NoCall
                                      ELSE [running[c] EXCEPT !.age = @ + 1]]
     /\ UNCHANGED <<healthy, streak, unruly>>

\* The endpoint goes down or comes back.
turn ==
  /\ healthy' = ~healthy
  /\ UNCHANGED <<breaker, running, streak, unruly>>

BreakerNext == reset \/ tick \/ turn \/ \E c \in Callers : execute(c) \/ settle(c)

BreakerSpec == BreakerInit /\ [][BreakerNext]_breakerVars

\* Time passes, whoever may call keeps calling, and every call settles.
BreakerFairness ==
  WF_breakerVars(tick) /\ \A c \in Callers : WF_breakerVars(execute(c)) /\ WF_breakerVars(settle(c))

(***************************************************************************)
(* Properties.                                                             *)
(***************************************************************************)
Probes == {c \in Callers : running[c].role = "probe"}

\* Half-open lets exactly one probe loose at a time, unless an ordinary call
\* that began before the circuit opened fails after it, or an operator resets
\* the breaker while the probe is out.
OneProbe == unruly \/ Cardinality(Probes) <= 1

\* Half-open is careful: it lets one probe loose at a time, and the circuit
\* closes by itself only once the endpoint has answered SuccessThreshold
\* probes in a row, with the same exception: a second probe let loose may
\* close a circuit that the first one's failure has opened.
HalfOpenIsCareful ==
  [][/\ OneProbe'
     /\ breaker.state # "closed" /\ breaker'.state = "closed" =>
          streak' >= SuccessThreshold \/ reset \/ unruly]_breakerVars

\* An endpoint that comes back is used again: the circuit never stays away
\* from an endpoint that answers, wherever its probe was when it came back.
Recovers == <>[]healthy => <>[](breaker.state = "closed")
=============================================================================
