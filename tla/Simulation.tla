------------------------------ MODULE Simulation ------------------------------
(***************************************************************************)
(* The game-core simulation: the world of one room, the operations the     *)
(* room calls between ticks and the tick itself.                           *)
(*                                                                         *)
(* The plane is abstracted to what the properties tell apart.  A point is  *)
(* the distance its snake had travelled when the point was made, so a      *)
(* spine is a path when its points fall from the head to the tail; which   *)
(* food a head reaches and which body or wall it touches are choices made  *)
(* anew each tick.  The rest is kept: the ring buffer of the spine, mass   *)
(* and length, the queue of inputs, the order of the sweep, the ids.       *)
(***************************************************************************)
EXTENDS Integers, Sequences, FiniteSets, FiniteSetsExt, Functions, Sums, Maps

CONSTANTS Owners,          \* the players of the room
          StartMass, MinBoostMass,
          Spacing,         \* SEGMENT_SPACING
          BaseSpeed, BoostSpeed,        \* distance of one tick
          DrainUnit,       \* boosted ticks that cost one unit of mass
          BaseLength, MaxLength, SpineCapacity,
          DropMass, MinDrops, MaxDrops, \* pieces a dead body falls into
          TargetFood, FoodBudget,
          FoodLife, SweepEvery,         \* ticks
          MaxTick, MaxId, MaxQueue, MaxSeq      \* bounds of the model

ASSUME SimulationConstants ==
  /\ {StartMass, Spacing, BaseSpeed, BoostSpeed, DrainUnit, BaseLength, DropMass, MinDrops,
      MaxDrops, FoodBudget, SweepEvery, SpineCapacity} \subseteq Nat \ {0}
  /\ {MinBoostMass, TargetFood, FoodLife, MaxTick, MaxId, MaxQueue, MaxSeq} \subseteq Nat
  /\ MaxLength \in 1 .. SpineCapacity - 1
  /\ MinDrops <= MaxDrops /\ BaseSpeed <= BoostSpeed

VARIABLES world,     \* WorldState
          deaths     \* the DeathEvents of the last tick, in order
simVars == <<world, deaths>>

Never == -1          \* expiresAtTick of natural food
Unwritten == -1      \* a slot of the ring nobody wrote
Wall == -1
NoKiller == 0

lengthForMass(mass) == Min({MaxLength, BaseLength + (mass * 9) \div 10})

---------------------------------------------------------------------------
(* Food. *)

\* n pieces, one after the other.
spawnFood(w, n, mass, expires) ==
  LET ids == w.nextEntityId .. w.nextEntityId + n - 1
  IN  [w EXCEPT !.food = [f \in DOMAIN @ \cup ids |->
                            IF f \in ids THEN [mass |-> mass, expires |-> expires] ELSE @[f]],
                !.nextEntityId = @ + n]

scatterMass(w, snake) ==
  LET total == (snake.mass * 6) \div 10
      drops == Min({MaxDrops, Max({MinDrops, total \div DropMass})})
  IN  spawnFood(w, drops, total \div drops, w.tick + FoodLife)

maintainFood(w) ==
  LET deficit == TargetFood - Cardinality(DOMAIN w.food)
  IN  spawnFood(w, Min({FoodBudget, Max({0, deficit})}), 1, Never)

isExpired(w, f) == w.food[f].expires # Never /\ w.tick >= w.food[f].expires

\* Sweeping every tick is wasted work.
expireFood(w) ==
  IF w.tick % SweepEvery # 0 THEN w
  ELSE [w EXCEPT !.food = Restrict(@, {f \in DOMAIN @ : ~isExpired(w, f)})]

createWorld ==
  spawnFood([tick |-> 0, snakes |-> <<>>, food |-> <<>>, playerIndex |-> <<>>,
             pendingInputs |-> <<>>, nextEntityId |-> 1], TargetFood, 1, Never)

---------------------------------------------------------------------------
(* Snakes. *)

slot(snake, offset) == (snake.headIndex - offset + SpineCapacity) % SpineCapacity
headOf(snake) == snake.spine[snake.headIndex]

pointAt(snake, offset) ==
  snake.spine[slot(snake, Min({Max({0, offset}), snake.spineLength - 1}))]

\* A new snake lies straight behind its head, one spacing between points.
newSnake(player) ==
  LET initial == lengthForMass(StartMass)
      behind == [i \in 0 .. SpineCapacity - 1 |-> (SpineCapacity - i) % SpineCapacity]
  IN  [playerId |-> player, headIndex |-> 0, spineLength |-> initial,
       spine |-> [i \in 0 .. SpineCapacity - 1 |->
                    IF behind[i] < initial THEN Spacing * (initial - 1 - behind[i]) ELSE Unwritten],
       mass |-> StartMass, boosting |-> FALSE, alive |-> TRUE, lastAckSeq |-> 0, kills |-> 0,
       boostDebt |-> 0, sinceLastPoint |-> 0]

spawnSnake(w, player) ==
  IF player \in DOMAIN w.playerIndex /\ w.playerIndex[player] \in DOMAIN w.snakes THEN w
  ELSE [w EXCEPT !.snakes = put(@, w.nextEntityId, newSnake(player)),
                 !.playerIndex = put(@, player, w.nextEntityId),
                 !.nextEntityId = @ + 1]

without(f, x) == Restrict(f, DOMAIN f \ {x})

forget(w, id, player) ==
  [w EXCEPT !.snakes = without(@, id), !.playerIndex = without(@, player),
            !.pendingInputs = without(@, id)]

despawnSnake(w, player, scatter) ==
  IF player \notin DOMAIN w.playerIndex THEN w
  ELSE LET id == w.playerIndex[player]
       IN  forget(IF scatter /\ id \in DOMAIN w.snakes THEN scatterMass(w, w.snakes[id]) ELSE w,
                  id, player)

resize(snake, mass) ==  \* mutant: growing lengthens at once
  [snake EXCEPT !.mass = Max({1, mass}), !.spineLength = lengthForMass(Max({1, mass}))]

\* Shrinking cuts the tail; growing waits for the next points.
setMass(snake, mass) ==
  LET m == Max({1, mass})
  IN  [snake EXCEPT !.mass = m, !.spineLength = Min({@, lengthForMass(m), SpineCapacity})]

pushPoint(snake, point) ==
  LET head == (snake.headIndex + 1) % SpineCapacity
  IN  [snake EXCEPT !.headIndex = head, !.spine[head] = point,
                    !.spineLength = Min({@ + 1, lengthForMass(snake.mass), SpineCapacity})]

enqueueInput(w, player, command) ==
  IF player \notin DOMAIN w.playerIndex THEN w
  ELSE LET id == w.playerIndex[player]
           queue == IF id \in DOMAIN w.pendingInputs THEN w.pendingInputs[id] ELSE <<>>
       IN  [w EXCEPT !.pendingInputs = put(@, id, Append(queue, command))]

---------------------------------------------------------------------------
(* The tick. *)

\* Only a command newer than the last one applied counts.
applyCommand(snake, command) ==
  IF command.seq > snake.lastAckSeq
  THEN [snake EXCEPT !.boosting = command.boost, !.lastAckSeq = command.seq]
  ELSE snake

applyInputs(w) ==
  LET heard(id) == id \in DOMAIN w.pendingInputs /\ w.snakes[id].alive
  IN  [w EXCEPT !.snakes = [id \in DOMAIN @ |->
                              IF heard(id) THEN inOrder(applyCommand, @[id], w.pendingInputs[id])
                              ELSE @[id]],
                !.pendingInputs = [id \in DOMAIN @ |-> <<>>]]

canBoost(snake) == snake.boosting /\ snake.mass > MinBoostMass

drain(snake) ==
  LET debt == snake.boostDebt + 1
  IN  IF ~canBoost(snake) THEN snake
      ELSE IF debt < DrainUnit THEN [snake EXCEPT !.boostDebt = debt]
      ELSE setMass([snake EXCEPT !.boostDebt = debt - DrainUnit], snake.mass - 1)

advance(snake, distance) ==
  LET next == headOf(snake) + distance
      since == snake.sinceLastPoint + distance
  IN  IF since >= Spacing
      THEN pushPoint([snake EXCEPT !.sinceLastPoint = since - Spacing], next)
      ELSE [snake EXCEPT !.sinceLastPoint = since, !.spine[snake.headIndex] = next]

moveSnakes(w) ==
  LET move(snake) == advance(drain(snake), IF canBoost(snake) THEN BoostSpeed ELSE BaseSpeed)
  IN  [w EXCEPT !.snakes = [id \in DOMAIN @ |-> IF @[id].alive THEN move(@[id]) ELSE @[id]]]

living(w) == {id \in DOMAIN w.snakes : w.snakes[id].alive}

\* eater names the snake whose head reaches a piece first in the order of
\* the snakes, or nobody.
consumeFood(w, eater) ==
  LET eaten(id) == {f \in DOMAIN w.food : eater[f] = id}
      gain(id) == Total([f \in eaten(id) |-> w.food[f].mass])
  IN  [w EXCEPT !.snakes = [id \in DOMAIN @ |->
                              IF eaten(id) = {} THEN @[id] ELSE setMass(@[id], @[id].mass + gain(id))],
                !.food = Restrict(@, eaten(NoKiller))]

fall(sweep, id, killer) ==
  [snakes |-> [other \in DOMAIN sweep.snakes |->
                 [sweep.snakes[other] EXCEPT !.alive = @ /\ other # id,
                                             !.kills = IF other = killer THEN @ + 1 ELSE @]],
   deaths |-> Append(sweep.deaths, [victim |-> id, killer |-> killer])]

\* contact names the wall, or the first body still alive that the head
\* touches: a snake that fell earlier in this sweep kills nobody.
collide(sweep, id, contact) ==
  IF ~sweep.snakes[id].alive \/ contact = NoKiller THEN sweep
  ELSE IF contact = Wall THEN fall(sweep, id, NoKiller)
  ELSE IF sweep.snakes[contact].alive THEN fall(sweep, id, contact) ELSE sweep

\* The snakes in the order they were added, which is that of their ids.
detectCollisions(w, contact) ==
  LET visit(sweep, id) == IF id \in living(w) THEN collide(sweep, id, contact[id]) ELSE sweep
  IN  inOrder(visit, [snakes |-> w.snakes, deaths |-> <<>>], [id \in 1 .. w.nextEntityId - 1 |-> id])

\* What dies is scattered once the sweep is over.
scatterAll(w, sweep) ==
  LET drop(acc, death) == scatterMass(acc, acc.snakes[death.victim])
  IN  inOrder(drop, [w EXCEPT !.snakes = sweep.snakes], sweep.deaths)

contacts(w) ==
  {c \in [living(w) -> living(w) \cup {Wall, NoKiller}] : \A id \in living(w) : c[id] # id}

\* The pieces one tick may feed: every set, each piece to one living snake.
meals(w) == [DOMAIN w.food -> living(w) \cup {NoKiller}]

step ==
  /\ world.tick < MaxTick
  /\ \E moved \in {moveSnakes(applyInputs(world))} : \E eater \in meals(moved) :
     \E fed \in {consumeFood(moved, eater)} : \E contact \in contacts(fed) :
     \E sweep \in {detectCollisions(fed, contact)} : \E w \in {scatterAll(fed, sweep)} :
       /\ deaths' = sweep.deaths
       /\ world' = [expireFood(maintainFood(w)) EXCEPT !.tick = @ + 1]

---------------------------------------------------------------------------
(* What the room does between ticks. *)

addPlayer(p) == world' = spawnSnake(world, p)
removePlayer(p) == world' = despawnSnake(world, p, TRUE)
respawn(p) == world' = spawnSnake(despawnSnake(world, p, FALSE), p)

queueOf(p) ==
  LET id == world.playerIndex[p]
  IN  IF id \in DOMAIN world.pendingInputs THEN world.pendingInputs[id] ELSE <<>>

applyInput(p) ==
  /\ p \in DOMAIN world.playerIndex => Len(queueOf(p)) < MaxQueue
  /\ \E seq \in 1 .. MaxSeq, boost \in BOOLEAN :
       world' = enqueueInput(world, p, [seq |-> seq, boost |-> boost])

Call ==
  /\ world.nextEntityId <= MaxId
  /\ deaths' = deaths
  /\ \E p \in Owners : addPlayer(p) \/ removePlayer(p) \/ respawn(p) \/ applyInput(p)

SimInit == world = createWorld /\ deaths = <<>>
SimNext == step \/ Call
SimSpec == SimInit /\ [][SimNext]_simVars

---------------------------------------------------------------------------
(* Properties. *)

Command == [seq : 1 .. MaxSeq, boost : BOOLEAN]

\* Every value keeps its type through the calls of the room and the ticks.
SimTypeOK ==
  /\ world.tick \in 0 .. MaxTick
  /\ \A id \in DOMAIN world.snakes : LET s == world.snakes[id] IN
       /\ s.playerId \in Owners /\ s.headIndex \in 0 .. SpineCapacity - 1
       /\ s.spineLength \in 1 .. MaxLength /\ s.mass \in Nat \ {0}
       /\ s.boostDebt \in 0 .. DrainUnit - 1 /\ s.sinceLastPoint \in Nat
       /\ s.lastAckSeq \in 0 .. MaxSeq /\ s.alive \in BOOLEAN /\ s.boosting \in BOOLEAN
  /\ \A f \in DOMAIN world.food : world.food[f].mass \in Nat
  /\ \A id \in DOMAIN world.pendingInputs : world.pendingInputs[id] \in Seq(Command)

\* The body that collisions, scattering and snapshots read is the path the
\* head travelled: point by point strictly behind, and no further apart
\* than a spacing and a tick's travel, whatever growing, boosting and wrapping
\* round the ring did to the buffer (pushPoint, setMass, pointAt).
SpineIsPath ==
  \A id \in DOMAIN world.snakes : LET s == world.snakes[id] IN
    \A i \in 0 .. s.spineLength - 1 :
      /\ pointAt(s, i) # Unwritten
      /\ i > 0 => pointAt(s, i - 1) - pointAt(s, i) \in 1 .. Spacing + Max({Spacing, BoostSpeed})

\* The player index and the snakes are inverse to each other, and inputs
\* wait only for a snake that exists, whatever joins, leaves and respawns
\* came between the ticks (spawnSnake, despawnSnake).
OneSnakeEach ==
  /\ \A p \in DOMAIN world.playerIndex :
       world.playerIndex[p] \in DOMAIN world.snakes /\ world.snakes[world.playerIndex[p]].playerId = p
  /\ \A id \in DOMAIN world.snakes : world.snakes[id].playerId \in DOMAIN world.playerIndex
                                     /\ world.playerIndex[world.snakes[id].playerId] = id
  /\ DOMAIN world.pendingInputs \subseteq DOMAIN world.snakes

\* Two heads that meet do not kill each other: the killers of a tick are
\* never victims before their victims, so collisions alone leave somebody
\* alive, however many heads touch at once (detectCollisions).
SomeoneSurvives ==
  (deaths # <<>> /\ \A i \in DOMAIN deaths : deaths[i].killer # NoKiller)
    => LET killer == deaths[Len(deaths)].killer
       IN  \A i \in DOMAIN deaths : deaths[i].victim # killer

\* The food of a world is bounded: no more natural food than the target,
\* and what the dead dropped is gone a sweep after its time, on whichever
\* tick it fell (scatterMass, maintainFood, expireFood).
FoodIsBounded ==
  /\ Cardinality({f \in DOMAIN world.food : world.food[f].expires = Never}) <= TargetFood
  /\ \A f \in DOMAIN world.food :
       world.food[f].expires # Never => world.tick <= world.food[f].expires + SweepEvery

\* What a tick leaves is sound whatever came between the ticks: bodies are
\* paths, each player has one snake, a crash of heads has a survivor and
\* the food stays bounded (tick).
SimInv == SimTypeOK /\ SpineIsPath /\ OneSnakeEach /\ SomeoneSurvives /\ FoodIsBounded
=============================================================================
