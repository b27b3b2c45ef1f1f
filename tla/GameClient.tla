------------------------------ MODULE GameClient ------------------------------
(***************************************************************************)
(* One player in a room: the page that mounts an engine, the engine that   *)
(* predicts and interpolates, the socket that is lost and found again, the *)
(* input guard of each socket on the node, and the seat and snake that the *)
(* commands steer.  Messages of one socket arrive in order; what is under  *)
(* way when it breaks may still arrive at the node or be lost, what the    *)
(* client emits without a connection is buffered and sent on the next one. *)
(* The Redis adapter of the node restores no session, so a renewed socket  *)
(* is a new one to every handler.                                          *)
(* Positions are left out: a snapshot is its server time and its ackSeq.   *)
(***************************************************************************)
EXTENDS Integers, Sequences, FiniteSets, FiniteSetsExt, SequencesExt, Functions, Maps

CONSTANTS BufferSize,      \* maxSize of the snapshot buffer
          MaxPending,      \* maxPending of the prediction buffer
          MaxJump,         \* how far a sequence number may jump
          Burst, Refill,   \* the input budget, and its refill per send interval
          Suspicious,      \* SUSPICION_THRESHOLD
          MaxMounts, MaxSockets, MaxCommands, MaxClock, MaxFlight   \* bounds of the model

ASSUME ClientConstants ==
  /\ {BufferSize, MaxPending, MaxJump, Burst, Refill, Suspicious, MaxFlight} \subseteq Nat \ {0}
  /\ {MaxMounts, MaxSockets, MaxCommands, MaxClock} \subseteq Nat
  /\ Burst > MaxFlight

VARIABLES engines,    \* the engines the page has made, and what became of each
          engine,     \* what the mounted engine knows
          status,     \* status of the game store
          conn,       \* the client's connection: its socket, or 0
          outbox,     \* emitted while there was none
          up, down,   \* what is under way on each socket
          guards,     \* the input guards of the sockets the node still holds
          seat, snake,   \* the player's seat and snake in the room
          clock,      \* elapsed server time
          lost,       \* connections lost so far
          left        \* the player has left the match
clientVars == <<engines, engine, status, conn, outbox, up, down, guards, seat, snake, clock, lost, left>>
serverSide == <<guards, seat, snake, clock>>

Mounted == Len(engines) > 0 /\ Last(engines) # "destroyed" /\ Last(engines) # "cancelled"
Running == Mounted /\ Last(engines) = "running"
Current == Len(engines)
NoSeat == [held |-> FALSE, socket |-> 0, gone |-> FALSE, shadowbanned |-> FALSE]

freshEngine == [alive |-> FALSE, predicting |-> FALSE, sequence |-> 0, polled |-> FALSE,
                pending |-> <<>>, ack |-> 0, buffer |-> <<>>]
createGuardState == [lastSeq |-> 0, budget |-> Burst, suspicion |-> 0]

ClientInit ==
  /\ engines = <<>> /\ engine = freshEngine /\ status = "idle"
  /\ conn = 0 /\ outbox = <<>> /\ up = <<>> /\ down = <<>>
  /\ guards = <<>> /\ seat = NoSeat
  /\ snake = [alive |-> TRUE, lastAckSeq |-> 0, queue |-> <<>>]
  /\ clock = 0 /\ lost = 0 /\ left = FALSE

---------------------------------------------------------------------------
(* The page. *)

\* What is on its way to a client whose connection is gone is lost.
unread == IF conn = 0 THEN down ELSE [down EXCEPT ![conn] = <<>>]

\* The effect runs for a ticket, and again when a setting it depends on
\* changes; the renderer of the new engine starts asynchronously.
mount ==
  /\ ~Mounted /\ ~left /\ Len(engines) < MaxMounts
  /\ engines' = Append(engines, "initialising")
  /\ status' = "idle"
  /\ UNCHANGED <<engine, conn, outbox, up, down, lost, left>> /\ UNCHANGED serverSide

\* The cleanup: the engine first, then the socket, without its listeners.
cleanup ==
  /\ Mounted
  /\ engines' = [engines EXCEPT ![Current] = IF @ = "running" THEN "destroyed" ELSE "cancelled"]
  /\ engine' = freshEngine /\ status' = "idle" /\ conn' = 0 /\ outbox' = <<>>
  /\ lost' = IF conn # 0 THEN lost + 1 ELSE lost
  /\ down' = unread
  /\ UNCHANGED <<up, left>> /\ UNCHANGED serverSide

\* Leaving for good: Leave goes out on the connection, if there is one, and
\* without the ticket the canvas unmounts.
leave ==
  /\ Running /\ ~left
  /\ left' = TRUE
  /\ up' = IF conn = 0 THEN up ELSE [up EXCEPT ![conn] = Append(@, [type |-> "leave"])]
  /\ engines' = [engines EXCEPT ![Current] = "destroyed"]
  /\ engine' = freshEngine /\ status' = "idle" /\ conn' = 0 /\ outbox' = <<>>
  /\ lost' = IF conn # 0 THEN lost + 1 ELSE lost
  /\ down' = unread
  /\ UNCHANGED serverSide

\* The renderer is ready: an engine cancelled meanwhile is torn down and its
\* socket never connects.
whenReady(e) == IF e = "cancelled" THEN "destroyed" ELSE "running"

initialised ==
  /\ \E i \in DOMAIN engines :
       /\ engines[i] \in {"initialising", "cancelled"}
       /\ engines' = [engines EXCEPT ![i] = whenReady(@)]
  /\ UNCHANGED <<engine, status, conn, outbox, up, down, lost, left>> /\ UNCHANGED serverSide

---------------------------------------------------------------------------
(* The connection. *)

Opened == Len(up)

\* A connection, first or renewed: a guard of its own, the seat that is held
\* or a new one with a new snake, Joined as the first message; then what the
\* client had buffered.
connect ==
  /\ Running /\ conn = 0 /\ Opened < MaxSockets
  /\ conn' = Opened + 1 /\ status' = "connected"
  /\ up' = Append(up, outbox) /\ outbox' = <<>>
  /\ down' = Append(down, <<[type |-> "joined"]>>)
  /\ guards' = put(guards, Opened + 1, createGuardState)
  /\ seat' = IF seat.held THEN [seat EXCEPT !.socket = Opened + 1, !.gone = FALSE]
             ELSE [NoSeat EXCEPT !.held = TRUE, !.socket = Opened + 1]
  /\ snake' = IF seat.held THEN snake ELSE [alive |-> TRUE, lastAckSeq |-> 0, queue |-> <<>>]
  /\ UNCHANGED <<engines, engine, clock, lost, left>>

\* The connection breaks under the client; the node hears of it later.
disconnect ==
  /\ conn # 0
  /\ conn' = 0 /\ status' = "reconnecting" /\ lost' = lost + 1 /\ down' = unread
  /\ UNCHANGED <<engines, engine, outbox, up, left>> /\ UNCHANGED serverSide

connectError ==
  /\ Running /\ conn = 0 /\ Opened < MaxSockets /\ status # "disconnected"
  /\ status' = "disconnected"
  /\ UNCHANGED <<engines, engine, conn, outbox, up, down, lost, left>> /\ UNCHANGED serverSide

keepSeat == seat  \* mutant: the seat is not marked

\* The node notices: the guard goes, what was still under way is lost, and
\* the seat is marked, whichever socket it is on by now.
markDisconnected == [seat EXCEPT !.gone = seat.held]

closed(s) ==
  /\ s \in DOMAIN guards /\ conn # s
  /\ guards' = Restrict(guards, DOMAIN guards \ {s})
  /\ up' = [up EXCEPT ![s] = <<>>]
  /\ seat' = markDisconnected
  /\ UNCHANGED <<engines, engine, status, conn, outbox, down, snake, clock, lost, left>>

removeSeat == seat' = NoSeat /\ snake' = [snake EXCEPT !.alive = FALSE, !.queue = <<>>]

\* The grace window runs out.
evict ==
  /\ seat.held /\ seat.gone
  /\ removeSeat
  /\ UNCHANGED <<engines, engine, status, conn, outbox, up, down, guards, clock, lost, left>>

\* Nobody is seated: the room is closed, and made again, with a world of its
\* own, by the next connection.
reap ==
  /\ ~seat.held /\ clock > 0
  /\ clock' = 0
  /\ UNCHANGED <<engines, engine, status, conn, outbox, up, down, guards, seat, snake, lost, left>>

---------------------------------------------------------------------------
(* Input: the controller, prediction, the guard and the seat. *)

pushPrediction(pending, seq) ==
  IF Len(pending) = MaxPending THEN Append(Tail(pending), seq) ELSE Append(pending, seq)

\* One frame that samples a command: at most one in a send interval.
onFrame ==
  /\ Running /\ engine.alive /\ engine.predicting /\ ~engine.polled
  /\ engine.sequence < MaxCommands
  /\ LET seq == engine.sequence + 1
         input == [type |-> "input", seq |-> seq]
     IN  /\ engine' = [engine EXCEPT !.sequence = seq, !.polled = TRUE,
                                     !.pending = pushPrediction(@, seq)]
         /\ IF conn = 0 THEN outbox' = Append(outbox, input) /\ up' = up
            ELSE /\ Len(up[conn]) < MaxFlight
                 /\ up' = [up EXCEPT ![conn] = Append(@, input)] /\ outbox' = outbox
  /\ UNCHANGED <<engines, status, conn, down, lost, left>> /\ UNCHANGED serverSide

refilled(g) == [g EXCEPT !.budget = Min({Burst, @ + Refill})]

\* A send interval passes; a bucket refills with time, up to its burst.
interval ==
  /\ Running /\ engine.polled
  /\ engine' = [engine EXCEPT !.polled = FALSE]
  /\ guards' = [s \in DOMAIN guards |-> refilled(guards[s])]
  /\ UNCHANGED <<engines, status, conn, outbox, up, down, seat, snake, clock, lost, left>>

isSequenceValid(lastSeq, seq) == seq > lastSeq /\ seq - lastSeq <= MaxJump

rejectionOf(g, seq) ==
  IF g.budget < 1 THEN "rate-limited"
  ELSE IF isSequenceValid(g.lastSeq, seq) THEN "none"
  ELSE IF seq <= g.lastSeq THEN "stale-sequence" ELSE "sequence-jump"

weight(reason) == CASE reason = "none" -> 0 [] reason = "sequence-jump" -> 4 [] OTHER -> 1

\* One command of an honest client: its angle and dt are always well formed.
validateInputBatch(g, seq) ==
  LET reason == rejectionOf(g, seq)
  IN  [lastSeq |-> IF reason = "none" THEN seq ELSE g.lastSeq,
       budget |-> IF reason = "rate-limited" THEN g.budget ELSE g.budget - 1,
       suspicion |-> Min({Suspicious, g.suspicion + weight(reason)})]

shouldShadowban(g) == g.suspicion >= Suspicious

\* The handler of an input: validate, hand the accepted command to the room,
\* which drops it for a shadowbanned seat, and only then mark the seat.
onInput(s) ==
  /\ s \in DOMAIN guards /\ up[s] # <<>> /\ Head(up[s]).type = "input"
  /\ up' = [up EXCEPT ![s] = Tail(@)]
  /\ LET command == Head(up[s])
         g == validateInputBatch(guards[s], command.seq)
         accepted == rejectionOf(guards[s], command.seq) = "none"
         heard == accepted /\ seat.held /\ ~seat.shadowbanned
     IN  /\ guards' = [guards EXCEPT ![s] = g]
         /\ snake' = IF heard THEN [snake EXCEPT !.queue = Append(@, [seq |-> command.seq, socket |-> s])] ELSE snake
         /\ seat' = IF shouldShadowban(g) /\ seat.held THEN [seat EXCEPT !.shadowbanned = TRUE] ELSE seat
  /\ UNCHANGED <<engines, engine, status, conn, outbox, down, clock, lost, left>>

onLeave(s) ==
  /\ s \in DOMAIN guards /\ up[s] # <<>> /\ Head(up[s]).type = "leave"
  /\ up' = [up EXCEPT ![s] = Tail(@)]
  /\ removeSeat
  /\ UNCHANGED <<engines, engine, status, conn, outbox, down, guards, clock, lost, left>>

decaySuspicion ==
  /\ \E s \in DOMAIN guards : guards[s].suspicion > 0
  /\ guards' = [s \in DOMAIN guards |-> [guards[s] EXCEPT !.suspicion = Max({0, @ - 2})]]
  /\ UNCHANGED <<engines, engine, status, conn, outbox, up, down, seat, snake, clock, lost, left>>

---------------------------------------------------------------------------
(* The tick and the snapshots. *)

applied(ack, queue) == Max({ack} \cup {queue[i].seq : i \in DOMAIN queue})

\* The dead are in no snapshot, their own included.
buildSnapshot(time, ack, alive) == [type |-> "snapshot", time |-> time, ack |-> ack, self |-> alive]

Watched == seat.held /\ ~seat.gone /\ seat.socket \in DOMAIN guards

\* A tick applies the queue and may kill the snake, which every socket of the
\* room hears of; a seat that is not marked disconnected gets its snapshot.
tick ==
  /\ clock < MaxClock /\ seat.held
  /\ conn # 0 => Len(down[conn]) < MaxFlight
  /\ clock' = clock + 1
  /\ \E dies \in IF snake.alive THEN BOOLEAN ELSE {FALSE} :
       LET ack == IF snake.alive THEN applied(snake.lastAckSeq, snake.queue) ELSE snake.lastAckSeq
           died == IF dies THEN <<[type |-> "died"]>> ELSE <<>>
           shown(s) == IF Watched /\ s = seat.socket
                       THEN <<buildSnapshot(clock + 1, ack, snake.alive /\ ~dies)>> ELSE <<>>
       IN  /\ snake' = [alive |-> snake.alive /\ ~dies, lastAckSeq |-> ack, queue |-> <<>>]
           /\ down' = [s \in DOMAIN down |->
                         IF s = conn THEN down[s] \o died \o shown(s) ELSE down[s]]
  /\ UNCHANGED <<engines, engine, status, conn, outbox, up, guards, seat, lost, left>>

\* The place of a snapshot in the order of server time, looked for from the end.
placeFor(buffer, time) ==
  CHOOSE i \in 0 .. Len(buffer) : /\ i > 0 => buffer[i] <= time
                                  /\ \A j \in i + 1 .. Len(buffer) : buffer[j] > time

\* A duplicate is dropped, the oldest goes when the buffer is full.
pushSnapshot(buffer, time) ==
  LET index == placeFor(buffer, time)
      inserted == InsertAt(buffer, index + 1, time)
  IN  IF index \in DOMAIN buffer /\ buffer[index] = time THEN buffer
      ELSE IF Len(inserted) > BufferSize THEN Tail(inserted) ELSE inserted

toFrame(time, stale) == [from |-> time, to |-> time, stale |-> stale]
blend(older, newer) == [from |-> older, to |-> newer, stale |-> FALSE]

spans(buffer, i, renderTime) == buffer[i] <= renderTime /\ renderTime <= buffer[i + 1]
firstSpan(buffer, renderTime) ==
  CHOOSE i \in 1 .. Len(buffer) - 1 :
    spans(buffer, i, renderTime) /\ \A j \in 1 .. i - 1 : ~spans(buffer, j, renderTime)

\* The frame shown at a render time: the newest when there is nothing after
\* it, the oldest before the buffer begins, otherwise between two neighbours.
sampleAt(buffer, renderTime) ==
  LET newest == Last(buffer)
      first == firstSpan(buffer, renderTime)
  IN  IF Len(buffer) = 1 \/ renderTime >= newest THEN toFrame(newest, TRUE)
      ELSE IF renderTime <= Head(buffer) THEN toFrame(Head(buffer), FALSE)
      ELSE blend(buffer[first], buffer[first + 1])

\* What SelectSeq keeps, spelled out for the proofs.
above(pending, ack) ==
  LET kept == {i \in DOMAIN pending : pending[i] > ack}
      nth(n) == CHOOSE i \in kept : Cardinality({j \in kept : j <= i}) = n
  IN  [n \in 1 .. Cardinality(kept) |-> pending[nth(n)]]

reconcile(e, ack) == [e EXCEPT !.ack = Max({@, ack}), !.pending = above(@, ack)]

restartOnJoined(e) == [freshEngine EXCEPT !.alive = TRUE, !.predicting = TRUE]  \* mutant: the sequence restarts

onJoined(e) == [e EXCEPT !.alive = TRUE, !.predicting = TRUE, !.pending = <<>>, !.ack = 0]
onDied(e) == [e EXCEPT !.alive = FALSE]
onSnapshot(e, m) ==
  LET seen == [e EXCEPT !.buffer = pushSnapshot(@, m.time)]
  IN  IF m.self /\ e.predicting THEN reconcile(seen, m.ack) ELSE seen

\* The mounted engine hears the next message of its socket.
onMessage ==
  /\ conn # 0 /\ down[conn] # <<>>
  /\ down' = [down EXCEPT ![conn] = Tail(@)]
  /\ LET m == Head(down[conn])
     IN  engine' = CASE m.type = "joined"   -> onJoined(engine)
                     [] m.type = "died"     -> onDied(engine)
                     [] m.type = "snapshot" -> onSnapshot(engine, m)
  /\ UNCHANGED <<engines, status, conn, outbox, up, lost, left>> /\ UNCHANGED serverSide

ClientNext ==
  \/ mount \/ cleanup \/ leave \/ initialised
  \/ connect \/ disconnect \/ connectError \/ evict \/ reap
  \/ onFrame \/ interval \/ decaySuspicion \/ tick \/ onMessage
  \/ \E s \in 1 .. MaxSockets : closed(s) \/ onInput(s) \/ onLeave(s)

\* The node works off what arrives, its ping timeout finds every broken
\* socket, and the tick evicts a seat whose grace has run out.
ClientFairness ==
  /\ WF_clientVars(evict)
  /\ \A s \in 1 .. MaxSockets :
       WF_clientVars(closed(s)) /\ WF_clientVars(onInput(s)) /\ WF_clientVars(onLeave(s))

ClientSpec == ClientInit /\ [][ClientNext]_clientVars /\ ClientFairness

---------------------------------------------------------------------------
(* Properties. *)

\* Every value keeps its type, and every buffer its bound.
ClientTypeOK ==
  /\ engines \in Seq({"initialising", "cancelled", "running", "destroyed"})
  /\ status \in {"idle", "connected", "reconnecting", "disconnected"}
  /\ conn \in 0 .. Opened /\ Len(down) = Opened
  /\ engine.sequence \in 0 .. MaxCommands /\ Len(engine.pending) <= MaxPending
  /\ Len(engine.buffer) <= BufferSize
  /\ \A s \in DOMAIN guards : /\ guards[s].budget \in 0 .. Burst
                              /\ guards[s].suspicion \in 0 .. Suspicious
  /\ seat.held => seat.socket \in 1 .. Opened

\* At most one engine runs, however settings change and pages unmount while a
\* renderer is still starting; a socket is open only under it, and the
\* status on screen says so (GameCanvas's effect, its cleanup and cancelled).
OneEngine ==
  /\ \A i \in DOMAIN engines : engines[i] = "running" => i = Current
  /\ conn # 0 => Running
  /\ (status = "connected") <=> (conn # 0)

\* Whatever order snapshots arrive in, after a reconnect or in a room made
\* again whose time starts over, every render time is shown from neighbours
\* that enclose it over a span that is not empty, or from the end of the
\* buffer nearest to it (pushSnapshot, sampleAt).
FramesEnclose ==
  engine.buffer # <<>> => \A t \in 0 .. MaxClock + 1 :
    LET frame == sampleAt(engine.buffer, t)
    IN  /\ frame.stale => \A i \in DOMAIN engine.buffer : engine.buffer[i] <= frame.from
        /\ frame.from # frame.to => frame.from <= t /\ t <= frame.to /\ frame.from < frame.to
        /\ frame.from = frame.to /\ ~frame.stale => t <= frame.from

\* The commands kept for replay are the newest the engine sent, in order and
\* without a gap, and, while one engine plays on, none the server has
\* acknowledged (pushPrediction, reconcile).
ReplayIsExact ==
  /\ engine.pending = [i \in DOMAIN engine.pending |->
                         engine.sequence - Len(engine.pending) + i]
  /\ Current = 1 => \A i \in DOMAIN engine.pending : engine.pending[i] > engine.ack

\* A client that plays at its own pace and keeps its connection is never
\* rejected, however its commands bunch up on the way (consumeInputBudget,
\* isSequenceValid).
PacedIsAccepted == lost = 0 => \A s \in DOMAIN guards : guards[s].suspicion = 0

\* What waits for the tick from the seat's own socket; a broken socket may
\* still deliver older commands, which the tick passes over.
Waiting == {i \in DOMAIN snake.queue : snake.queue[i].socket = seat.socket}

\* While one engine plays on, every command its connection gets past the
\* guard is newer than the snake's acknowledgement and so steers it, across
\* lost sockets, resent buffers and late packets of the old socket
\* (applyInputs, the controller's sequence).
EngineIsHeard ==
  snake.alive /\ Running /\ Current = 1 =>
    \A i \in Waiting : snake.queue[i].seq \in snake.lastAckSeq + 1 .. engine.sequence

\* Through remounts, lost sockets and late packets the page runs one engine,
\* shows frames in order, replays exactly what is unacknowledged, and an
\* honest player's commands are accepted and steer the snake (engine.ts).
ClientInv ==
  ClientTypeOK /\ OneEngine /\ FramesEnclose /\ ReplayIsExact /\ PacedIsAccepted /\ EngineIsHeard

\* A seat does not outlive its player's leaving, even when Leave was emitted
\* while the connection was down (leave, markDisconnected, the eviction).
LeavingFreesSeat == left ~> [](~seat.held)
=============================================================================
