----------------------------- MODULE RealtimeRoom -----------------------------
(***************************************************************************)
(* One room id on a realtime node: the sockets of its players, the seats   *)
(* and their grace window, the tick that kills, evicts, announces, reports *)
(* and reaps, the write of the result for settlement, and the drain.  What *)
(* a tick does to the snakes is module Simulation; here a tick may kill    *)
(* any of them.  A handler keeps the room object it joined, so a room that *)
(* is closed and made again under the same id is a new epoch.              *)
(***************************************************************************)
EXTENDS Integers, Sequences, FiniteSets, SequencesExt, Functions, Maps

CONSTANTS Players,
          MaxPlayers,     \* seats of a room
          Grace,          \* ticks a disconnected seat is held
          MaxSockets,     \* connections of a behaviour
          MaxRespawns,
          MaxFails        \* failed writes

ASSUME RoomConstants ==
  /\ {MaxPlayers, MaxSockets} \subseteq Nat \ {0}
  /\ {Grace, MaxRespawns, MaxFails} \subseteq Nat
  /\ IsFiniteSet(Players)

VARIABLES room,      \* the room object, or "none" in its status
          seats,     \* seats: the socket and the ticks since it was lost
          snake,     \* each player's snake
          sockets,   \* the sockets that are open
          write,     \* the result on its way to Redis
          stored,    \* match:result:<game>
          queued,    \* the game is in settle:pending
          staked,    \* the tickets carry a game
          opened, respawns, fails
roomVars == <<room, seats, snake, sockets, write, stored, queued, staked, opened, respawns, fails>>

Absent == [none |-> TRUE]
emptyRoom(epoch, status) ==
  [epoch |-> epoch, status |-> status, entrants |-> {}, elim |-> <<>>, announced |-> <<>>,
   reported |-> FALSE]
NoWrite == [step |-> "idle", standings |-> <<>>, epoch |-> 0]
NoResult == [standings |-> <<>>, epoch |-> 0]

RoomInit ==
  /\ room = emptyRoom(0, "none")
  /\ seats = [p \in Players |-> Absent]
  /\ snake = [p \in Players |-> "none"]
  /\ sockets = [s \in 1..MaxSockets |-> Absent]
  /\ write = NoWrite /\ stored = NoResult /\ queued = FALSE
  /\ staked \in BOOLEAN
  /\ opened = 0 /\ respawns = 0 /\ fails = 0

Seated == {p \in Players : seats[p] # Absent}
Live(s) == sockets[s] # Absent

-----------------------------------------------------------------------------
(* Membership *)

\* ensureRoom makes the room and starts it; the manager keys rooms by id.
ensureRoom == IF room.status = "none" THEN emptyRoom(room.epoch + 1, "active") ELSE room

\* A seat that exists is taken over with its snake; else the player is seated,
\* counted as an entrant and given a snake.
addPlayer(p, s, r) ==
  /\ seats' = [seats EXCEPT ![p] = [socket |-> s, away |-> -1]]
  /\ room' = [r EXCEPT !.entrants = @ \cup {p}]
  /\ snake' = IF seats[p] # Absent THEN snake ELSE [snake EXCEPT ![p] = "alive"]

isFull == Cardinality(Seated) >= MaxPlayers

\* io.on('connection'): a draining room sends the player away, a full one
\* refuses a newcomer.
connection(p) ==
  LET s == opened + 1
      r == ensureRoom
  IN
  /\ opened < MaxSockets
  /\ opened' = s
  /\ IF r.status = "draining" \/ (isFull /\ seats[p] = Absent)
       THEN /\ room' = r
            /\ UNCHANGED <<seats, snake, sockets>>
       ELSE /\ sockets' = [sockets EXCEPT ![s] = [player |-> p, epoch |-> r.epoch]]
            /\ addPlayer(p, s, r)
  /\ UNCHANGED <<write, stored, queued, staked, respawns, fails>>

Eliminate(e, p) == IF p \in ToSet(e) THEN e ELSE Append(e, p)

\* removePlayer: leaving is an elimination, and the snake goes.
removePlayer(gone) ==
  /\ seats' = [p \in Players |-> IF p \in ToSet(gone) THEN Absent ELSE seats[p]]
  /\ snake' = [p \in Players |-> IF p \in ToSet(gone) THEN "none" ELSE snake[p]]
  /\ room' = [room EXCEPT !.elim = inOrder(Eliminate, @, gone)]

Current(s) == sockets[s].epoch = room.epoch
Close(s) == sockets' = [sockets EXCEPT ![s] = Absent]

\* The handler removes the player from the room it joined and then disconnects.
leave(s) ==
  /\ Live(s)
  /\ Close(s)
  /\ IF Current(s) /\ seats[sockets[s].player] # Absent
       THEN removePlayer(<<sockets[s].player>>)
       ELSE UNCHANGED <<room, seats, snake>>
  /\ UNCHANGED <<write, stored, queued, staked, opened, respawns, fails>>

\* A socket is lost: the seat is marked, whichever socket holds it by now.
markDisconnected(s) ==
  /\ Live(s)
  /\ Close(s)
  /\ seats' = IF Current(s) /\ seats[sockets[s].player] # Absent
                THEN [seats EXCEPT ![sockets[s].player].away = 0] ELSE seats
  /\ UNCHANGED <<room, snake, write, stored, queued, staked, opened, respawns, fails>>

respawn(s) ==
  /\ Live(s) /\ Current(s) /\ seats[sockets[s].player] # Absent
  /\ respawns < MaxRespawns /\ respawns' = respawns + 1
  /\ snake' = [snake EXCEPT ![sockets[s].player] = "alive"]
  /\ UNCHANGED <<room, seats, sockets, write, stored, queued, staked, opened, fails>>

-----------------------------------------------------------------------------
(* A pass of the tick loop: the tick, the reports and the reaper, with no   *)
(* handler in between.                                                      *)

Now == [room |-> room, seats |-> seats, snake |-> snake, write |-> write]


eliminateEachDeath(e, p) == Append(SelectSeq(e, LAMBDA q : q # p), p)  \* mutant: the last death counts

\* Only the first death of a player is an elimination.
eliminated(e, p) == Eliminate(e, p)

Orders(S) == {f \in [1..Cardinality(S) -> S] : IsInjective(f)}

\* The players a tick kills, in the order the sweep meets them.
Deaths == UNION {Orders(D) : D \in SUBSET {p \in Players : snake[p] = "alive"}}

expired(p) == seats[p] # Absent /\ seats[p].away >= Grace

\* room.tick: the deaths, then the seats whose grace is over; time passes for
\* the other lost ones.
tick(w, d, gone) ==
  LET away(x) == IF x = Absent \/ x.away < 0 THEN x ELSE [x EXCEPT !.away = @ + 1]
  IN  [w EXCEPT
        !.seats = [p \in Players |-> IF p \in ToSet(gone) THEN Absent ELSE away(w.seats[p])],
        !.snake = [p \in Players |-> IF p \in ToSet(gone) THEN "none"
                                     ELSE IF p \in ToSet(d) THEN "dead" ELSE w.snake[p]],
        !.room.elim = inOrder(Eliminate, inOrder(eliminated, @, d), gone)]

\* Dead snakes stay in the world, so a seat counts until its player is removed.
aliveCount(w) == Cardinality({p \in Players : w.seats[p] # Absent /\ w.snake[p] # "none"})

isResolved(w) ==
  /\ w.room.status \in {"active", "draining"}
  /\ Cardinality(w.room.entrants) >= 2 /\ aliveCount(w) <= 1

\* The players still in are placed before the eliminated, latest first.
buildResult(w) ==
  SetToSeq(w.room.entrants \ ToSet(w.room.elim)) \o Reverse(w.room.elim)

\* The room is told once and drained.
announceEnd(w) ==
  IF ~isResolved(w) \/ w.room.announced # <<>> THEN w
  ELSE [w EXCEPT !.room.announced = buildResult(w), !.room.status = "draining"]

hasResult(w) == ~w.room.reported /\ staked /\ isResolved(w)

\* The standings of a staked match are handed over, marked before the write.
reportFinishedMatches(w) ==
  IF ~hasResult(w) THEN w
  ELSE [w EXCEPT !.room.reported = TRUE,
                 !.write = [step |-> "set", standings |-> buildResult(w), epoch |-> w.room.epoch]]

closed(w) ==
  [w EXCEPT !.room = emptyRoom(w.room.epoch, "none"),
            !.seats = [p \in Players |-> Absent], !.snake = [p \in Players |-> "none"]]

reapResolved(w) == w  \* mutant: nobody closes a finished room

reapEmptyRooms(w) ==
  IF w.room.status = "draining" /\ \A p \in Players : w.seats[p] = Absent THEN closed(w) ELSE w

Becomes(w) == room' = w.room /\ seats' = w.seats /\ snake' = w.snake /\ write' = w.write

runTick ==
  /\ room.status \in {"active", "draining"}
  /\ \E d \in Deaths :
     \E gone \in Orders({p \in Players : expired(p)}) :
     \E w \in {tick(Now, d, gone)} : \E a \in {announceEnd(w)} : \E r \in {reportFinishedMatches(a)} :
       Becomes(reapEmptyRooms(r))
  /\ UNCHANGED <<sockets, stored, queued, staked, opened, respawns, fails>>

-----------------------------------------------------------------------------
(* The result, and the drain *)

\* SET, then SADD; a failure unmarks the room so that the next tick retries.
Written ==
  /\ write.step # "idle"
  /\ IF write.step = "set"
       THEN /\ stored' = [standings |-> write.standings, epoch |-> write.epoch]
            /\ write' = [write EXCEPT !.step = "sadd"] /\ UNCHANGED queued
       ELSE queued' = TRUE /\ write' = NoWrite /\ UNCHANGED stored
  /\ UNCHANGED <<room, seats, snake, sockets, staked, opened, respawns, fails>>

unmarkReported == IF write.epoch = room.epoch THEN [room EXCEPT !.reported = FALSE] ELSE room

WriteFails ==
  /\ write.step # "idle"
  /\ fails < MaxFails /\ fails' = fails + 1
  /\ room' = unmarkReported
  /\ write' = NoWrite
  /\ UNCHANGED <<seats, snake, sockets, stored, queued, staked, opened, respawns>>

\* drainAll: every room drains; at its deadline rooms are closed as they are.
drain ==
  /\ room.status = "active" /\ room' = [room EXCEPT !.status = "draining"]
  /\ UNCHANGED <<seats, snake, sockets, write, stored, queued, staked, opened, respawns, fails>>

drainDeadline ==
  /\ room.status = "draining" /\ Becomes(closed(Now))
  /\ sockets' = [s \in 1..MaxSockets |-> Absent]
  /\ opened' = MaxSockets
  /\ UNCHANGED <<stored, queued, staked, respawns, fails>>

-----------------------------------------------------------------------------
RoomNext ==
  \/ \E p \in Players : connection(p)
  \/ \E s \in 1..MaxSockets : leave(s) \/ markDisconnected(s) \/ respawn(s)
  \/ runTick \/ Written \/ WriteFails \/ drain \/ drainDeadline

\* The tick loop re-arms itself, and a Redis call is answered.
RoomFairness == WF_roomVars(runTick) /\ WF_roomVars(Written)

RoomSpec == RoomInit /\ [][RoomNext]_roomVars /\ RoomFairness

-----------------------------------------------------------------------------
(* Properties *)

RoomTypeOK ==
  /\ room.status \in {"none", "active", "draining"} /\ room.epoch \in 0..MaxSockets
  /\ room.entrants \subseteq Players /\ room.reported \in BOOLEAN
  /\ \A e \in {room.elim, room.announced, stored.standings, write.standings} :
       ToSet(e) \subseteq Players /\ IsInjective(e)
  /\ \A p \in Players : /\ snake[p] \in {"none", "alive", "dead"}
                        /\ seats[p] # Absent => seats[p].away \in -1..Grace
  /\ Cardinality(Seated) <= MaxPlayers
  /\ \A s \in 1..MaxSockets : Live(s) => sockets[s].player \in Players
  /\ write.step \in {"idle", "set", "sadd"} /\ {queued, staked} \subseteq BOOLEAN

\* A result that settlement can read ranks whoever was in the match, and nobody
\* ahead of a player who outlasted them, whether they died, left or were
\* evicted (removePlayer, buildResult).
ResultIsFair ==
  LET r == stored.standings
      out == room.elim
  IN  stored.epoch > 0 /\ stored.epoch = room.epoch /\ room.status # "none" =>
        /\ ToSet(r) = room.entrants
        /\ \A i, j \in DOMAIN out : i < j =>
             \E k, l \in DOMAIN r : r[k] = out[i] /\ r[l] = out[j] /\ l < k
        /\ \A p \in room.entrants \ ToSet(out) : r[1] = p

\* The winner the players were told is the winner settlement pays: a write
\* that is retried after players left, died or respawned ranks the same player
\* first (announceEnd, unmarkReported).
AnnouncedIsPaid ==
  stored.epoch > 0 /\ stored.epoch = room.epoch /\ room.announced # <<>>
    => stored.standings[1] = room.announced[1]

\* However deaths, departures, evictions and failed writes fall, the result in
\* Redis is a fair ranking with the announced winner first (buildResult).
ResultInv == RoomTypeOK /\ ResultIsFair /\ AnnouncedIsPaid

\* A staked match that was announced reaches settlement, however often the
\* write fails, unless its room is closed first (unmarkReported).
AnnouncedIsQueued ==
  (staked /\ room.announced # <<>>) ~> (queued \/ room.status = "none")

\* A match everybody has left is closed and frees the node's room: lost seats
\* are evicted, which resolves it (evictExpiredDisconnects, reapEmptyRooms).
EmptyMatchCloses ==
  (Cardinality(room.entrants) >= 2 /\ \A s \in 1..MaxSockets : ~Live(s))
    ~> (room.status = "none" \/ \E s \in 1..MaxSockets : Live(s))

\* A room comes to its end: its result is queued and an abandoned one closes
\* (reportFinishedMatches, reapEmptyRooms).
RoomFinishes == AnnouncedIsQueued /\ EmptyMatchCloses
=============================================================================
