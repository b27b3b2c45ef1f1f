---------------------------- MODULE LobbyService ----------------------------
(***************************************************************************)
(* The lobby service (packages/lobby/src/service.ts, redis-store.ts) as    *)
(* the matchmaker replicas and the worker run it: every await is a step of *)
(* its own, so requests, tickers and cycle jobs interleave between a load  *)
(* and the compare-and-set that follows it.                                *)
(*                                                                         *)
(* Tickers stand for the per-replica interval of plugins/lobbies.ts (one   *)
(* pass at a time), Handlers for requests of lobby.routes.ts in flight,    *)
(* Jobs for the worker's calls.  The chain is seen through paid: whose     *)
(* entry fee a game's vault holds.  Redis is assumed up; a task may die at *)
(* any await.                                                              *)
(***************************************************************************)
EXTENDS Lobby, Sequences

CONSTANTS
  Tickers,
  Handlers,
  Jobs,
  JobEvents,          \* which of open, close, reset the worker issues
  Scheduled,          \* values of `scheduled` it opens a lobby with
  MAX_CAS_ATTEMPTS,
  MaxRequests,        \* bound on requests and jobs
  MaxCrashes          \* bound on tasks that die

ASSUME ServiceAssumption ==
  /\ MAX_CAS_ATTEMPTS \in Nat \ {0}
  /\ MaxRequests \in Nat
  /\ MaxCrashes \in Nat
  /\ JobEvents \subseteq {"open", "close", "reset"}
  /\ Scheduled \subseteq BOOLEAN

VARIABLES
  lobby,     \* lobby:{tier}:state
  index,     \* lobby:player:id, the tier a player is queued in
  ticket,    \* ticket:id, the game a launch has seated the player in
  task,      \* what every ticker, handler and job is doing
  paid,      \* per game, the players whose entry_fee landed
  bound,     \* game ids handed out so far
  matches,   \* the launches that succeeded, in order
  requests,  \* requests and jobs started
  crashes

vars == <<lobby, index, ticket, task, paid, bound, matches, requests, crashes>>

Tasks == Tickers \cup Handlers \cup Jobs

PC == {"idle", "find", "get", "check", "load", "save", "launch", "mark", "clear", "reset",
       "failed", "index", "unindex", "tickets"}

(* then is the event to apply once a move has left the other lobby. *)
Task ==
  [pc : PC, tier : Tiers \cup {Null}, event : LobbyEvent \cup {Null},
   then : [tier : Tiers, event : LobbyEvent] \cup {Null},
   gameId : Games \cup {Null}, next : LobbyState \cup {Null}, expected : Nat,
   launching : BOOLEAN, attempts : Nat]

Idle ==
  [pc |-> "idle", tier |-> Null, event |-> Null, then |-> Null, gameId |-> Null,
   next |-> Null, expected |-> 0, launching |-> FALSE, attempts |-> 0]

Match == [tier : Tiers, gameId : Games, players : SUBSET Players]

TypeOK ==
  /\ lobby \in [Tiers -> LobbyState]
  /\ index \in [Players -> Tiers \cup {Null}]
  /\ ticket \in [Players -> Games \cup {Null}]
  /\ task \in [Tasks -> Task]
  /\ paid \in [Games -> SUBSET Players]
  /\ bound \subseteq Games
  /\ matches \in Seq(Match)
  /\ requests \in 0 .. MaxRequests
  /\ crashes \in 0 .. MaxCrashes

Init ==
  /\ lobby = [t \in Tiers |-> emptyLobby]
  /\ index = [p \in Players |-> Null]
  /\ ticket = [p \in Players |-> Null]
  /\ task = [x \in Tasks |-> Idle]
  /\ paid = [g \in Games |-> {}]
  /\ bound = {}
  /\ matches = <<>>
  /\ requests = 0
  /\ crashes = 0

(* x begins to apply event e to tier t, from the label pc. *)
Begin(x, pc, t, e) ==
  /\ task[x].pc = "idle"
  /\ task' = [task EXCEPT ![x] = [Idle EXCEPT !.pc = pc, !.tier = t, !.event = e]]

Request(x, pc, t, e) ==
  /\ requests < MaxRequests
  /\ requests' = requests + 1
  /\ Begin(x, pc, t, e)

StartJoin(x, p, t) ==
  /\ Request(x, "find", t, [type |-> "join", player |-> p])
  /\ UNCHANGED <<lobby, index, ticket, paid, bound, matches, crashes>>

StartLeave(x, p, t) ==
  /\ Request(x, "load", t, [type |-> "leave", player |-> p])
  /\ UNCHANGED <<lobby, index, ticket, paid, bound, matches, crashes>>

(* Only a ready flag raised in a paid room is verified first. *)
StartReady(x, p, flag, t) ==
  /\ Request(x, IF flag /\ t \in PaidTiers THEN "get" ELSE "load", t,
             [type |-> "ready", player |-> p, ready |-> flag])
  /\ UNCHANGED <<lobby, index, ticket, paid, bound, matches, crashes>>

(* One tier of a pass of tickAll. *)
StartTick(x, t) ==
  /\ Begin(x, "load", t, [type |-> "tick"])
  /\ UNCHANGED <<lobby, index, ticket, paid, bound, matches, requests, crashes>>

(* open-lobby, or ensureRooms binding a game to a queue that has none: the *)
(* game was created just before.                                           *)
StartOpen(x, t, g, scheduled) ==
  /\ "open" \in JobEvents
  /\ g \notin bound
  /\ bound' = bound \cup {g}
  /\ Request(x, "load", t, [type |-> "open", gameId |-> g, scheduled |-> scheduled])
  /\ UNCHANGED <<lobby, index, ticket, paid, matches, crashes>>

(* archive-game resets the tier; close is offered and no longer called. *)
StartCloseOrReset(x, t, kind) ==
  /\ kind \in JobEvents
  /\ Request(x, "load", t, [type |-> kind])
  /\ UNCHANGED <<lobby, index, ticket, paid, bound, matches, crashes>>

(* A player pays into the game the room board shows (enter_room). *)
Pay(p, t) ==
  LET g == lobby[t].gameId
  IN /\ t \in PaidTiers
     /\ g # Null
     /\ p \in lobby[t].players
     /\ p \notin paid[g]
     /\ paid' = [paid EXCEPT ![g] = @ \cup {p}]
     /\ UNCHANGED <<lobby, index, ticket, task, bound, matches, requests, crashes>>

(***************************************************************************)
(* Steps of a task                                                         *)
(***************************************************************************)

Goto(x, pc) == task' = [task EXCEPT ![x].pc = pc]
Done(x) == task' = [task EXCEPT ![x] = Idle]

(* join: findPlayerLobby; a player queued elsewhere leaves there first. *)
FindPlayerLobby(x) ==
  LET at == index[task[x].event.player]
  IN /\ task[x].pc = "find"
     /\ IF at = Null \/ at = task[x].tier
        THEN Goto(x, "load")
        ELSE task' = [task EXCEPT ![x] =
               [@ EXCEPT !.pc = "load", !.tier = at,
                         !.event = [type |-> "leave", player |-> task[x].event.player],
                         !.then = [tier |-> task[x].tier, event |-> task[x].event]]]
     /\ UNCHANGED <<lobby, index, ticket, paid, bound, matches, requests, crashes>>

(* The ready route reads the lobby's game ... *)
ReadGame(x) ==
  LET g == lobby[task[x].tier].gameId
  IN /\ task[x].pc = "get"
     /\ IF g = Null THEN Done(x)
        ELSE task' = [task EXCEPT ![x].pc = "check", ![x].gameId = g]
     /\ UNCHANGED <<lobby, index, ticket, paid, bound, matches, requests, crashes>>

(* ... and asks the chain about it; a failed lookup counts as unpaid. *)
HasPaid(x) ==
  /\ task[x].pc = "check"
  /\ \/ /\ task[x].event.player \in paid[task[x].gameId]
        /\ task' = [task EXCEPT ![x].pc = "load", ![x].gameId = Null]
     \/ Done(x)
  /\ UNCHANGED <<lobby, index, ticket, paid, bound, matches, requests, crashes>>

(* What the caller of apply does with its result: join records where the   *)
(* player is, leave forgets it, a move goes on to the join, the leave      *)
(* route then drops the player's tickets.                                  *)
AfterApply(x, accepted) ==
  LET k == task[x]
  IN CASE k.event.type = "join" ->
            IF accepted THEN task' = [task EXCEPT ![x] = [Idle EXCEPT !.pc = "index",
                                                          !.tier = k.tier, !.event = k.event]]
                        ELSE Done(x)
       [] k.event.type = "leave" /\ accepted ->
            task' = [task EXCEPT ![x] = [Idle EXCEPT !.pc = "unindex", !.event = k.event,
                                                     !.then = k.then]]
       [] k.event.type = "leave" /\ ~accepted ->
            task' = [task EXCEPT ![x] =
                       IF k.then = Null
                       THEN [Idle EXCEPT !.pc = "tickets", !.event = k.event]
                       ELSE [Idle EXCEPT !.pc = "load", !.tier = k.then.tier,
                                         !.event = k.then.event]]
       [] OTHER -> Done(x)

(* apply: load the lobby and reduce the event against it. *)
Load(x) ==
  LET t == task[x].tier
      result == reduceLobby(lobby[t], task[x].event, t)
  IN /\ task[x].pc = "load"
     /\ IF result.changed
        THEN task' = [task EXCEPT ![x] =
               [@ EXCEPT !.pc = "save", !.next = result.state, !.expected = lobby[t].version,
                         !.launching = result.shouldLaunch]]
        ELSE AfterApply(x, result.rejected = Null)
     /\ UNCHANGED <<lobby, index, ticket, paid, bound, matches, requests, crashes>>

(* The compare-and-set of the store. *)
CompareAndSet(t, state, expected) ==
  lobby' = IF lobby[t].version = expected THEN [lobby EXCEPT ![t] = state] ELSE lobby

(* apply: write it back; replay on a lost race, give up after the last try. *)
Save(x) ==
  LET k == task[x]
  IN /\ k.pc = "save"
     /\ CompareAndSet(k.tier, k.next, k.expected)
     /\ IF lobby[k.tier].version = k.expected
        THEN IF k.launching THEN Goto(x, "launch") ELSE AfterApply(x, TRUE)
        ELSE IF k.attempts + 1 < MAX_CAS_ATTEMPTS
        THEN task' = [task EXCEPT ![x] =
               [@ EXCEPT !.pc = "load", !.next = Null, !.expected = 0, !.launching = FALSE,
                         !.attempts = task[x].attempts + 1]]
        ELSE Done(x)
     /\ UNCHANGED <<index, ticket, paid, bound, matches, requests, crashes>>

(***************************************************************************)
(* performLaunch                                                           *)
(***************************************************************************)

(* launch seats the roster under the lobby's game, or a new one. *)
LaunchGame(x, g) ==
  LET k == task[x]
  IN /\ k.pc = "launch"
     /\ IF k.next.gameId = Null THEN g \notin bound ELSE g = k.next.gameId
     /\ bound' = bound \cup {g}
     /\ matches' = Append(matches, [tier |-> k.tier, gameId |-> g, players |-> k.next.players])
     /\ ticket' = [p \in Players |-> IF p \in k.next.players THEN g ELSE ticket[p]]
     /\ task' = [task EXCEPT ![x].pc = "mark", ![x].gameId = g]
     /\ UNCHANGED <<lobby, index, paid, requests, crashes>>

(* It throws when no node is healthy, or after seating part of the roster. *)
LaunchFails(x, seated) ==
  LET k == task[x]
  IN /\ k.pc = "launch"
     /\ seated # {} => k.next.gameId # Null
     /\ seated \subseteq k.next.players
     /\ ticket' = [p \in Players |-> IF p \in seated THEN k.next.gameId ELSE ticket[p]]
     /\ Goto(x, "failed")
     /\ UNCHANGED <<lobby, index, paid, bound, matches, requests, crashes>>

(* save(marked, state.version): the result is not looked at. *)
MarkLaunched(x) ==
  LET k == task[x]
      marked == Launched(k.next, k.gameId).state
  IN /\ k.pc = "mark"
     /\ CompareAndSet(k.tier, marked, k.next.version)
     /\ task' = [task EXCEPT ![x].pc = "clear", ![x].next = marked]
     /\ UNCHANGED <<index, ticket, paid, bound, matches, requests, crashes>>

ClearIndex(x) ==
  /\ task[x].pc = "clear"
  /\ index' = [p \in Players |-> IF p \in task[x].next.players THEN Null ELSE index[p]]
  /\ Goto(x, "reset")
  /\ UNCHANGED <<lobby, ticket, paid, bound, matches, requests, crashes>>

(* save(reset, marked.version) on success, save(reset, state.version) in   *)
(* the catch; the caller of apply goes on either way.                      *)
Reopen(x) ==
  LET k == task[x]
  IN /\ k.pc \in {"reset", "failed"}
     /\ CompareAndSet(k.tier, Reset(k.next).state, k.next.version)
     /\ AfterApply(x, TRUE)
     /\ UNCHANGED <<index, ticket, paid, bound, matches, requests, crashes>>

(***************************************************************************)
(* After apply                                                             *)
(***************************************************************************)

SetPlayerLobby(x) ==
  /\ task[x].pc = "index"
  /\ index' = [index EXCEPT ![task[x].event.player] = task[x].tier]
  /\ Done(x)
  /\ UNCHANGED <<lobby, ticket, paid, bound, matches, requests, crashes>>

ForgetPlayerLobby(x) ==
  LET k == task[x]
  IN /\ k.pc = "unindex"
     /\ index' = [index EXCEPT ![k.event.player] = Null]
     /\ task' = [task EXCEPT ![x] =
                   IF k.then = Null
                   THEN [Idle EXCEPT !.pc = "tickets", !.event = k.event]
                   ELSE [Idle EXCEPT !.pc = "load", !.tier = k.then.tier, !.event = k.then.event]]
     /\ UNCHANGED <<lobby, ticket, paid, bound, matches, requests, crashes>>

DropTickets(x) ==
  /\ task[x].pc = "tickets"
  /\ ticket' = [ticket EXCEPT ![task[x].event.player] = Null]
  /\ Done(x)
  /\ UNCHANGED <<lobby, index, paid, bound, matches, requests, crashes>>

TaskStep(x) ==
  \/ FindPlayerLobby(x)
  \/ ReadGame(x)
  \/ HasPaid(x)
  \/ Load(x)
  \/ Save(x)
  \/ \E g \in Games : LaunchGame(x, g)
  \/ \E seated \in SUBSET Players : LaunchFails(x, seated)
  \/ MarkLaunched(x)
  \/ ClearIndex(x)
  \/ Reopen(x)
  \/ SetPlayerLobby(x)
  \/ ForgetPlayerLobby(x)
  \/ DropTickets(x)

(***************************************************************************)
(* The environment                                                         *)
(***************************************************************************)

(* The process running x stops between two awaits. *)
Crash(x) ==
  /\ crashes < MaxCrashes
  /\ task[x].pc # "idle"
  /\ crashes' = crashes + 1
  /\ Done(x)
  /\ UNCHANGED <<lobby, index, ticket, paid, bound, matches, requests>>

(* Time passes for every deadline, stored or about to be written. *)
ClockTick ==
  /\ lobby' = [t \in Tiers |-> Elapse(lobby[t])]
  /\ task' = [x \in Tasks |-> IF task[x].next = Null THEN task[x]
                              ELSE [task[x] EXCEPT !.next = Elapse(@)]]
  /\ UNCHANGED <<index, ticket, paid, bound, matches, requests, crashes>>

(* Tickets live 60 seconds, index entries 30 minutes. *)
TicketExpires(p) ==
  /\ ticket[p] # Null
  /\ ticket' = [ticket EXCEPT ![p] = Null]
  /\ UNCHANGED <<lobby, index, task, paid, bound, matches, requests, crashes>>

IndexExpires(p) ==
  /\ index[p] # Null
  /\ index' = [index EXCEPT ![p] = Null]
  /\ UNCHANGED <<lobby, ticket, task, paid, bound, matches, requests, crashes>>

Start ==
  \/ \E x \in Handlers, p \in Players, t \in Tiers :
       \/ StartJoin(x, p, t)
       \/ StartLeave(x, p, t)
       \/ \E flag \in BOOLEAN : StartReady(x, p, flag, t)
  \/ \E x \in Tickers, t \in Tiers : StartTick(x, t)
  \/ \E x \in Jobs, t \in Tiers :
       \/ \E g \in Games, scheduled \in Scheduled : StartOpen(x, t, g, scheduled)
       \/ \E kind \in {"close", "reset"} : StartCloseOrReset(x, t, kind)

Next ==
  \/ Start
  \/ \E x \in Tasks : TaskStep(x) \/ Crash(x)
  \/ \E p \in Players, t \in Tiers : Pay(p, t)
  \/ ClockTick
  \/ \E p \in Players : TicketExpires(p) \/ IndexExpires(p)

Spec == Init /\ [][Next]_vars

(* Every task that has begun goes on, the clock runs, and every pass of a  *)
(* ticker reaches every tier.  Nothing is assumed of clients or jobs.      *)
FairSpec ==
  /\ Spec
  /\ WF_vars(ClockTick)
  /\ \A x \in Tasks : WF_vars(TaskStep(x))
  /\ \A x \in Tickers, t \in Tiers : SF_vars(StartTick(x, t))

(***************************************************************************)
(* Properties                                                              *)
(***************************************************************************)

(* A match is never launched short-handed, whatever joined, left, expired  *)
(* or was overwritten meanwhile (settle's re-count after dropping those    *)
(* who did not pay).                                                       *)
LaunchHasQuorum ==
  \A i \in 1 .. Len(matches) :
    Cardinality(matches[i].players) >= MinPlayers[matches[i].tier]

(* A running countdown always has enough players behind it and at most the *)
(* configured time left: no order of leaves and stale writes leaves a      *)
(* countdown running for a room below its minimum.                         *)
CountdownHasQuorum ==
  \A t \in Tiers : lobby[t].status = "countdown" =>
    /\ Cardinality(lobby[t].players) >= MinPlayers[t]
    /\ lobby[t].left \in 0 .. Countdown[t]

(* The two together, of well-formed lobbies and tasks: under no order of   *)
(* requests, ticks, jobs, stale writes and crashes does a room count down  *)
(* or launch without its minimum (reduceLobby, apply).                     *)
LobbyInv == TypeOK /\ LaunchHasQuorum /\ CountdownHasQuorum

(* A lobby never stays stuck in launching: a launch that succeeds, fails   *)
(* or loses its compare-and-set still ends with the lobby open again.      *)
LaunchingEnds == \A t \in Tiers : (lobby[t].status = "launching") ~> (lobby[t].status # "launching")

(* A room that has its minimum frees itself: the match launches or those   *)
(* who did not pay are dropped; it does not count down for ever at the     *)
(* same roster.                                                            *)
RoomFreesItself ==
  \A t \in Tiers : (Cardinality(lobby[t].players) >= MinPlayers[t])
                     ~> (Cardinality(lobby[t].players) < MinPlayers[t])

(* A tier does not get stuck: neither launching nor counting down for ever *)
(* at the same roster (performLaunch, settle).                             *)
NeverStuck == LaunchingEnds /\ RoomFreesItself
=============================================================================
