----------------------------- MODULE MatchCycle -----------------------------
(***************************************************************************)
(* The worker's match cycle for one paid tier: the scheduler that opens a  *)
(* window, the seven stages chained through a job queue that delivers at   *)
(* least once, the refund of a match whose stages give up, the room        *)
(* ensurer, and the settler of finished matches.  The lobby, the chain and *)
(* the settlement appear as far as the stages read and write them; the     *)
(* modules LobbyService, ArenaProgram and MatchSettlement have the rest.   *)
(* A stage may run arbitrarily late, so its delay is not modelled: every   *)
(* order of two windows' stages that a late worker allows is explored.     *)
(***************************************************************************)
EXTENDS Integers, Sequences, FiniteSets

CONSTANTS Windows,     \* number of cycle windows
          MaxGames,    \* Game rows a behaviour may need
          MaxWorkers,
          MinPlayers, MaxQueue,
          Attempts,    \* attempts of a stage
          MaxEvents,   \* joins and faults
          MaxFaults    \* failed calls, crashes and overlapping deliveries

ASSUME CycleConstants ==
  /\ {Windows, MaxGames, MaxWorkers, MinPlayers, MaxQueue, Attempts} \subseteq Nat \ {0}
  /\ {MaxEvents, MaxFaults} \subseteq Nat

VARIABLES job,       \* the queue: job[w][s] for window w and stage s
          exec,      \* what each worker runs
          game,      \* Game rows
          lobby,     \* the tier's lobby: queue length and bound game
          ensure,    \* the room ensurer's pass
          windows,   \* windows opened so far
          joins, faults
vars == <<job, exec, game, lobby, ensure, windows, joins, faults>>

None == 0
Games == 1..MaxGames
Cycles == 1..Windows
Workers == 1..MaxWorkers

CYCLE_STAGES == <<"create-game", "create-pool", "open-lobby", "close-lobby",
                  "start-match", "end-match", "archive-game">>
Stages == DOMAIN CYCLE_STAGES
stageOf(name) == CHOOSE s \in Stages : CYCLE_STAGES[s] = name

Unused == [cycle |-> -1, status |-> "none", room |-> "none", escrow |-> FALSE,
           launched |-> FALSE, reported |-> "none", settled |-> FALSE, archived |-> FALSE]
IdleWorker == [cycle |-> 0, stage |-> 0, step |-> "idle", game |-> None]
MayFail == faults < MaxFaults /\ joins + faults < MaxEvents
emptyLobby == [players |-> 0, game |-> None]

Init ==
  /\ job = [w \in Cycles |-> [s \in Stages |-> [state |-> "absent", attempts |-> 0, game |-> None]]]
  /\ exec = [k \in Workers |-> IdleWorker]
  /\ game = [g \in Games |-> Unused]
  /\ lobby = emptyLobby
  /\ ensure = [step |-> "idle", game |-> None]
  /\ windows = 0 /\ joins = 0 /\ faults = 0

-----------------------------------------------------------------------------
(* The queue *)

addUnkeyed(w, s, g) ==  \* mutant: no job id, so a second add delivers again
  [job EXCEPT ![w][s] = [state |-> "waiting", attempts |-> 0, game |-> g]]

\* The job id is the cycle and the stage: adding a job that is there, done or
\* not, changes nothing.
enqueueStage(w, s, g) ==
  IF job[w][s].state = "absent"
    THEN [job EXCEPT ![w][s] = [state |-> "waiting", attempts |-> 0, game |-> g]]
    ELSE job

nextStage(s) == IF s < Len(CYCLE_STAGES) THEN s + 1 ELSE None

\* The scheduler's tick opens a window; the window's start names the cycle.
startCycle ==
  /\ windows < Windows
  /\ windows' = windows + 1
  /\ job' = enqueueStage(windows + 1, stageOf("create-game"), None)
  /\ UNCHANGED <<exec, game, lobby, ensure, joins, faults>>

\* The tick itself is a job and may run twice in one window.
handleSchedulerTick ==
  /\ windows > 0
  /\ job' = enqueueStage(windows, stageOf("create-game"), None)
  /\ UNCHANGED <<exec, game, lobby, ensure, windows, joins, faults>>

FirstStep(s) ==
  CASE CYCLE_STAGES[s] = "create-game" -> "find"
    [] CYCLE_STAGES[s] = "create-pool" -> "pool"
    [] CYCLE_STAGES[s] = "open-lobby" -> "open"
    [] CYCLE_STAGES[s] = "close-lobby" -> "close"
    [] CYCLE_STAGES[s] = "start-match" -> "enqueue"
    [] CYCLE_STAGES[s] = "end-match" -> "settle"
    [] CYCLE_STAGES[s] = "archive-game" -> "history"

Deliver(k, w, s) ==
  exec' = [exec EXCEPT ![k] = [cycle |-> w, stage |-> s, step |-> FirstStep(s),
                               game |-> job[w][s].game]]

runStage(k, w, s) ==
  /\ exec[k].step = "idle" /\ \A other \in 1..(k - 1) : exec[other].step # "idle"
  /\ job[w][s].state = "waiting"
  /\ job' = [job EXCEPT ![w][s].state = "active"]
  /\ Deliver(k, w, s)
  /\ UNCHANGED <<game, lobby, ensure, windows, joins, faults>>

At(k, step) == exec[k].step = step
Step(k, step) == exec' = [exec EXCEPT ![k].step = step]
Mine(k) == job[exec[k].cycle][exec[k].stage]
SetMine(k, state, attempts) ==
  job' = [job EXCEPT ![exec[k].cycle][exec[k].stage].state = state,
                     ![exec[k].cycle][exec[k].stage].attempts = attempts]

\* A delivery whose lock another worker took over changes the job no more.
Complete(k) ==
  /\ At(k, "complete")
  /\ IF Mine(k).state = "active" THEN SetMine(k, "completed", 0) ELSE UNCHANGED job
  /\ exec' = [exec EXCEPT ![k] = IdleWorker]
  /\ UNCHANGED <<game, lobby, ensure, windows, joins, faults>>

EnqueueNext(k) ==
  LET s == nextStage(exec[k].stage) IN
  /\ At(k, "enqueue")
  /\ job' = IF s = None THEN job ELSE enqueueStage(exec[k].cycle, s, exec[k].game)
  /\ Step(k, "complete")
  /\ UNCHANGED <<game, lobby, ensure, windows, joins, faults>>

holdsMoneyLate(s) == s > stageOf("end-match")  \* mutant: counts from the wrong stage

holdsMoney(s) == s >= stageOf("close-lobby")

isFinalAttempt(attempts) == attempts >= Attempts

\* A stage throws: the queue tries it again, and the last failure of a stage
\* that holds money refunds the match.
Throw(k) ==
  LET made == Mine(k).attempts + 1 IN
  IF Mine(k).state # "active"
    THEN exec' = [exec EXCEPT ![k] = IdleWorker] /\ UNCHANGED job
    ELSE /\ SetMine(k, IF isFinalAttempt(made) THEN "failed" ELSE "waiting",
                    IF isFinalAttempt(made) THEN 0 ELSE made)
         /\ exec' = [exec EXCEPT ![k] =
              IF isFinalAttempt(made) /\ holdsMoney(exec[k].stage) /\ exec[k].game # None
                THEN [exec[k] EXCEPT !.step = "refund"] ELSE IdleWorker]

-----------------------------------------------------------------------------
(* The stages *)

NewGame(g, cycle) ==
  /\ game[g] = Unused /\ \A h \in 1..(g - 1) : game[h] # Unused
  /\ game' = [game EXCEPT ![g] = [Unused EXCEPT !.cycle = cycle, !.status = "PENDING"]]

\* 1. create-game looks for the cycle's game and creates it if there is none.
createGame(k) ==
  /\ At(k, "find")
  /\ LET mine == {g \in Games : game[g].cycle = exec[k].cycle} IN
       IF mine = {} THEN Step(k, "create")
       ELSE \E g \in mine :
              exec' = [exec EXCEPT ![k].game = g, ![k].step = "enqueue"]
  /\ UNCHANGED <<job, game, lobby, ensure, windows, joins, faults>>

InsertGame(k) ==
  /\ At(k, "create")
  /\ \E g \in Games : /\ NewGame(g, exec[k].cycle)
                      /\ exec' = [exec EXCEPT ![k].game = g, ![k].step = "enqueue"]
  /\ UNCHANGED <<job, lobby, ensure, windows, joins, faults>>

\* 2. create-pool: nothing for an empty queue; else the escrow row and then
\* the room on chain, which may fail without failing the stage.
createPool(k) ==
  /\ At(k, "pool")
  /\ IF lobby.players = 0 THEN Step(k, "enqueue") /\ UNCHANGED game
     ELSE /\ game' = [game EXCEPT ![exec[k].game].escrow = TRUE]
          /\ Step(k, "create-room")
  /\ UNCHANGED <<job, lobby, ensure, windows, joins, faults>>

createRoom(g) == [game EXCEPT ![g].room = IF @ = "none" THEN "open" ELSE @]

CreateRoomOnChain(k) ==
  /\ At(k, "create-room")
  /\ \/ game' = createRoom(exec[k].game) /\ UNCHANGED faults
     \/ MayFail /\ faults' = faults + 1 /\ UNCHANGED game
  /\ Step(k, "enqueue")
  /\ UNCHANGED <<job, lobby, ensure, windows, joins>>

open(l, g) == [l EXCEPT !.game = g]

\* 3. open-lobby binds the cycle's game and keeps the queue.
openLobby(k) ==
  /\ At(k, "open")
  /\ lobby' = open(lobby, exec[k].game)
  /\ Step(k, "enqueue")
  /\ UNCHANGED <<job, game, ensure, windows, joins, faults>>

\* 4. close-lobby reads the queue.  Too few players, or no escrow row, end the
\* cycle here; otherwise the game runs and its vault is sealed.
closeLobby(k) ==
  LET g == exec[k].game IN
  /\ At(k, "close")
  /\ IF lobby.players < MinPlayers \/ ~game[g].escrow
       THEN Step(k, "complete") /\ UNCHANGED game
       ELSE /\ game' = [game EXCEPT ![g].status = "RUNNING"]
            /\ Step(k, "seal")
  /\ UNCHANGED <<job, lobby, ensure, windows, joins, faults>>

\* A vault that is sealed already, or cannot be, does not stop the cycle.
startRoom(k) ==
  /\ At(k, "seal")
  /\ game' = [game EXCEPT ![exec[k].game].room = IF @ = "open" THEN "started" ELSE @]
  /\ Step(k, "enqueue")
  /\ UNCHANGED <<job, lobby, ensure, windows, joins, faults>>

Unsettled(g) == ~game[g].settled /\ game[g].status # "CANCELLED"
settled(g) == [game EXCEPT ![g].settled = TRUE, ![g].status = "COMPLETED"]

\* 6. end-match settles.  A game that was cancelled, or whose report fails
\* verification, is rejected; no report yet throws.
endMatch(k) ==
  LET g == exec[k].game IN
  /\ At(k, "settle")
  /\ \/ /\ game[g].settled
        /\ Step(k, "enqueue") /\ UNCHANGED <<job, game>>
     \/ /\ ~game[g].settled /\ game[g].status = "CANCELLED"
        /\ Step(k, "cancel") /\ UNCHANGED <<job, game>>
     \/ /\ Unsettled(g) /\ game[g].reported = "valid"
        /\ game' = settled(g) /\ Step(k, "enqueue") /\ UNCHANGED job
     \/ /\ Unsettled(g) /\ game[g].reported = "invalid"
        /\ Step(k, "cancel") /\ UNCHANGED <<job, game>>
     \/ /\ Unsettled(g) /\ game[g].reported = "none"
        /\ Throw(k) /\ UNCHANGED game
  /\ UNCHANGED <<lobby, ensure, windows, joins, faults>>

\* cancelGameAndRefund, after a rejection or a last failure.  A settled game is
\* left alone.
refundAbandonedMatch(k) ==
  LET g == exec[k].game IN
  /\ exec[k].step \in {"cancel", "refund"}
  /\ game' = IF game[g].status = "COMPLETED" \/ game[g].settled THEN game
             ELSE [game EXCEPT ![g].status = "CANCELLED"]
  /\ exec' = [exec EXCEPT ![k] = IF At(k, "cancel") THEN [@ EXCEPT !.step = "complete"] ELSE IdleWorker]
  /\ UNCHANGED <<job, lobby, ensure, windows, joins, faults>>

\* 7. archive-game writes the history and resets the tier.
archiveGame(k) ==
  /\ At(k, "history")
  /\ game' = [game EXCEPT ![exec[k].game].archived = TRUE]
  /\ Step(k, "reset")
  /\ UNCHANGED <<job, lobby, ensure, windows, joins, faults>>

ResetLobby(k) ==
  /\ At(k, "reset")
  /\ lobby' = emptyLobby
  /\ Step(k, "enqueue")
  /\ UNCHANGED <<job, game, ensure, windows, joins, faults>>

-----------------------------------------------------------------------------
(* Beside the cycle *)

Missing(g) == g # None => game[g].room = "none"

ensureBoundOnly ==  \* mutant: a queue without a game is skipped
  /\ ensure.step = "idle"
  /\ lobby.players > 0 /\ lobby.game # None /\ Missing(lobby.game)
  /\ ensure' = [step |-> "check", game |-> lobby.game]
  /\ UNCHANGED <<job, exec, game, lobby, windows, joins, faults>>

\* Every 5 s the ensurer reads the lobby; a queue without a game is given one.
\* A pass that finds the room on chain changes nothing.
ensureRooms ==
  /\ ensure.step = "idle"
  /\ lobby.players > 0 /\ Missing(lobby.game)
  /\ ensure' = [step |-> IF lobby.game = None THEN "bind" ELSE "check", game |-> lobby.game]
  /\ UNCHANGED <<job, exec, game, lobby, windows, joins, faults>>

\* The lobby was read before the game is created; what bound it since is lost.
bindGame ==
  /\ ensure.step = "bind"
  /\ \E g \in Games : /\ NewGame(g, 0)
                      /\ lobby' = open(lobby, g)
                      /\ ensure' = [step |-> "check", game |-> g]
  /\ UNCHANGED <<job, exec, windows, joins, faults>>

\* A failure is logged once per tier and the next pass tries again.
EnsureOnChain ==
  /\ ensure.step = "check"
  /\ \/ game' = createRoom(ensure.game) /\ UNCHANGED faults
     \/ MayFail /\ faults' = faults + 1 /\ UNCHANGED game
  /\ ensure' = [step |-> "idle", game |-> None]
  /\ UNCHANGED <<job, exec, lobby, windows, joins>>

\* createFinishedMatchSettler: a reported game that is not over is settled; a
\* report that fails verification is left to the cycle.
settleFinished(g) ==
  /\ game[g].status \in {"PENDING", "RUNNING"} /\ Unsettled(g) /\ game[g].reported = "valid"
  /\ game' = settled(g)
  /\ UNCHANGED <<job, exec, lobby, ensure, windows, joins, faults>>

Join ==
  /\ lobby.players < MaxQueue /\ joins + faults < MaxEvents
  /\ lobby' = [lobby EXCEPT !.players = @ + 1]
  /\ joins' = joins + 1
  /\ UNCHANGED <<job, exec, game, ensure, windows, faults>>

\* The gateway launches a full queue into its game and reopens the lobby.  Of
\* a game the ensurer bound, the match is settled beside the cycle.
performLaunch ==
  /\ lobby.players >= MinPlayers
  /\ lobby' = emptyLobby
  /\ game' = IF lobby.game # None /\ game[lobby.game].cycle > 0
               THEN [game EXCEPT ![lobby.game].launched = TRUE] ELSE game
  /\ UNCHANGED <<job, exec, ensure, windows, joins, faults>>

\* The node reports the result of a match.
Report(g) ==
  /\ game[g].launched /\ game[g].reported = "none"
  /\ \E r \in {"valid", "invalid"} : game' = [game EXCEPT ![g].reported = r]
  /\ UNCHANGED <<job, exec, lobby, ensure, windows, joins, faults>>

-----------------------------------------------------------------------------
(* Faults *)

Fault == MayFail /\ faults' = faults + 1

\* A database or Redis call of a stage throws.
CallFails(k) ==
  /\ Fault
  /\ exec[k].step \notin {"idle", "complete", "refund", "create-room", "seal"}
  /\ Throw(k)
  /\ UNCHANGED <<game, lobby, ensure, windows, joins>>

\* A worker stops: its job stalls and is delivered again.  A job that failed
\* for good is not, so the refund its worker was about to make is lost.
Crash(k) ==
  /\ Fault
  /\ ~At(k, "idle")
  /\ IF Mine(k).state = "active" THEN SetMine(k, "waiting", Mine(k).attempts) ELSE UNCHANGED job
  /\ exec' = [exec EXCEPT ![k] = IdleWorker]
  /\ UNCHANGED <<game, lobby, ensure, windows, joins>>

\* A job outlives its lock and is delivered to a second worker as well.
Stalled(k, other) ==
  /\ Fault
  /\ ~At(k, "idle") /\ At(other, "idle") /\ Mine(k).state = "active"
  /\ Deliver(other, exec[k].cycle, exec[k].stage)
  /\ UNCHANGED <<job, game, lobby, ensure, windows, joins>>

-----------------------------------------------------------------------------
StageStep(k) ==
  \/ createGame(k) \/ InsertGame(k) \/ createPool(k) \/ CreateRoomOnChain(k)
  \/ openLobby(k) \/ closeLobby(k) \/ startRoom(k) \/ endMatch(k)
  \/ refundAbandonedMatch(k) \/ archiveGame(k) \/ ResetLobby(k)
  \/ EnqueueNext(k) \/ Complete(k)

Ensurer == ensureRooms \/ bindGame \/ EnsureOnChain

Next ==
  \/ startCycle \/ handleSchedulerTick
  \/ \E k \in Workers : \/ StageStep(k)
                        \/ \E w \in Cycles, s \in Stages : runStage(k, w, s)
                        \/ CallFails(k) \/ Crash(k)
                        \/ \E other \in Workers : Stalled(k, other)
  \/ Ensurer
  \/ \E g \in Games : settleFinished(g) \/ Report(g)
  \/ Join \/ performLaunch

\* The queue delivers, a worker runs what it took, the ensurer's and
\* the settler's timers fire.
Fairness ==
  /\ \A k \in Workers : WF_vars(StageStep(k))
  /\ WF_vars(\E k \in Workers, w \in Cycles, s \in Stages : runStage(k, w, s))
  /\ WF_vars(Ensurer)
  /\ WF_vars(\E g \in Games : settleFinished(g))

Spec == Init /\ [][Next]_vars
FairSpec == Spec /\ Fairness

-----------------------------------------------------------------------------
(* Properties *)

TypeOK ==
  /\ job \in [Cycles -> [Stages -> [state : {"absent", "waiting", "active", "completed", "failed"},
                                    attempts : 0..(Attempts - 1), game : 0..MaxGames]]]
  /\ \A k \in Workers : exec[k].cycle \in 0..Windows /\ exec[k].stage \in 0..Len(CYCLE_STAGES)
                        /\ exec[k].game \in 0..MaxGames
  /\ game \in [Games -> [cycle : -1..Windows,
                         status : {"none", "PENDING", "RUNNING", "COMPLETED", "CANCELLED"},
                         room : {"none", "open", "started"}, escrow : BOOLEAN,
                         launched : BOOLEAN, reported : {"none", "valid", "invalid"}, settled : BOOLEAN,
                         archived : BOOLEAN]]
  /\ lobby \in [players : 0..MaxQueue, game : 0..MaxGames]

\* One game drives a window, even when create-game was delivered twice at once
\* and made two: only the game the first enqueue carried is opened on chain,
\* run, settled or archived by the cycle (enqueueStage's job id).
OneGameDrivesCycle ==
  \A w \in Cycles : \A g, h \in {x \in Games : game[x].cycle = w /\ game[x].escrow} : g = h

\* A match is archived only after it was settled: a cancelled or unfinished
\* one never reaches the history (the chain stops at cancel and at failure).
ArchivedIsSettled ==
  \A g \in Games : game[g].archived => game[g].settled

\* However stages are redelivered, fail and are refunded, one game drives a
\* window and only a settled one is archived (enqueueStage, the failed handler).
CycleInv == TypeOK /\ OneGameDrivesCycle /\ ArchivedIsSettled

\* A match that close-lobby sent off ends settled or cancelled with its fees
\* returned: always when its node reports a valid result, and without one when
\* no worker failed (endMatch, the failed handler, createFinishedMatchSettler).
\* A worker that dies with the refund, or a close-lobby delivered again after
\* the launch, leaves a match nobody reports running.
RunningEnds ==
  LET waiting == {g \in Games : game[g].status = "RUNNING" /\ ~game[g].settled}
  IN  /\ []<>(\A g \in waiting : game[g].reported # "valid")
      /\ []<>(waiting = {} \/ faults > 0)

\* The lobby is bound to a game whose vault close-lobby has sealed.
Sealed == lobby.game # None /\ game[lobby.game].room = "started"

\* A queue gets a game whose room on chain takes entries, whichever of the
\* launch, the archive and the open-lobby unbound it (ensureRooms).  The ensurer
\* passes over a sealed game: who queues for one waits until a launch, the
\* archive or the next window's open-lobby takes it from the lobby, and an
\* open-lobby that a stalled worker delivers late binds one to a queue again.
QueuedCanPay ==
  lobby.players > 0 /\ ~Sealed
    ~> \/ lobby.players = 0
       \/ lobby.game # None /\ game[lobby.game].room = "open"
       \/ Sealed /\ faults > 0
=============================================================================
