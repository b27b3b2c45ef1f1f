# Snake Arena: TLA+ models, checks and proofs

Snake Arena is a multiplayer snake game in which the players of a match stake SOL and the last one
standing takes the pot. The money lives in a Solana program; matches are queued, opened, played and
settled by off-chain services that share Postgres and Redis, and driven from a web page. This
directory models the parts whose correctness depends on the order in which those processes act.

- [Inventory](#inventory)
- [Modules and how they correspond to the code](#modules-and-how-they-correspond-to-the-code)
- [Runs](#runs)
- [Fairness](#fairness)
- [Proofs](#proofs)
- [Where the code and its own words differ](#where-the-code-and-its-own-words-differ)
- [Only model-checked, and not modelled](#only-model-checked-and-not-modelled)
- [Plan](#plan)

To check a model: `tlc -config MCArenaProgram.cfg MCArenaProgram`. To check the proofs of one
component: `tlapm ArenaProgramProofs.tla`, and likewise `SumsProofs`, `CustodyProofs`,
`SettlementProofs`, `LobbyProofs`, `ClientProofs`, `NodeProofs` and `PlayProofs`.

## Inventory

| Component | State | Operations | What makes it hard | What makes it correct |
|---|---|---|---|---|
| Arena program (`programs/programs/arena`) | `Config`, `PlayerAccount`s, `Room`s, `RoomPlayer`s, a vault per room, a custody pool, a treasury | deposit, withdraw, create, join, lock, enter, start, unlock, distribute, settle, cancel, refund, close, administration | transactions of any signer in any order; money in three places at once | the pool covers the balances, a vault covers its stakes, a room pays or refunds and never both, stakes always have a way out |
| Lobby (`packages/lobby`, `apps/matchmaker`) | one JSON document per tier with a version, an index player to tier, tickets | join, leave, ready, tick, open, close, reset, launch | several replicas and the worker load, reduce and compare-and-set the same document | no short-handed match, one match per countdown, one queue per player, only payers play, no tier stuck |
| Match settlement (`apps/worker/src/settlement`, `cycle/settle-finished.ts`, `packages/db/src/refund.ts`) | the `games` row, ledger accounts and legs, reward, leaderboard, the Redis result and queue | verify, start, unlock, pay, record, post, count; cancel and refund | overlapping passes, the cycle's retries, admins, crashes, transactions that land late | books follow the chain, confirmed means paid, one settler records, no refund after a payout, a reported match is paid |
| Match cycle (`apps/worker/src/cycle`) | BullMQ jobs, `games` rows, the tier's queue and bound game | create-game, create-pool, open-lobby, close-lobby, start-match, end-match, archive-game, refund, ensure-rooms | at-least-once delivery, a stage failing after half its work, workers that stop, two windows of one tier | one game drives a window, only settled matches are archived, a running match ends, a queue gets a room to pay into |
| Custody funds and stake reservations (`apps/gateway/src/services`, `packages/db/src/stake.ts`) | pool accounts with balance, reservation and version, ledger legs, deposit and withdrawal rows, stake reservations, Redis locks | open and confirm a deposit or a withdrawal, reserve and release an entry fee, reconcile, expire | a database row and a chain transaction that cannot commit together; several requests and the reconciler on one account; locks that lapse | no update lost, no entry posted twice, a confirmed row is backed by the chain, what is reserved is what is spoken for |
| Authentication (`auth.service.ts`, `apps/web/src/hooks`) | nonces, failure counters, refresh-token families, cut-offs, the page's session store and cookie | challenge, verify, refresh, logout, ban and reinstate; sign in, restore, switch account | concurrent refreshes, replayed tokens, a ban in the middle of a request, a reload in the middle of a refresh | one session per nonce, none for a banned account, what was refused stays refused, a lockout ends, the reuse alarm rings only for a cause |
| Administration (`routes/admin`) | balances of accounts, keyset cursors | adjust a balance, page through a list | two administrators, retries, rows added between pages | an adjustment is posted once and balances, a list shows every row that was there |
| Placement, tickets, cluster membership (`apps/matchmaker`, `match.routes.ts`, `apps/realtime/src/cluster`) | node registry and heartbeats, open match per tier, ticket keys, launches under way | place, issue, launch, stage, shake hands, register, beat, drain | races on the open match, launches that overlap, keys that lapse, nodes that vanish | a ticket in its lifetime admits, an unranked tier shares one world, a live node is listed |
| Realtime rooms (`apps/realtime/src/rooms`) | seats, sockets, grace, standings, the result on its way to Redis | join, rejoin, disconnect, tick, death, respawn, report, drain, reap | sockets, timers, the tick and an unanswered write interleave | the result is fair, what was announced is stored and queued, an abandoned match closes |
| Admission and anti-cheat (`apps/realtime/src/anticheat`, `io`) | token buckets, sequence numbers, suspicion | admit a connection, an event, an input | bursts, evictions, reconnects | no window of time lets through more than burst and rate allow |
| Simulation (`packages/game-core`) | snakes with spine rings, food, ids, grid buckets | add, remove, respawn, queue input, tick | order inside a tick, a ring that wraps, ids | a spine is a path, deaths are reported once, a query finds everything in reach |
| Wire protocol (`packages/protocol`) | buffer and offset | encode, decode a snapshot | sizes known only from what was read, clamps | the estimate holds and what is decoded is what was sent |
| Game page (`apps/web/src/game`) | engines, socket, prediction and interpolation buffers | mount, connect, input, reconcile, leave | remounts, late packets, lost sockets | one engine lives, prediction follows the acknowledgements, leaving frees the seat |
| Way into a match (`apps/web/src/hooks`, `components/lobby`) | board as last polled, claim, ticket | join, leave, poll, launch, play now | polling, requests answered late | one ticket is asked for at a time, a seat that is held is taken |
| Solana client and pipeline (`packages/solana`) | endpoint index, transactions sent, breaker window | build, send, confirm, retry, fail over, trip, probe | answers lost or late, expiry of blockhashes | calls fit the program, an answer is true, half-open is careful, a breaker closes again |
| Entry fee and custody panel (`apps/web/src/hooks`, `components/wallet`) | fee status, flows of the page | pay, deposit, withdraw | several awaits, pages left half-way, lost answers | paid is on chain, what is done is booked, what was typed is what moves |
| Schema, shared infrastructure, read-only views | none of their own | | | |

How they interact. The **matchmaker** runs the lobby: when a countdown expires it picks a realtime
node, issues tickets and names a match. Players pay into the room's vault with `enter_room` from
their own wallets before they mark themselves ready. The **worker** opens and closes lobbies as
stages of a cycle, creates the on-chain room, and settles. The **realtime node** plays the match,
writes `match:result:{gameId}`, then adds the game to `settle:pending`. Every ten seconds a
**settleFinished** pass takes games from that queue and, as a backstop, sweeps unsettled rows; the
`end-match` stage settles the same games. The **gateway** serves funds, authentication and
administration, including cancellation and retry of a settlement. The **web page** polls all of
them, holds the wallet, and keeps the game going over one socket to the node. The **program** alone
moves money between players.

The hazards of this code, each at its line, are listed under `hazards` in `PROJECT.json`; the
properties are aimed at them.

## Modules and how they correspond to the code

`PROJECT.json` maps each definition to its lines. Mutants (`\* mutant:`) are variants of an
operator that a plausible slip would produce; each shows that one property can fail. An invariant whose
name ends in `Inv` is the conjunction of a module's named parts, its type invariant among them if it
has one.

### ArenaProgram: the on-chain program

One action per instruction. A Solana instruction is atomic, so an action's guard is the conjunction
of the account constraints, the `require!`s and the conditions of the transfers, and its effect is
the whole handler.

| TLA+ | Code |
|---|---|
| `config` | `Config`: admin, pending admin, authority, fees, pause |
| `hasAccount`, `balance`, `pool` | `PlayerAccount`s and the custody vault |
| `room`, `seat`, `vault` | `Room`, `RoomPlayer` and room-vault accounts; `Absent` and `None` are accounts that do not exist |
| `wallet`, `treasury`, `clock` | lamports of wallets and the rake vault; `Clock::unix_timestamp` |
| `apply_bps`, `CanTransferFrom`, `Funded` | `utils.rs` |

`Sums` defines `Total(f)`, the sum of a function over a finite domain, without recursion, so that
it can be proved about; `SumsProofs` proves what one more key, one changed value or a table of shares does
to it. It is also the sum of the ledgers in `CustodyFunds` and `BackOffice`.

Abstractions. Lamports are naturals: the supply of the chain is below 2^64, so the checked
additions cannot overflow, while every checked subtraction is a guard. Lifetime statistics that no
guard reads, events and the rent of data accounts are left out. `FreshRoomId` is an assumption about
the backend, which draws a fresh 16-byte id for each game. `VaultsOwnedBy` says who owns the
lamport vaults: `"System"` is the chain as deployed; `"Program"` is what `close_room` was written
for. `arena` uses `"Program"` so that `close_room` is exercised: with `"System"` it never
succeeds (see below). The theorems hold for both.

### Lobby and LobbyService: the queue of a tier

`Lobby` is the reducer of `state.ts` as operators: `reduceLobby(state, event)` dispatches to `Join`,
`Leave`, `Ready`, `Open`, `Close`, `Launched`, `Reset`, each followed by `settle`, which starts, keeps,
cancels or expires the countdown. A deadline is kept as the seconds `left`, an exact picture while
all clocks agree.

`LobbyService` runs it. A task is a request handler, a ticker pass or a worker job, and each `await`
ends a step: `Load`, the reducer, `CompareAndSet` on the version, up to `MAX_CAS_ATTEMPTS` times, then
what the caller does with the outcome. `performLaunch` is `LaunchGame`, `MarkLaunched`, `ClearIndex`,
`Reopen`. The index `lobby:player:{id}` and the rosters are separate keys, written in separate steps
and expiring separately. The chain appears as `paid`: whose fee the vault of a game holds.

### MatchSettlement: the end of one paid match

One action per `await` of `settleGame` and of `cancelGameAndRefund`, with everything that calls them.

| TLA+ | Code |
|---|---|
| `game` | the `games` row: status, settlement status, recorded pot |
| `node`, `queued` | `match:result:{id}` and membership in `settle:pending` |
| `chain`, `inflight` | the room as the service's instructions meet it; transactions given up on that may yet land |
| `ledger` | escrow balance and version, custody balances, posted legs, reward row |
| `setup` | the circumstances of the match: who is reported, the escrow row, whether the worker can sign, whether the delay for a permissionless cancel is over |
| `task[x].pc` | the await a pass, a stage or an admin request is at |
| `job`, `attempts` | the cycle stage waiting in BullMQ and its failed attempts |

Postgres runs at read committed, so rows read early may have changed at commit except where an
update names the version it read; this is why `CancelChecks` and `CancelCommits` are two steps.
`Starts` are the four ways a match stands when play begins, each produced by a path of the earlier
stages. Three facts of the code shape the model: no stage writes `game_players`, so entrants are
taken from the report and the chain; nothing calls `consumeReservations`, so in the present build the
escrow row exists and is empty (`Escrow = "empty"`) while `"funded"` is the case settlement and
refund are written for; and nothing off chain calls `cancel_room` or `claim_refund`.

Left out: placements below the first (a match pays its winner), the plausibility checks of a report
(score, survival time), and the expiry of a result after a day. Postgres and Redis are assumed up.

### CustodyFunds: one player's custody account

One action per `await` of `confirmDeposit`, `confirmWithdrawal` and the reconciler; a reservation is
two steps, the reads of its transaction and its commit.

| TLA+ | Code |
|---|---|
| `account` | the `custody:{user}` pool account: balance, reserved, version |
| `external`, `treasury` | the balances of the two system pools, relative to the start |
| `posted` | the entry under the idempotency key of an intent |
| `row` | `deposits` and `withdrawals` rows: status, lamports, signature |
| `stakes` | `stake_reservations` of the player |
| `chain` | the player's transactions that have landed, and the balance the program keeps for them |
| `lock` | `lock:deposit:{id}`, `lock:withdrawal:{id}`; `Orphan` when the holder has died |
| `freed` | history: withdrawals whose reservation has been given back |
| `task[x]` | where a request or the reconciler is, and the account row it read |

A transaction (`Transaction[s]`) is what `parseBalanceChanges` makes of it: its effect on the pool and
the treasury, and whether it succeeded, invoked the program and was signed by the wallet. The account
of one player is enough: players meet only on the system pools, and such a meeting makes `postEntry`
throw, which `CallFails` does too. The clock is left out, so an intent may be past its fifteen minutes
at any time. `consumeReservations` has no caller and is not modelled.

The release of a lock is a comparison and then a deletion, two calls, as in `plugins/solana.ts`. The
version guards what `postEntry`, the stakes and `createWithdrawalIntent` write; `releaseReservation`
neither names nor advances it, which is why `ReservedIsCommitted` speaks of the time before the
first release.

### Escrow and ArenaEscrow: what the program promises

`Escrow` is the program as a player sees it: a match takes one stake of the same size from each
player, is played once two have staked, and then pays the whole pot at one stroke or is void and
hands every stake back. `ArenaEscrow` instantiates it with a mapping that forgets whether money lies
in a wallet or in custody, whether a stake came by `join_room` and `lock_entry_fee` or by `enter_room`,
that `unlock_prize` comes before the payment, and the records and rent left behind. `ImplementsEscrow`
is checked as a property of `arena`.

### MatchCycle: one paid tier's window

| TLA+ | Code |
|---|---|
| `job[w][s]`, `exec` | the BullMQ job of stage s of window w, and what each worker is running |
| `game` | `games` rows: cycle, status, room on chain, launched, reported, settled, archived |
| `lobby` | the tier's queue length and the game bound to it |
| `ensure` | the pass of the room ensurer, between its read and its write |

A stage is several steps, one per write that another process can see; a job may be delivered again
while its first delivery still runs, after a stop or a stall. When the attempts of a stage are used
up, `refundAbandonedMatch` cancels the match and refunds it. Delays are left out: a stage may run arbitrarily late.
Settlement is one step here; `MatchSettlement` takes it apart. A game's room on chain is absent, open, or
started: `close-lobby` seals it and `enter_room` refuses it from then on. `QueuedCanPay` asks for an open one, and
starts again when the lobby is let go of a sealed one.

### AuthService, WebSession, MatchLaunch: the way in

`AuthService` takes each request apart at its awaits: the nonce, `verifySignature` with the
failure counter and the lockout, `issueSession`, `rotateRefreshToken` with the burning of a family when
a revoked token is shown, logout, and the admin routes that ban, shadowban and reinstate. A change of a status is
a request of its own (`change`): it reads the account, commits, revokes the rows and writes the cut-off it captured
before, each a step, and up to `MaxChanges` of them overlap. A session is named by the request
that issued it; all times are ages or time left. `WebSession` composes it with the page: the wallet
adapter's account, the store, the cookie and the hooks that restore and refresh, including answers
that arrive after the account has changed. Signatures are right or wrong.

`MatchLaunch` is one player's board and play page: the board as last polled, joining and leaving a paid
or free room, the claim that lets one ticket request out at a time, and the play page that asks for a
ticket itself when it is opened without one.

### Placement and RealtimeRoom: a realtime node

`Placement` has the registry (`cluster:nodes`, `cluster:node:{id}`), the open match of a tier, the key
of a bound game, the tickets of a single request and those a launch stages, and the handshake that
verifies, claims and leaves a reconnect note. Each await of `POST /matchmake` is a step; the lapse of a
key is an action. A launch (`launch[l]`) is the `launchQueue` of one ticker: it may begin at any time, places
once, and writes `ticket:<player>` and `ticket:meta:<player>` for one player after the other, each write a step
during which another launch, of the same game or another, and the players' own requests go on. A staged
ticket is handed out with the address of the meta key, and the note names the meta key's room. `crossed` is a
history variable of no effect on the rest: the players for whom two launches were between their two writes at once,
or one was while the player's request was between its two reads. `RealtimeRoom` has the seats, their sockets and their grace, the tick that kills,
evicts, announces, reports and reaps, the write of the result and the drain. A handler keeps the room
object it joined, so a room made again under the same id is a new epoch.

### Simulation, SpatialHash, AdmissionGuards, WireProtocol, GameClient: play

`Simulation` keeps the order of a tick: inputs, movement and the spine ring, boost and its drops,
eating, collisions, deaths, removal, food. A point of a spine is the distance its snake had travelled
when it was made, so "the spine is a path" can be said without geometry; which food is reached and who
touches whom are choices. A boosted tick may be longer than the spacing of points: at the
30 ticks per second the server runs by default it is 220 * 1.9 / 30 = 13.9 units where
`SEGMENT_SPACING` is 12, so nothing is assumed of the two, and `play` takes a `BoostSpeed` above its
`Spacing`. `SpatialHash` is the grid on integer coordinates, below zero as well, checked against the
definition of what lies within a radius. `AdmissionGuards` counts tokens in fractions.

`WireProtocol` encodes every small snapshot and then decodes it, one record (the header, a snake, a pellet
or an id) to a step. The buffer is the fields by offset, each as wide as what it is written with; `sent` and `got`
are how far the encoder and the decoder have come. Nicknames are counted in UTF-16 units and UTF-8 bytes.
That every count fits the integer it is written as is assumed, because `nicknameSchema` allows sixteen
characters and the encoder is given at most 120 points of a body. `GameClient` is the page: engines mounted,
destroyed or cancelled during their connection, the socket and what is under way on it, the guard of
each socket on the node, prediction, interpolation, eviction and leaving.

`Maps` is JavaScript's `Map.set` and its loop over an array, as `put` and `inOrder`. They say what `@@` and a
fold say, in a form the provers can expand; `Simulation`, `SpatialHash`, `AdmissionGuards`, `GameClient` and
`RealtimeRoom` use them.

### ArenaClient, TxPipeline, CircuitBreaker, EntryFee, CustodyPanel: the ways to the chain

`ArenaClient` states both sides of every call: the keys each hand-written builder passes with their
flags and argument layout, and the accounts and arguments the handler expects. `CallsFitProgram`
compares them for every call the services make. `TxPipeline` is `sendSigned`: retries around failover
around build, send and poll, with a leader that drops, a node that lags, answers that are lost and
blockhashes that expire. A transaction is known by the
number of the build that made it, and one that can no longer land is forgotten. `CircuitBreaker` runs several callers under one breaker, each reporting with
the time it started. `EntryFee` is `useEntryFee` on the polled board: its two effects with what each depends on,
countdowns that are called off and start again for the same game, games bound before a countdown or during it, and
a wallet that disconnects and comes back, so that `pay` fails at once and its effect runs again. `fee.answered` is
the set of games whose fee has been answered for since the countdown began. `CustodyPanel` is a deposit or a
withdrawal from the text that is typed to the confirmation, on a page that may be left at every step.

### BackOffice: adjustments and lists

The adjustment of a balance is a transaction of steps under the versions it read, with the
idempotency key that makes a retry harmless; the lists are keyset pages, and the scanned list that
filters after it reads. It runs beside `CustodyFunds` in `MCCustodyFunds`.

The modules `MCAccess`, `MCNode`, `MCPlay`, `MCSolana` and `MCCustodyFunds` each hold several models
that do not share state. The variable `part` is chosen in the initial state and never changes; the model it
names runs, the others rest. One run then explores the state spaces side by side, not their product.

## Runs

The bounds are named constants. Two players are what the smallest paid match has, and every
guard that counts players distinguishes at most none, one, the minimum and full. The `Amounts` of
`arena` are the fee, the prize, and two payouts that make up the prize between them.

| Run | Instance | Shows |
|---|---|---|
| `arena` | 2 players, 1 room, 2 fee values, ids that come round again, fair | `ArenaInv` (types, the pool covers the balances), `RoomBooksAgree` (exact escrow, stakes and counters, the pot split by the fee snapshot, payable refunds), `PaidXorRefunded`; only a settlement or the withdrawal fee ever costs a player anything; a stake comes back or is decided without the backend; the program implements `Escrow` |
| `lobby_safety` | paid room of 2 seats, 6 requests, 1 crash | `LobbyInv`: no short-handed launch, no countdown without quorum |
| `lobby_liveness` | paid room, 5 requests | `NeverStuck`: no tier stays launching; a room with its minimum frees itself |
| `custody` | 1 deposit, 2 withdrawals, 1 tier, 2 clients, the reconciler, 2 requests, 2 mishaps; 2 admins, 2 corrections of one lamport up or down; 3 rows in pages of 1 | `CustodyInv`: every account is the sum of its legs and nothing posts twice, a confirmed row is backed by a landed transaction and a posted entry, until the first release the reservation is exactly what is spoken for; an open withdrawal expires or is settled, except one whose entry an earlier attempt posted and the balance no longer covers; an adjustment is posted once and balances; a walk through the pages misses nothing that was there |
| `settle_safety` | pass, stage and admin in four circumstances; a fault or a crash | `SettlementInv`: books follow the chain, confirmed means paid, one settler records, a report with an outsider never pays, ledger lamports are conserved; no refund after a payout |
| `settle_liveness` | pass and stage, 2 crashes | `ReportIsHonoured`: a reported match is paid unless a worker dies, and has its prize unlocked even so |
| `cycle` | 1 window, 4 games, 2 workers, 2 attempts, 2 events, 1 fault | `CycleInv`: one game drives a window, what is archived was settled; a running match ends; a queue gets a room that is open to pay into |
| `access` | 1 wallet and another account, 3 requests and 2 changes of a status within a budget, 1 fault; 2 launches | `SessionInv`: one session per nonce, nothing for a banned account; what was refused stays refused; the reuse alarm has a cause; a lockout ends; one ticket at a time, and a held seat is taken |
| `node` | 2 clients, 2 nodes, 2 placements and 2 launches within a budget, 1 lapse; 3 players on 2 seats, 3 sockets, 1 respawn, 1 failed write | `PlaceInv`: a ticket in its lifetime admits whoever's staging was not crossed, an unranked tier shares one world; a live node is listed; `ResultInv`: the standings are fair and what was announced is what is paid; an announced result is queued and an abandoned match closes |
| `play` | 2 snakes, 4 ticks; a 7 by 7 grid; 5 units of time; snapshots of up to 2 snakes; 2 mounts, 2 sockets, 2 ticks, 3 commands | `SimInv`, `QueryFindsAll`, `WindowIsBounded`, `SnapshotSurvives`, `ClientInv`; leaving frees the seat |
| `solana` | every call of the client; 2 endpoints, 2 attempts, 2 sends; 3 callers, thresholds of 2; 2 games, 2 payments; 2 flows, 2 intents, 4 texts | calls fit the program; a transaction lands once and the answer is true (but for the cases below); half-open is careful; a breaker closes again; every countdown of a game asks for its fee and paid is on chain; the panel's `PanelInv` |
| `settle_wedge` | one crash | expected violation, see [below](#where-the-code-and-its-own-words-differ) |

The circumstances of `settle_safety` (`MCSafety`) are the deployed build, the ledger alone with a
funded escrow, a room that is old enough for anyone to cancel, and the same with a report that names
someone who did not pay. `ConfirmedMeansPaid` and `BooksFollowChain` except rooms that were
cancelled on chain: there `settle_to_winner` answers `RoomAlreadySettled` and the vault may be empty,
which `settleGame` takes for a payout.

`MaxRequests`, `MaxChanges`, `MaxPlacements`, `MaxLaunches`, `MaxFaults`, `MaxCrashes`, `MaxMishaps`, `MaxLapses`
and `MaxTime` cap what the environment does. Two runs also cap them jointly. In `access` `MaxBegun` lets in the first
request with two more, or with one more and both changes of a status; a shadowban, which takes the steps of a
ban, is looked at by itself (`ShadowAlone`). In `node` it lets in both requests and a launch, or both launches, or
either with a lapse; a part of its own (`launches`) has both requests and both launches of one player on nodes that only
beat, where two stagings meet each other and the player's reads. In `solana` two games and two payments at once are
explored as far as `FewCalls` says: all of it for one game, and for two until an entry lands (the theorem `FeeIsAsked`
has no such bound). One fault is enough for each pair of a failure at one step and a retry by any other task; two
attempts of a stage distinguish a retry from the last failure; `MAX_CAS_ATTEMPTS` is 2 so that
giving up is reached. In `custody` a withdrawal of 100 is held for review, one of 50 is not, and 50 is
the smallest amount with a fee at the cap of 200 basis points; two requests suffice because a deposit
intent may be open at the start. In `node` three players meet two seats, so that a room fills and
a stranger is refused; two clients and two nodes are what a split world needs. In `play` a ring of five
slots wraps within four ticks, and a life of food of one tick expires within the run. The client is explored
twice, with three commands and one tick (`SteeringClock`), so that the budget of its guard runs out, and with two
commands and two ticks (`FramesCommands`), so that it has two snapshots to interpolate between. In `solana` two
endpoints are the least with a failover, and three callers the least for a late ordinary failure,
a probe and a call that is refused. Deadlock checking is off where an exhausted environment has
nothing left to do: a match that is over, an account without requests, a player who has left.

## Fairness

- Arena: time passes, and a stuck player sends the permissionless instructions (`cancel_room`,
  `claim_refund`) and a deposit when an account is needed. Nothing is assumed of the
  admin or the settlement authority.
- Lobby: a task that began goes on (Node runs every continuation), the clock runs, and a ticker,
  a `setInterval` over all tiers, reaches every tier. Nothing is assumed of clients or of the worker.
- Settlement: `setInterval` starts a pass every ten seconds, BullMQ delivers jobs, tasks go on and
  the node, having written the result, queues it. The passes are strongly fair because the queue
  is only seen between two of them. Faults, crashes, admins and players are never forced.
- Custody: tasks go on, a lock nobody will release expires, and the reconciler, which goes through all
  rows its queries find, comes round to each (strong fairness, since it is idle only between two of
  them). Clients, the chain and mishaps are never forced.
- Match cycle: workers go on, BullMQ delivers and redelivers what is waiting, the ensurer's and the
  early settler's intervals come round. Joins and faults are never forced.
- Access: a server step that can be taken is taken, time passes, and the page polls. The player and the admins are
  never forced.
- Node: heartbeats and the drain run on timers, `runTick` on the room's interval, and a write in flight
  is answered. Placement requests, joins and losses of sockets are never forced.
- Game page: the eviction of a seat past its grace, the close of a socket and the handlers of messages
  that have arrived. Lost packets stay lost.
- Circuit breaker: time passes, and a caller that runs settles and a caller that waits calls again;
  nothing is assumed of the endpoint but that it recovers in the property that says so.

## Proofs

Eight modules hold the theorems. Each is about one component or about components that serve one
party, and each theorem is for every value of the constants its module's named `ASSUME` allows.

| Theorem | Module | States | From |
|---|---|---|---|
| `ArenaIsSolvent`, and for its parts `TypeCorrect`, `PoolSolvency` | `ArenaProgramProofs` | `ArenaInv`; `TypeOK`: in particular no subtraction of lamports goes below zero; `PoolSolvent` | `IInv` |
| `RoomBooks`, and for its parts `EscrowExactness`, `StakesSum`, `CountersMean`, `PotSplits`, `RefundsArePayable` | | `RoomBooksAgree`; `EscrowExact`, `StakesAddUp`, `CountersAreSeats`, `PotSplit`, `RefundsPayable` | `IInv` |
| `PaidOrRefunded` | | `PaidXorRefunded` | `IInv` |
| `Implementation` | | `ImplementsEscrow`: the program implements `Escrow` | `EInv` |
| `NothingElseCosts` | | `OnlySettlementCosts` | `EInv` |
| `CustodyIsSafe` | `CustodyProofs` | `CustodyInv` of `CustodyFunds` | `CInv` |
| `AdjustmentsAreSafe` | | `AdjustmentsHold` of `BackOffice` | `OfficeInv` |
| `PagesLoseNothing` | | `PagesComplete` of `BackOffice` | `PagesInv` |
| `SettlementIsSafe`, `PaidIsNotRefunded` | `SettlementProofs` | `SettlementInv`, `NoRefundAfterPayout` | `SInv` |
| `NoRoomShortHanded` | `LobbyProofs` | `LobbyInv` | `LInv` |
| `SessionIsSafe`, `RefusedForGood` | `ClientProofs` | `SessionInv`, `RefusedStaysRefused` of `WebSession` | `AInv` |
| `FeeIsAsked` | | `FeeInv` of `EntryFee` | `BoardInv` |
| `SendsOnce` | | `SendInv` of `TxPipeline` | `PipeInv` |
| `HalfOpenStaysCareful` | | `HalfOpenIsCareful` of `CircuitBreaker` | `CarefulInv` |
| `TypedTextMoves` | | `PanelInv` of `CustodyPanel` | `WalletInv` |
| `OneTicketAtATime` | | `OneTicket` of `MatchLaunch` | `LaunchInv` |
| `CallsFit` | | `CallsFitProgram` of `ArenaClient` | `CallsInv` |
| `TicketsAdmit` | `NodeProofs` | `PlaceInv` of `Placement` | `PInv` |
| `OneMatchPerCycle` | | `CycleInv` of `MatchCycle` | `GInv` |
| `ResultIsPaidFairly` | | `ResultInv` of `RealtimeRoom` | `MatchInv` |
| `ClientPlaysOn` | `PlayProofs` | `ClientInv` of `GameClient` | `ClientHolds` |
| `WorldsStaySound` | | `SimInv` of `Simulation` | `WorldSound` |
| `SnapshotsSurvive` | | `SnapshotSurvives` of `WireProtocol` | `WireInv` |
| `QueriesAreExact` | | `QueryFindsAll` of `SpatialHash` | `HashHolds` |
| `WindowsAreBounded` | | `WindowIsBounded` of `AdmissionGuards` | `BucketsInv` |

Every one of them follows the same argument: the initial states satisfy the inductive invariant of the
last column, lemmas per action (or per group of actions that leave the same things alone) show
that a step preserves it, it implies the property, and a temporal step combines the three. An action
property is proved of each step from the invariant. TLC checked each inductive invariant on a small
instance first. None of the properties is inductive alone; what the invariants add is why they hold.

**The program.** That a vault can pay a refund needs that it holds its rent and `total_locked`; that
`total_locked` covers the refund needs that it is the entry fee times the number of `Locked`
records; that settlement leaves exactly the rent needs that prize and rake add up to `total_locked`,
which holds only from `unlock_prize` on, with the fee snapshot within the cap; that a room cannot pay
and refund needs the states its records may have in each status. `IInv` is the conjunction: `TypeOK`,
the fee caps of the configuration, `PoolSolvent` and, for each room, `RoomInv` (`VaultInv`, `StakeInv`,
`CounterInv`, `SplitInv`, `SeatInv`). `EInv` adds that a room's fee is not zero, so that a stake the
escrow sees is a record that is `Locked`. For the refinement, `StepView` gives for each instruction the
one thing it does to the escrow's view, and a lemma for each of those shows that it is a step of `Escrow`
and what it may cost.

**Custody.** `CInv` says what a task may still rely on after an await: if the version it read still
stands, so do the balance and, until a reservation has been given back, what is reserved; a row never changes its lamports, and a signature
stands on one row of its table. This is how a version named in an update becomes the sum
`BooksMatchLegs`. `OfficeInv` says the same of an adjustment between its reads and its commit, for the
player's account and the treasury. `0` is no administrator and no correction, as it stands for none.

**Lists.** A keyset page continues after the row that ended the last one, so `PagesInv` says that the
cursor is a row of the list, that nothing is shown twice, and, by `Passed`, that whatever stood in the list
when the walk began and sorts no later than the cursor has been shown. The order is total because the
id breaks the tie of equal times, and a row added meanwhile disturbs neither. The list that filters after it
reads loses rows (see below), so `Passed` promises nothing of it but that it does not repeat itself.

**Settlement.** `SInv` puts what a settlement knows at each await beside the chain. Past `unlock_prize` the
room is unlocked and the settlement is alone, because unlocking succeeds once (`SettleInv`,
`OneSettler`); past the payment the pot has been paid out, or taken back by its players. `ChainInv` keeps
the vault equal to the stakes that are neither. What a transaction on the ledger has read stands as long as
the version it names does (`LedgerTaskInv`), which is the whole reason why a cancellation that found no
payout leg cannot refund after one. `Cycles` has at most one member: the queue gives the stage's job
to one worker at a time. Two workers on one stalled job are modelled in `MatchCycle`, not here.

**Lobby.** A document that is counting down has its quorum when it is saved, and so has the one a
task is about to save or launch from (`LobbyOK`, `TaskOK`); the launch reads the roster the task
carries, not the one in Redis.

**Cycle.** A job carries a game of its own window, only a settled game is sent to the archive, and a game
with an escrow row is the one that its window's `create-pool` carries (`JobOK`, `ExecOK`,
`EscrowOK`). A second delivery therefore meets what the first one did.

**Session.** A nonce that a request has consumed is nobody's current nonce and no other request's
(`NonceOK`), which needs that a nonce's name is taken when it is issued. `RequestOK` says where each
route may be, and that a request whose account was banned throughout is not past the look at the
account; `SessionOK` that a session belongs to a request that has signed it and that a denylist entry
lasts as long as its token; `CutoffOK` that a cut-off lasts until every token from before it has expired, however
long its revocation took. What may take a refusal back is then only a change of a status that captured its time
before the cut-off that stands and writes after it, which `RefusedStaysRefused` names (`LateRevocation`).

**Entry fee, pipeline, breaker.** `BoardInv` says that while the board shows a countdown its guard names a game
that was asked for since this countdown began, and so does the room it shows, if it has a game (`KnowsRoom`): a
countdown that begins therefore has to clear the guard before the second effect looks at it. `PipeInv` says that a call which lost no answer sends again only when
nothing it built before can still land (`MoneyInv`), and that the endpoints an attempt has tried are
a stretch of the ring ending at the shared index (`TriedInv`), so that after as many turns as there are
endpoints it has tried them all. `CarefulInv` says that a probe is out only while the breaker is
half-open and says so, and that the successes it counts came in a row.

**Panel.** `WalletInv` says that each flow that has an intent has its own row (`FlowsInv`), that a row the
player has heard nothing of is unsigned or has a flow on screen (`RowsInv`), and what the program and the
books hold (`Books`, sums over the rows that landed and over those that were confirmed). That the
lamports of a row are the value of the typed text is the one place where a recursion over digits counts:
`digits` and `tens` are recursive functions, `Worth` and `Tens` show that they have the values their
equations say, `DigitsPadded` that `padEnd` multiplies by a power of ten, `TextWorth` the whole.

**Way into a match.** A claim is dropped as soon as the board no longer shows the launch it was made
for, while the request may still be under way. `LaunchInv` says what this leaves: as long as the player
has not gone between free and paid rooms, nothing free has been asked for (`OnlyPaid`), and a request
whose claim was dropped is the last one, because no match of his is about to start (`LastRequest`). So a
second one cannot be sent beside it.

**Calls.** `CallsInv` only says that what is sent is one of the client's calls. That each of them fits is a lemma per
call: its keys meet the accounts of the handler position by position (`Suits`, `Meets`), and whatever
does so fits (`Fitting`). The winners of `distribute_winnings` are any sequence, so the keys of their pairs
are compared at every position and not for a number of them.

**Placement.** `TInv` is what a request, a launch and the keys hold at each await, and `FreshInv` that without
a lapse every ticket is in its lifetime. `DInv` says of a player whose staging was not crossed, while nothing lapses,
that the ticket's key and the meta key name the same room and node, or the launch between the two writes does
(`Matched`); that what a request has read of the two agrees (`Took`); and that the note names the room of the
ticket that is answered, which is also sent to its own node (`Noted`). So whatever became of the ticket's
key the door opens. `FleetInv` says that while nothing lapses every node stays up and listed; so while
besides no node is full every request finds every node healthy and the branch that overwrites a pointer
is not taken. `WorldInv` then follows the open world from the pointer into each request and each
ticket.

**Token buckets.** `WindowIsBounded` speaks of pairs of past admissions, so it is not inductive:
`BucketsInv` adds that the window from each admission to now has paid for every admission since and
for what the bucket holds. A bucket that is dropped counts as a full one, which is why only a full one may
go. An address and a kind of event are different things (`GuardConstants`), so their histories are kept apart.

**Grid.** `HashHolds` says that a bucket holds each thing once and in order, and that whatever is placed is
found in the bucket of its cell, which an update has to keep both when the thing stays in its cell and
when it moves. What lies within a radius lies in a cell the query visits, for coordinates below zero as
well: `cellOf` rounds down and is monotone.

**Simulation.** `WorldSound` is an invariant of a whole tick, so each part of a tick has a lemma that says what it
keeps of it. `SnakeInv` is the ring: from the head back, as many slots as the snake is long hold points in
the order they were made, no two further apart than a spacing and the longest step of a tick (`Path`), and the
head no further from the first point than what it has travelled since allows; this survives a ring that wraps and a
snake that grows or shrinks. `FoodInv` adds the phase of the sweep to what is said of
expired food, since that is all that bounds how long it stays; `SeatsInv` that players and snakes are paired
one to one; `Survives` that the last killer of a tick in which every death has a killer is no victim of it.

**Wire.** What the decoder reads lies where counts and lengths it has read before say. `Writing` gives every field
its place, as the sum of the lengths of the snakes before it, and with it the buffer stays within the estimate;
`Reading` keeps the decoder at the place of the next field with all that it has read equal to what was
sent, clamped and rounded. The step of the proof is that writing beyond a place disturbs
nothing before it, and that a snake takes as many bytes as its length says.

**Game page.** `PageInv` says that only the engine mounted last is live and that a socket is open only under a
running one. While the page has had one engine and has it still (`AloneInv`), the inputs on their way to the
node are in the order they were made across all sockets (`Sent`), those on the seat's own socket are newer than
what its snake has acknowledged (`Steered`), and no acknowledgement is ahead of what was sent nor any input
kept for replay behind it (`Acked`). `PacedInv` follows the packets of a client that sends once per
poll into the guard of the node: they continue where its sequence stands and the budget that is left
covers them (`Flowing`), so an honest client is not suspected until a connection is lost.

**Ranking.** `Rank` says what a result is: the eliminated from the last place on, and at most one player
before them. A match is announced when at most one player is left, so from then on nobody but the player
ranked first can still go out, and he goes out last (`RankGrows`): the ranking that was announced, the one on
its way to Redis and the one that is stored stay rankings of the match whatever deaths, departures and
retries follow, and two rankings of one match have the same winner (`RankFirst`). That needs `MatchOK`:
whoever is not eliminated is seated with a living snake, so that the seats `aliveCount` counts bound the
players who are left; and `Ranked`: a result of the room's own epoch is of an announced match, so that a room
made again under the same id is not ranked by the result of the last one. `inOrder` eliminates one player
after the other; `RunExists` and `InOrder` show by induction that whoever is out keeps his place.

The assumptions are those a deployment meets: at least one of each bound, finite sets of rooms,
players and intents where sums are taken over them, amounts that are naturals. `SumsProofs` holds the
lemmas about `Total` that the proofs about money share: one key more, one value changed, a table of shares,
one posting appended. The library's induction theorems take an operator, which the provers here cannot
instantiate; `NatInduct` of `SumsProofs` states induction over the naturals of a set instead, from
the library's theorem that `<` is well founded on them. Two lemmas per component are worth reading first: the one that says what
each action leaves alone, and the one that combines them into the step of the invariant (`NextInv`,
`CInvStep`, `SInvStep`, `PipeInvStep` and so on).

## Where the code and its own words differ

`settle_wedge` checks a sentence of the code that TLC must find violated: a crash between unlock and
payment makes every retry fail at unlock, and the match is cancelled with its pot in the vault
(`findings` in `PROJECT.json` quotes it). What follows was met while modelling.
They are behaviours of the models; no property of a run claims the opposite.

**Arena, lobby, settlement and custody**

- A tick does not change the lobby's version, so two tickers may launch one game twice.
- Opening a lobby for the next game keeps the ready flags of the last, so players who have not paid
  for it count as ready.
- Two intents confirmed with one signature at the same time are both credited.
- A replica that stops between saving `launching` and the reset leaves the tier launching until the
  next cycle (`service.ts:126`).
- A withdrawal under review keeps its reservation, and no code moves it on
  (`withdrawal.service.ts:128`).
- A player who entered a room directly has no custody account, so a refund fails; while the program
  is paused the account cannot be created either (`settle.rs:341`, against `state.rs:34-36`).
- An admin may cancel a game between the payment on chain and its first record (`refund.ts:168`).
- A withdrawal retried after its entry was posted is refused by the balance check, which comes before
  the idempotency key, when the entry itself took the account below its amount; its row and its
  reservation then stay (`ledger.ts:127`, against `reconciler.ts:38-40`).
- `releaseReservation` may undo a reservation made between its read and its write, and a withdrawal
  given back twice frees what others had reserved, the clamp at zero notwithstanding
  (`withdrawal.service.ts:320-338`).
- A sweep may mark a withdrawal FAILED that was confirmed after its query, and a confirmation that
  waited for the RPC node may mark an expired one SUBMITTED (`withdrawal.service.ts:371`, `:203`).
- The reconciler finds no deposit: a PENDING row never has a signature (`reconciler.ts:54`, against
  `deposit.service.ts:139`).
- `close_room` lowers the balance of a vault the System Program owns, which the runtime refuses, so a
  settled room is never closed; the entry record of a losing player stays `Locked` and cannot be
  closed either (`cleanup.rs:84`, `:129`).
- The index `lobby:player:{id}` expires before the roster does, so a second queue may admit a queued
  player; `archive-game` resets a tier and drops a queue that formed meanwhile (`service.ts:158`,
  `stages.ts:567`).
- Settlement debits an escrow row that nothing credits, so the row goes negative (`settle.ts:504`).
- A failed balance lookup of a game without a recorded pot completes it as one without stakes, and
  a settlement after that counts the match a second time on the leaderboard (`settle.ts:235`, `:640`).
- A cancelled match keeps its stakes in the vault until the players cancel the room themselves
  (`stages.ts:488`).
- With a funded escrow, a cancellation between the status check and the escrow read lets both the
  refunds and the prize post (`settle.ts:82`).
- A report that omits a payer is accepted, because the entrants are taken from it (`settle.ts:118`).
- A slower pass may write PENDING over CONFIRMED (`settle.ts:292`).

**Match cycle**

- `close-lobby` writes RUNNING whatever the status is, so a redelivery after the end revives the game
  (`stages.ts:373-376`, against "Every one is idempotent" at `:20-22`); a redelivery after the launch
  aborts the chain.
- A worker that stops during the refund loses it, and a job that fails for having stalled too often is
  no last attempt to `worker.ts:156`, so nothing is refunded.
- `ensureRooms` binds a game from a stale read; overlapping deliveries of `create-game` leave an orphaned
  PENDING game (`stages.ts:43`).
- `open-lobby` of the next window rebinds a queue that has paid into the last one's game;
  `archive-game` resets a tier whose next queue has formed (`stages.ts:567`).
- A match still being played when the attempts of `end-match` run out is cancelled (`stages.ts:479`).
- A queue may be bound to a game whose room `close-lobby` has sealed, by an `open-lobby` that a stalled worker delivers
  late, and `ensureRooms` passes over it; nobody in it can pay until a launch, the archive or the next `open-lobby`
  takes the game from the lobby.

**Sign-in**

- Two rotations of one refresh token at once both succeed (`auth.service.ts:445`); a page reloaded during
  a restore shows a revoked token next time and burns the family.
- Two changes of one account's status that overlap write their cut-offs in any order: when one captured its time
  first, was held up, and writes last, its older cut-off replaces the newer one, and an access token issued between
  the two, which has been refused, is accepted again (`auth.service.ts:498-519`, `players.routes.ts:230`).

**Placement and rooms**

- The bound path may split one game over two nodes (`match.routes.ts:215`, against `:200-203`); the staged
  path deletes the key it has just written.
- Nothing keeps the two keys of one player together (`lobbies.ts:84-100`): two launches that stage the same player at
  once, or one that does so between the two reads of the player's request (`match.routes.ts:152-179`), may leave one
  launch's ticket with the other's room and address. The ticket is then presented to a node it is not for, or its
  note names another room, and the player is refused inside the ticket's lifetime.
- A reconnect more than thirty seconds after the ticket is refused, because `verifyTicket` checks the
  expiry first (`authenticate.ts:39-57`, against `:114-128`); staged tickets live sixty seconds and
  their claims thirty.
- A node at its cap of rooms counts as unhealthy (`strategy.ts:44`), so the pointer to its open match is
  overwritten as if it named "a dead node" and the tier is split over two worlds
  (`match.routes.ts:249`, against `:281-282`). `WorldIsShared` therefore speaks of the time no node is
  full, which is the exception `RoomToSpare` makes.
- `aliveCount` counts dead snakes that are still watching, so a room with one survivor goes on
  (`room.ts:543`, against `:67-76`); a room with one player is never reaped.
- The late disconnect of a socket that was replaced marks, and after the grace evicts, the seat of the
  new one (`room.ts:189`).
- A result is lost when the room is reaped while its write fails; a room made again under an id may
  report a second one.
- The server accepts a respawn in a match whose overlay calls elimination final.

**Simulation and the game page**

- Points of a spine are not evenly spaced (`simulation.ts:390-391`, "so the body keeps even spacing
  regardless of speed"): at the default tick rate a boosted tick is longer than `SEGMENT_SPACING`, points
  then lie a tick's travel apart, and the excess that has added up makes the next ticks at base speed
  push a point each. `SpineIsPath` bounds a gap by a spacing and a tick's travel.
- The mass of a dead snake is scattered at its death and again at its removal; the query for bodies
  reaches the head's radius and forty units and misses thicker bodies (`simulation.ts:486`).
- Sequence numbers start again on a reload while the snake remembers the old ones, so inputs are ignored
  (`simulation.ts:347`); an honest client's buffered inputs after a reconnect are held against it
  (`validators.ts:63`).
- The decoder's origin may not be the encoder's (`engine.ts:185`); a lost `Died` followed by `Joined` leaves
  the page believing that its snake lives (`engine.ts:176`); a view stays frozen when a room made
  again has an earlier clock (`interpolation.ts:62`); the ping timer is not restarted.
- `removedFood` carries the ids of snakes that left (`room.ts:394-397`).
- `connectionStateRecovery` is configured (`docs/NETWORKING.md:114-119`), but the Redis adapter in use does
  not support it.

**Solana client, entry fee, panel**

- `createDistributeWinningsInstruction` passes the treasury where the program wants
  `config.fee_destination` (`instructions.ts:427`, against `settle.rs:89-91`). Nothing calls it, and
  `CallsFitProgram` speaks of the calls that are made.
- Two calls that fail at once advance the shared endpoint index twice. When the answer to a send is lost,
  the rebuilt transaction may land beside the first, and a transaction that landed may be answered as
  an error.
- An ordinary failure that arrives late re-opens a half-open breaker with a stale time, so a second
  probe may start; a success closes it while open; a comment and a test say that a success does not
  clear the history, and it does (`:124-127`). No code uses the breaker.
- `value.err` of `confirmTransaction` is ignored, so a failed payment shows as paid; a countdown that starts
  again clears `paidFor`, so one game may be asked for twice (against "this one never twice",
  `use-entry-fee.ts:51`); the end of an older payment sets the status of a newer one.
- Without an account `pay` fails at once and leaves the guard on the game (`use-entry-fee.ts:60-64`), so connecting the
  wallet does not ask; the button or the next countdown does. After any other failure the guard is off and a change of
  the wallet, which makes `pay` a new function, asks again by itself (`:163`).
- A failed ticket request is repeated every second (against `use-match-launch.ts:98-100`); the claim of
  `playNow` is dropped by the next render.
- A page that dies between signing and confirming leaves a row without a signature, which the reconciler
  does not find (against `use-custody.ts:143-147`); a withdrawal signed after its intent expired is
  refused at the confirmation and the ledger is not debited.

**Administration**

- An adjustment may take an account below its reservation, and the treasury below zero; a second
  correction with the same player, amount and reason counts as the first; `alreadyApplied` answers the
  amount that was asked for.
- `GET /admin/games` with `unaccountedOnly` skips rows when a scan ends inside a page
  (`games.routes.ts:155-168`); lists sorted by an aggregate are not stable under a cursor; claiming a
  reward marks it CLAIMED and moves no money.

## Only model-checked, and not modelled

Every safety property the runs check, invariant or action property, is stated by a theorem. TLC alone
checks **liveness**, on the instances above, because TLAPS does not reason about fairness or ENABLED:
`StakeComesBack` (arena), `NeverStuck` (lobby), `WithdrawalEnds` (custody), `ReportIsHonoured`
(settlement), `RunningEnds`, `QueuedCanPay` (cycle), `LockoutEnds`, `SeatIsTaken` (access), `LiveNodeListed`, `RoomFinishes` (node), `LeavingFreesSeat` (play) and `Recovers` (solana).

The theorems speak of each component by itself. What one component assumes of another (that the lobby
asks the chain who has paid, that settlement is one step of the cycle) is part of the models and is
not proved.

Not modelled as components:

- **Match wallets and funds checks**: they read balances and vaults and decide nothing that is kept; the
  payment check the lobby makes is part of `LobbyService`.
- **Database schema**: declarations. The unique keys the code relies on appear in the actions that
  meet them.
- **Shared infrastructure**: configuration, logging, metrics and connection set-up.

Left out of components that are modelled in part:

- floating-point geometry: positions, angles and the movement validator (`movement.ts`); the area of
  interest (`aoi.ts`) decides which pellets a viewer is sent. TLC has no real numbers, and a grid
  coarse enough to explore would not decide what the floats decide;
- the byte layouts of `encode.ts` and the log formats of `parse.ts` in the Solana client, and the
  schema declarations of `packages/protocol` (`rest.ts`, `admin.ts`, `schemas.ts`);
- rendering, layout and read-only pages of the web client, and routes that read and format or write
  one row;
- `consumeReservations`, which has no caller;
- in settlement, the weights below first place, the plausibility checks of a report, and the expiry
  of a result after a day.

## Plan

Done: `Sums`, `ArenaProgram` and its proofs, refined to `Escrow`; `Lobby`, `LobbyService`;
`MatchSettlement`; `MatchCycle`; `CustodyFunds`, `BackOffice`; `AuthService`, `WebSession`,
`MatchLaunch`; `Placement`, `RealtimeRoom`; `Simulation`, `SpatialHash`, `AdmissionGuards`, `WireProtocol`,
`GameClient`; `ArenaClient`, `TxPipeline`, `CircuitBreaker`, `EntryFee`, `CustodyPanel`.

Proved: the safety of each of them (`ImplementsEscrow`, the refinement, included), as the table under
[Proofs](#proofs) lists.

Left: liveness. A proof of `StakeComesBack` or `ReportIsHonoured` would need a prover that reasons about
fairness; the invariants above are what such a proof would rest on.
