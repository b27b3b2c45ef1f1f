------------------------------ MODULE Placement ------------------------------
(***************************************************************************)
(* How a player gets from the lobby onto a realtime node: the nodes'       *)
(* registry and its heartbeats, the matchmaker's placement and tickets,    *)
(* the launch that stages tickets, and the node's handshake.  Every await  *)
(* of a request is a step.  Times appear as the lapse of a key or of a     *)
(* ticket; what a node does with a seated player is module RealtimeRoom.   *)
(***************************************************************************)
EXTENDS Integers, FiniteSets

CONSTANTS Clients, Nodes,
          MaxRoomsPerNode,
          Strategy,      \* PLACEMENT_STRATEGY
          InRegion,      \* the nodes of the request's region
          MaxPlacements, \* calls of POST /matchmake
          MaxLaunches,   \* countdowns that expire
          MaxLapses      \* keys that expire, nodes that stop, calls that fail

ASSUME PlacementConstants ==
  /\ MaxRoomsPerNode \in Nat \ {0} /\ InRegion \subseteq Nodes
  /\ Strategy \in {"least-loaded", "best-fit", "region-affinity"}
  /\ {MaxPlacements, MaxLaunches, MaxLapses} \subseteq Nat

VARIABLES members,   \* the set cluster:nodes
          beat,      \* the keys cluster:node:<id>
          node,      \* the instances behind each node id
          openKey,   \* the key match:open:<tier>
          bound,     \* the tier's lobby has the game bound
          key,       \* the keys ticket:<player>, which the handshake spends
          meta,      \* the keys ticket:meta:<player> of a launch
          launch,    \* the launches, each on the ticker that saw its countdown expire
          note,      \* the reconnect rooms
          req,       \* POST /matchmake of each player
          hand,      \* the ticket each client holds, and the node it was told to go to
          shake,     \* the handshake of each player
          seat,      \* where each player is seated
          requests, lapses,
          crossed    \* players whose staging met another's, of no effect on the rest
cluster == <<members, beat, node>>
keys == <<openKey, bound, key, meta, launch, note>>
placeVars == <<members, beat, node, openKey, bound, key, meta, launch, note, req, hand, shake,
          seat, requests, lapses, crossed>>

Nothing == [none |-> TRUE]
GameRoom == 0                     \* the room id derived from the bound game
WorldRooms == 1..MaxPlacements    \* random ids, one per request
LaunchRooms == (-MaxLaunches)..GameRoom   \* of the bound game, or of another a launch has
OldRooms == (-MaxLaunches - MaxRoomsPerNode)..(-MaxLaunches - 1)   \* hosted from the start
PlacedRooms == OldRooms \cup LaunchRooms \cup WorldRooms
Launches == 1..MaxLaunches
Ticket == [room : PlacedRooms, node : Nodes, fresh : BOOLEAN]
Seat == [room : PlacedRooms, node : Nodes]
NoPlacement == [pc |-> "idle", ids |-> {}, healthy |-> {}, node |-> Nothing, ticket |-> Nothing,
                staged |-> Nothing]
NoLaunch == [step |-> "none", room |-> GameRoom, node |-> Nothing, todo |-> {}, player |-> Nothing]

\* The fleet is up and has registered; rooms may have opened since a node's
\* last beat.
PlaceInit ==
  /\ members = Nodes /\ beat = [n \in Nodes |-> [rooms |-> 0, draining |-> FALSE]]
  /\ node \in [Nodes -> [live : {TRUE}, leaving : {0}, rooms : SUBSET OldRooms]]
  /\ openKey = Nothing /\ bound \in BOOLEAN
  /\ key = [p \in Clients |-> Nothing] /\ meta = [p \in Clients |-> Nothing]
  /\ note = [p \in Clients |-> Nothing]
  /\ req = [p \in Clients |-> NoPlacement] /\ hand = [p \in Clients |-> Nothing]
  /\ shake = [p \in Clients |-> "idle"] /\ seat = [p \in Clients |-> Nothing]
  /\ launch = [l \in Launches |-> NoLaunch]
  /\ requests = 0 /\ lapses = 0 /\ crossed = {}

KeyLapses == lapses < MaxLapses /\ lapses' = lapses + 1

-----------------------------------------------------------------------------
(* The registry *)

payload(n, draining) == [rooms |-> Cardinality(node[n].rooms), draining |-> draining]

register(n) ==
  /\ ~node[n].live
  /\ node' = [node EXCEPT ![n].live = TRUE, ![n].rooms = {}]
  /\ members' = members \cup {n}
  /\ beat' = [beat EXCEPT ![n] = [rooms |-> 0, draining |-> FALSE]]
  /\ UNCHANGED <<keys, req, hand, shake, seat, requests, lapses>>

heartbeatKeyOnly(n) ==  \* mutant: the set is written at startup only
  /\ node[n].live
  /\ beat' = [beat EXCEPT ![n] = payload(n, FALSE)]
  /\ UNCHANGED <<members, node, keys, req, hand, shake, seat, requests, lapses>>

startHeartbeat(n) ==
  /\ node[n].live
  /\ members' = members \cup {n}
  /\ beat' = [beat EXCEPT ![n] = payload(n, FALSE)]
  /\ UNCHANGED <<node, keys, req, hand, shake, seat, requests, lapses>>

\* A rolling deploy: the outgoing instance drains while a new one registers
\* under the same id.  A drain closes the outgoing instance's rooms.
beginDrain(n) ==
  /\ KeyLapses
  /\ node[n].live /\ node[n].leaving = 0
  /\ node' = [node EXCEPT ![n].live = FALSE, ![n].leaving = 1, ![n].rooms = {}]
  /\ seat' = [p \in Clients |-> IF seat[p] # Nothing /\ seat[p].node = n THEN Nothing ELSE seat[p]]
  /\ UNCHANGED <<members, beat, keys, req, hand, shake, requests>>

\* deregister, markDraining, and deregister again.
drainNode(n) ==
  /\ node[n].leaving > 0
  /\ node' = [node EXCEPT ![n].leaving = (@ + 1) % 4]
  /\ IF node[n].leaving = 2
       THEN beat' = [beat EXCEPT ![n] = payload(n, TRUE)] /\ UNCHANGED members
       ELSE beat' = [beat EXCEPT ![n] = Nothing] /\ members' = members \ {n}
  /\ UNCHANGED <<keys, req, hand, shake, seat, requests, lapses>>

\* A node stops without draining, or misses its beats until its key expires.
NodeCrash(n) ==
  /\ KeyLapses
  /\ node[n].live
  /\ node' = [node EXCEPT ![n].live = FALSE, ![n].rooms = {}]
  /\ seat' = [p \in Clients |-> IF seat[p] # Nothing /\ seat[p].node = n THEN Nothing ELSE seat[p]]
  /\ UNCHANGED <<members, beat, keys, req, hand, shake, requests>>

BeatExpires(n) ==
  /\ KeyLapses
  /\ beat[n] # Nothing /\ beat' = [beat EXCEPT ![n] = Nothing]
  /\ UNCHANGED <<members, node, keys, req, hand, shake, seat, requests>>

-----------------------------------------------------------------------------
(* Placement *)

filterHealthy(ids) ==
  {n \in ids : beat[n] # Nothing /\ ~beat[n].draining /\ beat[n].rooms < MaxRoomsPerNode}

\* Saturation is the share of the room cap in use; 85% is the budget.
selectPlacement(healthy) ==
  LET near == healthy \cap InRegion
      pool == IF Strategy = "region-affinity" \/ near # {} THEN near ELSE healthy
      usable == {n \in pool : 100 * beat[n].rooms < 85 * MaxRoomsPerNode}
      final == IF usable # {} THEN usable ELSE pool
      ahead(n, m) == IF Strategy = "least-loaded" THEN beat[n].rooms <= beat[m].rooms
                                                  ELSE beat[n].rooms >= beat[m].rooms
  IN  {n \in final : \A m \in final : ahead(n, m)}

Ready(p, pc) == req[p].pc = pc
Go(p, pc) == req' = [req EXCEPT ![p].pc = pc]

\* The client asks once and keeps the ticket it gets while that is valid.  The
\* random room id of the request is its number.
matchmake(p) ==
  /\ Ready(p, "idle") /\ req[p].ids = {} /\ requests < MaxPlacements
  /\ seat[p] = Nothing /\ shake[p] = "idle" /\ (hand[p] # Nothing => ~hand[p].fresh)
  /\ requests' = requests + 1
  /\ req' = [req EXCEPT ![p] = [NoPlacement EXCEPT !.pc = "nodes",
                                 !.ticket = [room |-> requests + 1]]]
  /\ hand' = [hand EXCEPT ![p] = Nothing]
  /\ UNCHANGED <<cluster, keys, shake, seat, lapses>>

\* loadNodes: the ids, then their keys; ids without one are dropped from the
\* set without waiting.  No healthy node or no decision answers 503.
loadNodes(p) ==
  /\ Ready(p, "nodes")
  /\ req' = [req EXCEPT ![p].ids = members, ![p].pc = "payloads"]
  /\ UNCHANGED <<cluster, keys, hand, shake, seat, requests, lapses>>

parseNodePayload(p) ==
  LET healthy == filterHealthy(req[p].ids)
      dead == {n \in req[p].ids : beat[n] = Nothing}
  IN
  /\ Ready(p, "payloads")
  /\ IF selectPlacement(healthy) = {}
       THEN req' = [req EXCEPT ![p] = [NoPlacement EXCEPT !.ids = dead]]
       ELSE \E n \in selectPlacement(healthy) :
              req' = [req EXCEPT ![p].pc = "staged", ![p].healthy = healthy,
                                 ![p].node = n, ![p].ids = dead]
  /\ UNCHANGED <<cluster, keys, hand, shake, seat, requests, lapses>>

\* The node may have come back since its key was read.
PruneDead(p) ==
  /\ req[p].pc \notin {"nodes", "payloads"} /\ req[p].ids # {}
  /\ members' = members \ req[p].ids
  /\ req' = [req EXCEPT ![p].ids = {}]
  /\ UNCHANGED <<beat, node, keys, hand, shake, seat, requests, lapses>>

\* A launch staged a seat for this player: its meta key is read, then the
\* ticket, and only with both is that ticket handed out.
TakeStaged(p) ==
  /\ Ready(p, "staged")
  /\ req' = [req EXCEPT ![p].pc = IF meta[p] # Nothing THEN "issued" ELSE "bound", ![p].staged = meta[p]]
  /\ UNCHANGED <<cluster, keys, hand, shake, seat, requests, lapses>>

TakeIssued(p) ==
  /\ Ready(p, "issued")
  /\ req' = [req EXCEPT ![p].pc = IF key[p] # Nothing THEN "restage" ELSE "bound",
                        ![p].ticket = IF key[p] # Nothing THEN key[p] ELSE @,
                        ![p].staged = IF key[p] # Nothing THEN @ ELSE Nothing]
  /\ UNCHANGED <<cluster, keys, hand, shake, seat, requests, lapses>>

WriteKey(p, t) == key' = [key EXCEPT ![p] = t]

Restage(p) ==
  /\ Ready(p, "restage")
  /\ WriteKey(p, req[p].ticket) /\ Go(p, "note-staged")
  /\ UNCHANGED <<cluster, openKey, bound, meta, launch, note, hand, shake, seat, requests, lapses>>

\* The two keys the launch staged; the ticket's is the one just written.
DropStaged(p) ==
  /\ Ready(p, "drop")
  /\ meta' = [meta EXCEPT ![p] = Nothing] /\ WriteKey(p, Nothing)
  /\ Go(p, "answer")
  /\ UNCHANGED <<cluster, openKey, bound, launch, note, hand, shake, seat, requests, lapses>>

\* The lobby's game, when it has one; the node is this request's own decision.
BoundGame(p) ==
  /\ Ready(p, "bound")
  /\ req' = [req EXCEPT ![p].pc = IF bound THEN "mint" ELSE "open",
                        ![p].ticket = IF bound THEN [room |-> GameRoom, node |-> req[p].node, fresh |-> TRUE]
                                      ELSE @]
  /\ UNCHANGED <<cluster, keys, hand, shake, seat, requests, lapses>>

Shared(p, o) == [room |-> o.room, node |-> o.node, fresh |-> TRUE]
Candidate(p) == [room |-> req[p].ticket.room, node |-> req[p].node]
Adopt(p, o) == req' = [req EXCEPT ![p].pc = "mint", ![p].ticket = Shared(p, o)]

\* The tier's open world, unless its node is gone.
ReadOpen(p) ==
  /\ Ready(p, "open")
  /\ IF openKey # Nothing /\ openKey.node \in req[p].healthy THEN Adopt(p, openKey) ELSE Go(p, "claim")
  /\ UNCHANGED <<cluster, keys, hand, shake, seat, requests, lapses>>

claimOpen(p) ==
  /\ Ready(p, "claim")
  /\ IF openKey = Nothing THEN openKey' = Candidate(p) /\ Adopt(p, Candidate(p))
     ELSE UNCHANGED openKey /\ Go(p, "raced")
  /\ UNCHANGED <<cluster, bound, key, meta, launch, note, hand, shake, seat, requests, lapses>>

ReadRaced(p) ==
  /\ Ready(p, "raced")
  /\ IF openKey # Nothing /\ openKey.node \in req[p].healthy THEN Adopt(p, openKey) ELSE Go(p, "overwrite")
  /\ UNCHANGED <<cluster, keys, hand, shake, seat, requests, lapses>>

OverwriteOpen(p) ==
  /\ Ready(p, "overwrite")
  /\ openKey' = Candidate(p) /\ Adopt(p, Candidate(p))
  /\ UNCHANGED <<cluster, bound, key, meta, launch, note, hand, shake, seat, requests, lapses>>

mintTicket(p) ==
  /\ Ready(p, "mint")
  /\ WriteKey(p, req[p].ticket) /\ Go(p, "note")
  /\ UNCHANGED <<cluster, openKey, bound, meta, launch, note, hand, shake, seat, requests, lapses>>

NoteStep(p) == Go(p, IF Ready(p, "note") THEN "answer" ELSE "drop")

noteLater(p) ==  \* mutant: the note is left to the first handshake
  /\ req[p].pc \in {"note", "note-staged"}
  /\ NoteStep(p) /\ UNCHANGED <<note, lapses>>
  /\ UNCHANGED <<cluster, openKey, bound, key, meta, launch, hand, shake, seat, requests>>

\* The staged path notes the room its meta key names, the others their own
\* ticket's.  Best effort: a failed write costs a reconnect.
noteReconnectRoom(p) ==
  /\ req[p].pc \in {"note", "note-staged"}
  /\ \/ /\ note' = [note EXCEPT ![p] =
              [room |-> IF Ready(p, "note") THEN req[p].ticket.room ELSE req[p].staged.room]]
        /\ UNCHANGED lapses
     \/ KeyLapses /\ UNCHANGED note
  /\ NoteStep(p)
  /\ UNCHANGED <<cluster, openKey, bound, key, meta, launch, hand, shake, seat, requests>>

\* A staged ticket is answered with the address its meta key names.
Destination(r) == IF r.staged # Nothing THEN r.staged.node ELSE r.ticket.node

Handed(r) == [room |-> r.ticket.room, node |-> r.ticket.node, fresh |-> r.ticket.fresh,
              at |-> Destination(r)]

Answer(p) ==
  /\ Ready(p, "answer")
  /\ hand' = [hand EXCEPT ![p] = Handed(req[p])]
  /\ req' = [req EXCEPT ![p] = [NoPlacement EXCEPT !.ids = req[p].ids]]
  /\ UNCHANGED <<cluster, keys, shake, seat, requests, lapses>>

\* enterMatch leaves the queue without waiting, and so drops the keys.
leaveLobby(p) ==
  /\ hand[p] # Nothing /\ (key[p] # Nothing \/ meta[p] # Nothing)
  /\ key' = [key EXCEPT ![p] = Nothing] /\ meta' = [meta EXCEPT ![p] = Nothing]
  /\ UNCHANGED <<cluster, openKey, bound, launch, note, req, hand, shake, seat, requests, lapses>>

-----------------------------------------------------------------------------
(* The launches.  A launch makes one placement and stages two keys for      *)
(* every player, one await after the other; then the lobby reopens without  *)
(* its game.  Two run at once when a lobby is launched twice, or when a     *)
(* player is in two queues, on the same ticker or on two.                   *)

LaunchAt(l, step) == launch[l].step = step

\* The countdown of the bound game's queue expires, or that of another: of a
\* lobby without a game, another tier's, or the next game's.  No healthy node
\* fails the launch.
launchQueue(l) ==
  LET nodes == selectPlacement(filterHealthy(members)) IN
  /\ LaunchAt(l, "none") /\ \A k \in 1..(l - 1) : ~LaunchAt(k, "none")
  /\ \E room \in {GameRoom, -l}, players \in SUBSET Clients \ {{}} :
       /\ room = GameRoom => bound
       /\ IF nodes = {}
            THEN launch' = [launch EXCEPT ![l].step = "reset", ![l].room = room]
            ELSE \E n \in nodes :
                   launch' = [launch EXCEPT ![l] = [step |-> "key", room |-> room, node |-> n,
                                                    todo |-> players, player |-> Nothing]]
  /\ UNCHANGED <<cluster, openKey, bound, key, meta, note, req, hand, shake, seat, requests, lapses>>

stageTicket(l) ==
  /\ LaunchAt(l, "key")
  /\ \E p \in launch[l].todo :
       /\ WriteKey(p, [room |-> launch[l].room, node |-> launch[l].node, fresh |-> TRUE])
       /\ launch' = [launch EXCEPT ![l].step = "meta", ![l].player = p, ![l].todo = @ \ {p}]
  /\ UNCHANGED <<cluster, openKey, bound, meta, note, req, hand, shake, seat, requests, lapses>>

stageMeta(l) ==
  /\ LaunchAt(l, "meta")
  /\ meta' = [meta EXCEPT ![launch[l].player] = [room |-> launch[l].room, node |-> launch[l].node]]
  /\ launch' = [launch EXCEPT ![l].step = IF launch[l].todo = {} THEN "reset" ELSE "key"]
  /\ UNCHANGED <<cluster, openKey, bound, key, note, req, hand, shake, seat, requests, lapses>>

\* A write throws: the players not staged yet get nothing.
launchThrows(l) ==
  /\ KeyLapses
  /\ launch[l].step \in {"key", "meta"}
  /\ launch' = [launch EXCEPT ![l].step = "reset"]
  /\ UNCHANGED <<cluster, openKey, bound, key, meta, note, req, hand, shake, seat, requests>>

\* Launched or failed, the lobby is reset, and with it its game.
resetLobby(l) ==
  /\ LaunchAt(l, "reset")
  /\ bound' = (bound /\ launch[l].room # GameRoom)
  /\ launch' = [launch EXCEPT ![l] = [NoLaunch EXCEPT !.step = "done"]]
  /\ UNCHANGED <<cluster, openKey, key, meta, note, req, hand, shake, seat, requests, lapses>>

-----------------------------------------------------------------------------
(* The handshake *)

verifyTicket(t, n) == t.node = n

\* A ticket for another node is refused before any key; one that has expired
\* is not presented.
authenticateSocket(p) ==
  /\ shake[p] = "idle" /\ seat[p] = Nothing /\ hand[p] # Nothing /\ hand[p].fresh
  /\ node[hand[p].at].live
  /\ IF verifyTicket(hand[p], hand[p].at)
       THEN /\ shake' = [shake EXCEPT ![p] = IF key[p] # Nothing THEN "admit" ELSE "spent"]
            /\ WriteKey(p, Nothing)
       ELSE shake' = [shake EXCEPT ![p] = "refused"] /\ UNCHANGED key
  /\ UNCHANGED <<cluster, openKey, bound, meta, launch, note, req, hand, seat, requests, lapses>>

\* Spent: only the room the note names lets the player back in.
reconnectRoom(p) ==
  /\ shake[p] = "spent"
  /\ shake' = [shake EXCEPT ![p] = IF note[p] = [room |-> hand[p].room] THEN "admit" ELSE "refused"]
  /\ UNCHANGED <<cluster, keys, req, hand, seat, requests, lapses>>

\* The note is refreshed; the connection handler makes the room if it can.
hostRoom(p) ==
  LET n == hand[p].node IN
  /\ shake[p] = "admit"
  /\ note' = [note EXCEPT ![p] = [room |-> hand[p].room]]
  /\ IF node[n].live /\ (hand[p].room \in node[n].rooms \/ Cardinality(node[n].rooms) < MaxRoomsPerNode)
       THEN /\ node' = [node EXCEPT ![n].rooms = @ \cup {hand[p].room}]
            /\ seat' = [seat EXCEPT ![p] = [room |-> hand[p].room, node |-> n]]
       ELSE UNCHANGED <<node, seat>>
  /\ shake' = [shake EXCEPT ![p] = "idle"]
  /\ UNCHANGED <<members, beat, openKey, bound, key, meta, launch, req, hand, requests, lapses>>

\* The player leaves, or drops and is not held a seat any more.
Unseat(p) ==
  /\ seat[p] # Nothing
  /\ seat' = [seat EXCEPT ![p] = Nothing]
  /\ hand' = [hand EXCEPT ![p] = Nothing]
  /\ UNCHANGED <<cluster, keys, req, shake, requests, lapses>>

-----------------------------------------------------------------------------
(* Time *)

Stale(t) == IF t = Nothing THEN Nothing ELSE [t EXCEPT !.fresh = FALSE]

\* A staged ticket lapses before the keys that hold it; one that was minted
\* lapses with its key.
TicketExpires(p) ==
  /\ KeyLapses
  /\ \/ /\ hand[p] # Nothing /\ hand[p].fresh
        /\ hand' = [hand EXCEPT ![p] = Stale(@)] /\ WriteKey(p, Nothing) /\ UNCHANGED meta
     \/ /\ hand[p] = Nothing /\ meta[p] # Nothing /\ key[p] # Nothing /\ key[p].fresh
        /\ WriteKey(p, Stale(key[p])) /\ UNCHANGED <<hand, meta>>
     \/ /\ hand[p] = Nothing /\ meta[p] # Nothing /\ key[p] # Nothing /\ ~key[p].fresh
        /\ meta' = [meta EXCEPT ![p] = Nothing] /\ WriteKey(p, Nothing) /\ UNCHANGED hand
  /\ UNCHANGED <<cluster, openKey, bound, launch, note, req, shake, seat, requests>>

OpenExpires ==
  /\ KeyLapses
  /\ openKey # Nothing /\ openKey' = Nothing
  /\ UNCHANGED <<cluster, bound, key, meta, launch, note, req, hand, shake, seat, requests>>

-----------------------------------------------------------------------------
MatchmakeStep(p) ==
  \/ loadNodes(p) \/ parseNodePayload(p) \/ PruneDead(p)
  \/ TakeStaged(p) \/ TakeIssued(p) \/ Restage(p)
  \/ DropStaged(p) \/ BoundGame(p) \/ ReadOpen(p) \/ claimOpen(p) \/ ReadRaced(p)
  \/ OverwriteOpen(p) \/ mintTicket(p) \/ noteReconnectRoom(p) \/ Answer(p)

HandshakeStep(p) == reconnectRoom(p) \/ hostRoom(p)

LaunchStep(l) ==
  launchQueue(l) \/ stageTicket(l) \/ stageMeta(l) \/ launchThrows(l) \/ resetLobby(l)

\* A launch is between its two writes for p.
Staging(p) == {l \in Launches : LaunchAt(l, "meta") /\ launch[l].player = p}

\* Two launches are between their two writes for p, or one is while p's
\* request is between its two reads.
Crossing(p) ==
  \E l \in Staging(p) : Ready(p, "issued") \/ \E k \in Staging(p) : k # l

Watch == crossed' = crossed \cup {p \in Clients : Crossing(p)'}

PlaceNext ==
  /\ \/ \E p \in Clients : \/ matchmake(p) \/ MatchmakeStep(p) \/ leaveLobby(p)
                           \/ authenticateSocket(p) \/ HandshakeStep(p)
                           \/ Unseat(p) \/ TicketExpires(p)
     \/ \E n \in Nodes : register(n) \/ startHeartbeat(n) \/ beginDrain(n) \/ drainNode(n)
                         \/ NodeCrash(n) \/ BeatExpires(n)
     \/ \E l \in Launches : LaunchStep(l)
     \/ OpenExpires
  /\ Watch

\* The heartbeat's timer fires, and a drain that began goes on.
PlaceFairness ==
  \A n \in Nodes : WF_placeVars(startHeartbeat(n) /\ Watch) /\ WF_placeVars(drainNode(n) /\ Watch)

PlaceSpec == PlaceInit /\ [][PlaceNext]_placeVars /\ PlaceFairness

-----------------------------------------------------------------------------
(* Properties *)

PlaceTypeOK ==
  /\ members \subseteq Nodes
  /\ \A n \in Nodes : /\ node[n].live \in BOOLEAN /\ node[n].leaving \in 0..3
                      /\ node[n].rooms \subseteq PlacedRooms
                      /\ Cardinality(node[n].rooms) <= MaxRoomsPerNode
  /\ openKey \in Seat \cup {Nothing}
  /\ \A p \in Clients : /\ key[p] \in Ticket \cup {Nothing}
                        /\ {meta[p], seat[p]} \subseteq Seat \cup {Nothing}
                        /\ hand[p] # Nothing => hand[p].room \in PlacedRooms /\ hand[p].at \in Nodes

\* A ticket in its lifetime opens the door: whatever leaveLobby, the staged
\* path, launches and an earlier handshake wrote and deleted, the spent key or
\* the reconnect note admits it, at the node the player was sent to
\* (noteReconnectRoom, written when the ticket is minted and not when it is
\* used), while no key lapsed and no write failed.  Nothing keeps the two keys
\* of one player together, so only a player whose staging met another launch's,
\* or the player's own reads, may hold one launch's ticket with the room and
\* the address of another, and be refused.
TicketAdmits ==
  lapses = 0 => \A p \in Clients : shake[p] = "refused" => p \in crossed

\* Players who enter an unranked tier share one world: while no pointer
\* expires, no node is lost and none is full, every ticket minted for it names
\* one room on one node, however the requests overlap (claimOpen's NX,
\* ReadRaced).  A full node counts as gone: its world is given up for another.
RoomToSpare == \A n \in Nodes : Cardinality(node[n].rooms) < MaxRoomsPerNode

WorldIsShared ==
  lapses = 0 /\ RoomToSpare => \A p, q \in Clients :
    /\ hand[p] # Nothing /\ hand[q] # Nothing
    /\ hand[p].room \in WorldRooms /\ hand[q].room \in WorldRooms
    => hand[p].room = hand[q].room /\ hand[p].node = hand[q].node

\* However placements, launches, handshakes and deploys overlap, a ticket in
\* its lifetime admits and an unranked tier shares one world (matchmake,
\* authenticate).
PlaceInv == PlaceTypeOK /\ TicketAdmits /\ WorldIsShared

\* A node that is up is found again: neither the outgoing instance of a
\* rolling deploy, deregistering the id they share, nor a request that prunes
\* an id whose key it read as missing hides it for good (startHeartbeat).
LiveNodeListed ==
  \A n \in Nodes : []<>(node[n].live => n \in filterHealthy(members) \cup
                          {m \in Nodes : beat[m] # Nothing /\ beat[m].rooms >= MaxRoomsPerNode})
=============================================================================
