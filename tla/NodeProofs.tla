------------------------------ MODULE NodeProofs ------------------------------
(***************************************************************************)
(* Proofs about the realtime nodes.  Placement, for any players, nodes,    *)
(* room caps, strategies, launches and lapses: the inductive invariant     *)
(* TInv of the tickets, the launches and the nodes, with FreshInv and DInv *)
(* for the doors a ticket opens and WInv for the world a tier shares, and  *)
(* PlaceInv, which follows from them.                                      *)
(* RealtimeRoom, for any players, seats, grace, sockets and failed writes: *)
(* MatchInv, and ResultInv, which follows from it.                         *)
(* MatchCycle, for any number of windows, workers, games and faults: the   *)
(* inductive invariant GInv and CycleInv, which follows from it.           *)
(***************************************************************************)
EXTENDS Placement, RealtimeRoom, MatchCycle, SumsProofs

(***************************************************************************)
(* What is known of nodes, keys and players.                               *)
(***************************************************************************)
Beat == [rooms : Nat, draining : BOOLEAN]
Instance == [live : BOOLEAN, leaving : 0..3, rooms : SUBSET PlacedRooms]
Note == [room : PlacedRooms]
Held == [room : PlacedRooms, node : Nodes, fresh : BOOLEAN, at : Nodes]
Launching == [step : {"none", "key", "meta", "reset", "done"}, room : LaunchRooms,
              node : Nodes \cup {Nothing}, todo : SUBSET Clients, player : Clients \cup {Nothing}]

(* The room of a request that is still choosing is its own number; from    *)
(* then on it carries the ticket it will answer.  What it read of a launch *)
(* it keeps only while it hands out that launch's ticket.                  *)
Choosing == {"nodes", "payloads", "staged", "issued", "bound", "open", "claim", "raced",
             "overwrite"}
Ticketed == {"restage", "note-staged", "drop", "mint", "note", "answer"}

WithStaged == {"issued", "restage", "note-staged", "drop"}
Unstaged == {"nodes", "payloads", "staged", "bound", "open", "claim", "raced", "overwrite", "mint",
             "note"}

Placing == [pc : {"idle"} \cup Choosing \cup Ticketed, ids : SUBSET Nodes,
            healthy : SUBSET Nodes, node : Nodes \cup {Nothing},
            ticket : Ticket \cup Note \cup {Nothing}, staged : Seat \cup {Nothing}]

RequestInv(r) ==
  /\ r.pc \in Choosing => r.ticket \in Note /\ r.ticket.room \in WorldRooms
  /\ r.pc \in Ticketed => r.ticket \in Ticket
  /\ r.pc \notin {"idle", "nodes", "payloads"} => r.node \in Nodes
  /\ r.pc \in WithStaged => r.staged \in Seat
  /\ r.pc \in Unstaged => r.staged = Nothing

NodesInv ==
  /\ members \subseteq Nodes
  /\ beat \in [Nodes -> Beat \cup {Nothing}]
  /\ node \in [Nodes -> Instance]
  /\ \A n \in Nodes : Cardinality(node[n].rooms) <= MaxRoomsPerNode

KeysInv ==
  /\ openKey \in Seat \cup {Nothing}
  /\ key \in [Clients -> Ticket \cup {Nothing}]
  /\ meta \in [Clients -> Seat \cup {Nothing}]
  /\ note \in [Clients -> Note \cup {Nothing}]

(* A launch that is staging has its node, and its player between the two   *)
(* writes.                                                                 *)
LaunchOK(s) ==
  /\ s.step \in {"key", "meta"} => s.node \in Nodes
  /\ s.step = "meta" => s.player \in Clients

LaunchesInv == launch \in [Launches -> Launching] /\ \A l \in Launches : LaunchOK(launch[l])

(* A player who is asking holds no ticket, and one at the door holds a     *)
(* ticket and no seat; whoever has a seat holds a ticket.                  *)
PlayersInv ==
  /\ req \in [Clients -> Placing]
  /\ \A p \in Clients : RequestInv(req[p])
  /\ hand \in [Clients -> Held \cup {Nothing}]
  /\ shake \in [Clients -> {"idle", "admit", "spent", "refused"}]
  /\ seat \in [Clients -> Seat \cup {Nothing}]
  /\ \A p \in Clients : /\ req[p].pc # "idle" => hand[p] = Nothing
                        /\ shake[p] # "idle" => hand[p] # Nothing /\ seat[p] = Nothing
                        /\ hand[p] = Nothing => seat[p] = Nothing

CountsInv == requests \in 0..MaxPlacements /\ lapses \in Nat

TInv == NodesInv /\ KeysInv /\ LaunchesInv /\ PlayersInv /\ CountsInv

(***************************************************************************)
(* The constants and the helpers.                                          *)
(***************************************************************************)
LEMMA PlaceConstants ==
  /\ MaxRoomsPerNode \in Nat /\ MaxRoomsPerNode >= 1
  /\ MaxPlacements \in Nat /\ MaxLaunches \in Nat /\ MaxLapses \in Nat /\ InRegion \subseteq Nodes
BY PlacementConstants

LEMMA RoomRanges ==
  /\ PlacedRooms = (-MaxLaunches - MaxRoomsPerNode)..MaxPlacements
  /\ LaunchRooms \subseteq PlacedRooms /\ WorldRooms \subseteq PlacedRooms
  /\ OldRooms \subseteq PlacedRooms /\ LaunchRooms \cap WorldRooms = {}
  /\ GameRoom \in LaunchRooms /\ \A l \in Launches : -l \in LaunchRooms
BY PlaceConstants DEF PlacedRooms, LaunchRooms, WorldRooms, OldRooms, GameRoom, Launches

LEMMA OldRoomsFit ==
  ASSUME NEW R, R \subseteq OldRooms
  PROVE  R \subseteq PlacedRooms /\ Cardinality(R) <= MaxRoomsPerNode
<1> DEFINE a == -MaxLaunches - MaxRoomsPerNode
           b == -MaxLaunches - 1
<1>1. a \in Int /\ b \in Int /\ a <= b /\ b - a + 1 = MaxRoomsPerNode
  BY PlaceConstants
<1>2. IsFiniteSet(a..b) /\ Cardinality(a..b) = b - a + 1
  BY <1>1, FS_Interval
<1>3. IsFiniteSet(OldRooms) /\ Cardinality(OldRooms) = MaxRoomsPerNode
  BY <1>1, <1>2 DEF OldRooms
<1>4. Cardinality(R) <= Cardinality(OldRooms)
  BY <1>3, FS_Subset
<1>5. QED BY <1>3, <1>4, RoomRanges

LEMMA TicketIsSome == \A t \in Ticket : t # Nothing
BY DEF Ticket, Nothing

LEMMA HeldIsSome == \A t \in Held : t # Nothing
BY DEF Held, Nothing

LEMMA SeatIsSome == \A t \in Seat : t # Nothing
BY DEF Seat, Nothing

LEMMA BeatIsSome == \A t \in Beat : t # Nothing
BY DEF Beat, Nothing

(* A set of rooms is finite, and one more room adds at most one.           *)
LEMMA RoomsAreFinite ==
  ASSUME NEW R, R \subseteq PlacedRooms, NEW r, r \in PlacedRooms
  PROVE  /\ IsFiniteSet(R) /\ Cardinality(R) \in Nat
         /\ R \cup {r} \subseteq PlacedRooms
         /\ r \in R => R \cup {r} = R
         /\ r \notin R => Cardinality(R \cup {r}) = Cardinality(R) + 1
<1>1. IsFiniteSet(PlacedRooms)
  <2>1. -MaxLaunches - MaxRoomsPerNode \in Int /\ MaxPlacements \in Int
    BY PlaceConstants
  <2>2. QED BY <2>1, RoomRanges, FS_Interval
<1>2. IsFiniteSet(R)
  BY <1>1, FS_Subset
<1>3. Cardinality(R) \in Nat
  BY <1>2, FS_CardinalityType
<1>4. r \notin R => Cardinality(R \cup {r}) = Cardinality(R) + 1
  BY <1>2, FS_AddElement
<1>5. QED BY <1>2, <1>3, <1>4

LEMMA RoomsCount ==
  ASSUME NEW R, R \subseteq PlacedRooms
  PROVE  Cardinality(R) \in Nat
BY RoomsAreFinite, RoomRanges

LEMMA PayloadIsBeat ==
  ASSUME NodesInv, NEW n \in Nodes, NEW d \in BOOLEAN
  PROVE  /\ payload(n, d) \in Beat
         /\ payload(n, d).rooms = Cardinality(node[n].rooms)
         /\ payload(n, d).draining = d
<1>1. node[n].rooms \subseteq PlacedRooms
  BY DEF NodesInv, Instance
<1>2. Cardinality(node[n].rooms) \in Nat
  BY <1>1, RoomsCount
<1>3. QED BY <1>2 DEF payload, Beat

(* What is selected is one of the candidates.                              *)
LEMMA SelectedIsHealthy ==
  ASSUME NEW H PROVE selectPlacement(H) \subseteq H
BY DEF selectPlacement

LEMMA TInvInit == PlaceInit => TInv
<1> SUFFICES ASSUME PlaceInit PROVE TInv
  OBVIOUS
<1>1. NodesInv
  <2>1. members \subseteq Nodes /\ beat \in [Nodes -> Beat \cup {Nothing}]
    BY DEF PlaceInit, Beat
  <2>2. node \in [Nodes -> [live : {TRUE}, leaving : {0}, rooms : SUBSET OldRooms]]
    BY DEF PlaceInit
  <2>3. /\ node \in [Nodes -> Instance]
        /\ \A n \in Nodes : Cardinality(node[n].rooms) <= MaxRoomsPerNode
    <3> SUFFICES ASSUME NEW n \in Nodes
                 PROVE  node[n] \in Instance /\ Cardinality(node[n].rooms) <= MaxRoomsPerNode
      BY <2>2
    <3> DEFINE R == node[n].rooms
    <3>1. node[n] \in [live : {TRUE}, leaving : {0}, rooms : SUBSET OldRooms]
      BY <2>2
    <3>2. R \subseteq OldRooms
      BY <3>1
    <3>3. R \subseteq PlacedRooms /\ Cardinality(R) <= MaxRoomsPerNode
      BY <3>2, OldRoomsFit
    <3>4. 0 \in 0..3 /\ TRUE \in BOOLEAN
      OBVIOUS
    <3>5. QED BY <3>1, <3>3, <3>4 DEF Instance
  <2>4. QED BY <2>1, <2>2, <2>3 DEF NodesInv
<1>2. KeysInv /\ LaunchesInv
  <2>1. KeysInv
    BY DEF PlaceInit, KeysInv
  <2>2. NoLaunch \in Launching /\ NoLaunch.step = "none"
    BY RoomRanges DEF NoLaunch, Launching
  <2>3. launch = [l \in Launches |-> NoLaunch]
    BY DEF PlaceInit
  <2>4. QED BY <2>1, <2>2, <2>3 DEF LaunchesInv, LaunchOK
<1>3. PlayersInv
  <2>1. NoPlacement \in Placing /\ NoPlacement.pc = "idle"
    BY DEF NoPlacement, Placing
  <2>2. req \in [Clients -> Placing] /\ \A p \in Clients : req[p] = NoPlacement
    BY <2>1 DEF PlaceInit
  <2>3. \A p \in Clients : RequestInv(req[p])
    BY <2>1, <2>2 DEF RequestInv, Choosing, Ticketed, WithStaged, Unstaged
  <2>4. /\ hand \in [Clients -> Held \cup {Nothing}]
        /\ shake \in [Clients -> {"idle", "admit", "spent", "refused"}]
        /\ seat \in [Clients -> Seat \cup {Nothing}]
        /\ \A p \in Clients : shake[p] = "idle" /\ seat[p] = Nothing
    BY DEF PlaceInit
  <2>5. QED BY <2>1, <2>2, <2>3, <2>4 DEF PlayersInv
<1>4. CountsInv
  BY PlaceConstants DEF PlaceInit, CountsInv
<1>5. QED BY <1>1, <1>2, <1>3, <1>4 DEF TInv

(***************************************************************************)
(* The steps.  Most leave the nodes alone, or the keys, or the players.    *)
(***************************************************************************)
ClusterRests == UNCHANGED <<members, beat, node>>

LEMMA RequestsLeaveNodes ==
  ASSUME NEW p \in Clients,
         \/ matchmake(p) \/ loadNodes(p) \/ parseNodePayload(p) \/ TakeStaged(p) \/ TakeIssued(p)
         \/ Restage(p) \/ DropStaged(p) \/ BoundGame(p) \/ ReadOpen(p) \/ claimOpen(p) \/ ReadRaced(p)
         \/ OverwriteOpen(p) \/ mintTicket(p) \/ noteReconnectRoom(p) \/ Answer(p)
         \/ leaveLobby(p) \/ authenticateSocket(p) \/ reconnectRoom(p) \/ Unseat(p)
         \/ TicketExpires(p)
  PROVE  ClusterRests
<1>1. CASE matchmake(p) \/ loadNodes(p)
  BY <1>1 DEF ClusterRests, cluster, matchmake, loadNodes
<1>2. CASE parseNodePayload(p)
  <2>1. UNCHANGED <<cluster, keys, hand, shake, seat, requests, lapses>>
    BY <1>2, Zenon DEF parseNodePayload
  <2>2. QED BY <2>1 DEF ClusterRests, cluster
<1>3. CASE TakeStaged(p) \/ TakeIssued(p)
  BY <1>3, Zenon DEF ClusterRests, cluster, TakeStaged, TakeIssued
<1>4. CASE Restage(p) \/ DropStaged(p) \/ BoundGame(p) \/ ReadOpen(p) \/ claimOpen(p)
  BY <1>4 DEF ClusterRests, cluster, Restage, DropStaged, BoundGame, ReadOpen, claimOpen
<1>5. CASE ReadRaced(p) \/ OverwriteOpen(p) \/ mintTicket(p) \/ noteReconnectRoom(p) \/ Answer(p)
  BY <1>5 DEF ClusterRests, cluster, ReadRaced, OverwriteOpen, mintTicket, noteReconnectRoom,
              Answer
<1>6. CASE leaveLobby(p) \/ authenticateSocket(p) \/ reconnectRoom(p) \/ Unseat(p)
  BY <1>6 DEF ClusterRests, cluster, leaveLobby, authenticateSocket, reconnectRoom, Unseat
<1>7. CASE TicketExpires(p)
  BY <1>7 DEF ClusterRests, cluster, TicketExpires
<1>8. QED BY <1>1, <1>2, <1>3, <1>4, <1>5, <1>6, <1>7

LEMMA LaunchLeaves ==
  ASSUME NEW l \in Launches, LaunchStep(l)
  PROVE  /\ UNCHANGED <<members, beat, node, openKey, note, req, hand, shake, seat, requests>>
         /\ UNCHANGED lapses \/ KeyLapses
<1>1. CASE launchQueue(l) \/ stageTicket(l) \/ stageMeta(l)
  BY <1>1, Zenon DEF launchQueue, stageTicket, stageMeta, cluster
<1>2. CASE launchThrows(l) \/ resetLobby(l)
  BY <1>2, Zenon DEF launchThrows, resetLobby, cluster
<1>3. QED BY <1>1, <1>2 DEF LaunchStep

(* A node that is written keeps its type and its cap.                      *)
LEMMA NodeWritten ==
  ASSUME NodesInv, NEW n \in Nodes, NEW i \in Instance, node' = [node EXCEPT ![n] = i],
         Cardinality(i.rooms) <= MaxRoomsPerNode
  PROVE  /\ node' \in [Nodes -> Instance]
         /\ \A m \in Nodes : Cardinality(node'[m].rooms) <= MaxRoomsPerNode
BY DEF NodesInv

LEMMA HostsWithinCap ==
  ASSUME NodesInv, KeysInv, PlayersInv, NEW p \in Clients, hostRoom(p)
  PROVE  NodesInv'
<1> DEFINE n == hand[p].node
           r == hand[p].room
           i == [node[n] EXCEPT !.rooms = @ \cup {r}]
<1>1. hand[p] \in Held
  BY DEF hostRoom, PlayersInv
<1>2. n \in Nodes /\ r \in PlacedRooms
  BY <1>1 DEF Held
<1>3. CASE UNCHANGED node
  BY <1>3 DEF NodesInv, hostRoom
<1>4. CASE /\ r \in node[n].rooms \/ Cardinality(node[n].rooms) < MaxRoomsPerNode
           /\ node' = [node EXCEPT ![n].rooms = @ \cup {r}]
  <2>1. /\ node[n] \in Instance /\ node[n].rooms \subseteq PlacedRooms
        /\ Cardinality(node[n].rooms) <= MaxRoomsPerNode
    BY <1>2 DEF NodesInv, Instance
  <2>2. i \in Instance /\ i.rooms = node[n].rooms \cup {r}
    BY <1>2, <2>1 DEF Instance
  <2>3. Cardinality(i.rooms) <= MaxRoomsPerNode
    <3> DEFINE R == node[n].rooms
    <3>1. R \subseteq PlacedRooms /\ r \in PlacedRooms
      BY <1>2, <2>1
    <3>2. i.rooms = R \cup {r} /\ Cardinality(R) <= MaxRoomsPerNode
      BY <2>1, <2>2
    <3>3. r \in R \/ Cardinality(R) < MaxRoomsPerNode
      BY <1>4
    <3> HIDE DEF R, n, r, i
    <3>4. /\ Cardinality(R) \in Nat
          /\ r \in R => R \cup {r} = R
          /\ r \notin R => Cardinality(R \cup {r}) = Cardinality(R) + 1
      BY ONLY <3>1, RoomsAreFinite
    <3>5. CASE r \in R
      BY <3>2, <3>4, <3>5
    <3>6. CASE r \notin R
      BY <3>2, <3>3, <3>4, <3>6, PlaceConstants
    <3>7. QED BY <3>5, <3>6
  <2>4. node' = [node EXCEPT ![n] = i]
    BY <1>4
  <2> HIDE DEF i
  <2>5. /\ node' \in [Nodes -> Instance]
        /\ \A m \in Nodes : Cardinality(node'[m].rooms) <= MaxRoomsPerNode
    BY <1>2, <2>2, <2>3, <2>4, NodeWritten
  <2>6. UNCHANGED <<members, beat>>
    BY DEF hostRoom
  <2>7. QED BY <2>5, <2>6 DEF NodesInv
<1>5. QED BY <1>3, <1>4 DEF hostRoom

(* The registry's own actions.                                             *)
LEMMA RegistryKeepsNodes ==
  ASSUME NodesInv, NEW n \in Nodes,
         \/ register(n) \/ startHeartbeat(n) \/ beginDrain(n) \/ drainNode(n) \/ NodeCrash(n)
         \/ BeatExpires(n)
  PROVE  NodesInv'
<1>1. node[n] \in Instance /\ members \subseteq Nodes
      /\ beat \in [Nodes -> Beat \cup {Nothing}] /\ node \in [Nodes -> Instance]
  BY DEF NodesInv
<1>2. CASE register(n)
  <2> DEFINE i == [node[n] EXCEPT !.live = TRUE, !.rooms = {}]
  <2>1. i \in Instance /\ i.rooms = {}
    BY <1>1 DEF Instance
  <2>2. Cardinality(i.rooms) <= MaxRoomsPerNode
    BY <2>1, FS_EmptySet, PlaceConstants
  <2>3. node' = [node EXCEPT ![n] = i]
    BY <1>1, <1>2 DEF register, Instance
  <2> HIDE DEF i
  <2>4. /\ node' \in [Nodes -> Instance]
        /\ \A m \in Nodes : Cardinality(node'[m].rooms) <= MaxRoomsPerNode
    BY <2>1, <2>2, <2>3, NodeWritten
  <2>5. members' \subseteq Nodes /\ beat' \in [Nodes -> Beat \cup {Nothing}]
    BY <1>1, <1>2 DEF register, Beat
  <2>6. QED BY <2>4, <2>5 DEF NodesInv
<1>3. CASE startHeartbeat(n)
  <2>1. members' \subseteq Nodes /\ beat' \in [Nodes -> Beat \cup {Nothing}]
    BY <1>1, <1>3, PayloadIsBeat DEF startHeartbeat
  <2>2. UNCHANGED node
    BY <1>3 DEF startHeartbeat
  <2>3. QED BY <2>1, <2>2 DEF NodesInv
<1>4. CASE beginDrain(n)
  <2> DEFINE i == [node[n] EXCEPT !.live = FALSE, !.leaving = 1, !.rooms = {}]
  <2>1. i \in Instance /\ i.rooms = {}
    <3>1. 1 \in 0..3
      OBVIOUS
    <3>2. QED BY <1>1, <3>1 DEF Instance
  <2>2. Cardinality(i.rooms) <= MaxRoomsPerNode
    BY <2>1, FS_EmptySet, PlaceConstants
  <2>3. node' = [node EXCEPT ![n] = i]
    BY <1>1, <1>4 DEF beginDrain, Instance
  <2> HIDE DEF i
  <2>4. /\ node' \in [Nodes -> Instance]
        /\ \A m \in Nodes : Cardinality(node'[m].rooms) <= MaxRoomsPerNode
    BY <2>1, <2>2, <2>3, NodeWritten
  <2>5. UNCHANGED <<members, beat>>
    BY <1>4 DEF beginDrain
  <2>6. QED BY <2>4, <2>5 DEF NodesInv
<1>5. CASE drainNode(n)
  <2> DEFINE i == [node[n] EXCEPT !.leaving = (@ + 1) % 4]
  <2>1. node[n].leaving \in 0..3
    BY <1>1 DEF Instance
  <2>2. (node[n].leaving + 1) % 4 \in 0..3
    BY <2>1
  <2>3. i \in Instance /\ i.rooms = node[n].rooms
    BY <1>1, <2>2 DEF Instance
  <2>4. Cardinality(i.rooms) <= MaxRoomsPerNode
    BY <2>3 DEF NodesInv
  <2>5. node' = [node EXCEPT ![n] = i]
    BY <1>1, <1>5 DEF drainNode, Instance
  <2> HIDE DEF i
  <2>6. /\ node' \in [Nodes -> Instance]
        /\ \A m \in Nodes : Cardinality(node'[m].rooms) <= MaxRoomsPerNode
    BY <2>3, <2>4, <2>5, NodeWritten
  <2>7. members' \subseteq Nodes /\ beat' \in [Nodes -> Beat \cup {Nothing}]
    <3>1. payload(n, TRUE) \in Beat
      BY PayloadIsBeat
    <3>2. QED BY <1>1, <1>5, <3>1 DEF drainNode
  <2>8. QED BY <2>6, <2>7 DEF NodesInv
<1>6. CASE NodeCrash(n)
  <2> DEFINE i == [node[n] EXCEPT !.live = FALSE, !.rooms = {}]
  <2>1. i \in Instance /\ i.rooms = {}
    BY <1>1 DEF Instance
  <2>2. Cardinality(i.rooms) <= MaxRoomsPerNode
    BY <2>1, FS_EmptySet, PlaceConstants
  <2>3. node' = [node EXCEPT ![n] = i]
    BY <1>1, <1>6 DEF NodeCrash, Instance
  <2> HIDE DEF i
  <2>4. /\ node' \in [Nodes -> Instance]
        /\ \A m \in Nodes : Cardinality(node'[m].rooms) <= MaxRoomsPerNode
    BY <2>1, <2>2, <2>3, NodeWritten
  <2>5. UNCHANGED <<members, beat>>
    BY <1>6 DEF NodeCrash
  <2>6. QED BY <2>4, <2>5 DEF NodesInv
<1>7. CASE BeatExpires(n)
  BY <1>1, <1>7 DEF BeatExpires, NodesInv
<1>8. QED BY <1>2, <1>3, <1>4, <1>5, <1>6, <1>7

LEMMA NodesStep ==
  ASSUME TInv, [PlaceNext]_placeVars
  PROVE  NodesInv'
<1>1. NodesInv /\ KeysInv /\ PlayersInv
  BY DEF TInv
<1>2. ASSUME ClusterRests PROVE NodesInv'
  BY <1>1, <1>2 DEF ClusterRests, NodesInv
<1>3. ASSUME NEW p \in Clients,
             \/ matchmake(p) \/ MatchmakeStep(p) \/ leaveLobby(p) \/ authenticateSocket(p)
             \/ HandshakeStep(p) \/ Unseat(p) \/ TicketExpires(p)
      PROVE  NodesInv'
  <2>1. CASE PruneDead(p)
    BY <1>1, <2>1 DEF PruneDead, NodesInv
  <2>2. CASE hostRoom(p)
    BY <1>1, <2>2, HostsWithinCap
  <2>3. CASE ~PruneDead(p) /\ ~hostRoom(p)
    BY <1>2, <1>3, <2>3, RequestsLeaveNodes DEF MatchmakeStep, HandshakeStep
  <2>4. QED BY <2>1, <2>2, <2>3
<1>4. ASSUME NEW n \in Nodes,
             \/ register(n) \/ startHeartbeat(n) \/ beginDrain(n) \/ drainNode(n)
             \/ NodeCrash(n) \/ BeatExpires(n)
      PROVE  NodesInv'
  BY <1>1, <1>4, RegistryKeepsNodes
<1>5. CASE OpenExpires \/ UNCHANGED placeVars
  BY <1>2, <1>5 DEF OpenExpires, placeVars, cluster, ClusterRests
<1>6. ASSUME NEW l \in Launches, LaunchStep(l) PROVE NodesInv'
  BY <1>2, <1>6, LaunchLeaves DEF ClusterRests
<1>7. QED BY <1>3, <1>4, <1>5, <1>6 DEF PlaceNext

(* A ticket that goes stale is still a ticket.                             *)
LEMMA StaleIsTicket == \A t \in Ticket : Stale(t) \in Ticket
BY TicketIsSome DEF Stale, Ticket

LEMMA StaleIsHeld == \A t \in Held : Stale(t) \in Held
BY HeldIsSome DEF Stale, Held

LEMMA KeyWritten ==
  ASSUME KeysInv, NEW p \in Clients, NEW t \in Ticket \cup {Nothing}, WriteKey(p, t)
  PROVE  key' \in [Clients -> Ticket \cup {Nothing}]
BY DEF KeysInv, WriteKey

(* What a request knows at each step.                                      *)
LEMMA RequestParts ==
  ASSUME PlayersInv, NEW p \in Clients
  PROVE  /\ req[p] \in Placing /\ RequestInv(req[p]) /\ hand[p] \in Held \cup {Nothing}
         /\ req[p].pc \in Choosing => req[p].ticket.room \in PlacedRooms
         /\ req[p].pc \in Ticketed => req[p].ticket.room \in PlacedRooms
         /\ req[p].pc \in WithStaged => req[p].staged.room \in PlacedRooms
BY DEF PlayersInv, RequestInv, Note, Ticket, Seat

LEMMA CandidateIsSeat ==
  ASSUME PlayersInv, NEW p \in Clients, req[p].pc \in {"claim", "overwrite"}
  PROVE  Candidate(p) \in Seat /\ Candidate(p).room = req[p].ticket.room
         /\ Candidate(p).room \in WorldRooms
BY RequestParts DEF Candidate, Seat, RequestInv, Choosing

LEMMA KeysStep ==
  ASSUME TInv, [PlaceNext]_placeVars
  PROVE  KeysInv'
<1>1. NodesInv /\ KeysInv /\ PlayersInv /\ LaunchesInv
  BY DEF TInv
<1>2. ASSUME UNCHANGED <<openKey, key, meta, note>> PROVE KeysInv'
  BY <1>1, <1>2 DEF KeysInv
<1>3. ASSUME NEW p \in Clients,
             \/ matchmake(p) \/ loadNodes(p) \/ PruneDead(p) \/ TakeStaged(p) \/ TakeIssued(p)
             \/ BoundGame(p) \/ ReadOpen(p) \/ ReadRaced(p) \/ Answer(p) \/ reconnectRoom(p) \/ Unseat(p)
             \/ parseNodePayload(p)
      PROVE  KeysInv'
  <2>1. CASE matchmake(p) \/ loadNodes(p) \/ PruneDead(p) \/ TakeStaged(p) \/ TakeIssued(p)
    BY <1>2, <2>1, Zenon DEF keys, matchmake, loadNodes, PruneDead, TakeStaged, TakeIssued
  <2>2. CASE BoundGame(p) \/ ReadOpen(p) \/ ReadRaced(p) \/ Answer(p) \/ reconnectRoom(p) \/ Unseat(p)
    BY <1>2, <2>2, Zenon DEF keys, BoundGame, ReadOpen, ReadRaced, Answer, reconnectRoom, Unseat
  <2>3. CASE parseNodePayload(p)
    <3>1. UNCHANGED <<cluster, keys, hand, shake, seat, requests, lapses>>
      BY <2>3, Zenon DEF parseNodePayload
    <3>2. QED BY <1>2, <3>1 DEF keys
  <2>4. QED BY <1>3, <2>1, <2>2, <2>3
<1>4. ASSUME NEW p \in Clients, Restage(p) \/ mintTicket(p) PROVE KeysInv'
  <2>1. req[p].ticket \in Ticket
    BY <1>1, <1>4, RequestParts DEF Restage, mintTicket, Ready, RequestInv, Ticketed
  <2>2. WriteKey(p, req[p].ticket) /\ UNCHANGED <<openKey, meta, note>>
    BY <1>4 DEF Restage, mintTicket
  <2>3. key' \in [Clients -> Ticket \cup {Nothing}]
    BY <1>1, <2>1, <2>2, KeyWritten
  <2>4. QED BY <1>1, <2>2, <2>3 DEF KeysInv
<1>5. ASSUME NEW p \in Clients, DropStaged(p) \/ leaveLobby(p) \/ authenticateSocket(p)
      PROVE  KeysInv'
  <2>1. /\ key' = [key EXCEPT ![p] = Nothing] \/ UNCHANGED key
        /\ UNCHANGED <<openKey, note>>
        /\ meta' = [meta EXCEPT ![p] = Nothing] \/ UNCHANGED meta
    BY <1>5 DEF DropStaged, leaveLobby, authenticateSocket, WriteKey
  <2>2. QED BY <1>1, <2>1 DEF KeysInv
<1>6. ASSUME NEW p \in Clients, claimOpen(p) \/ OverwriteOpen(p) PROVE KeysInv'
  <2>1. /\ openKey' = openKey \/ openKey' = Candidate(p)
        /\ req[p].pc \in {"claim", "overwrite"} /\ UNCHANGED <<key, meta, note>>
    BY <1>6 DEF claimOpen, OverwriteOpen, Ready
  <2>2. Candidate(p) \in Seat
    BY <1>1, <2>1, CandidateIsSeat
  <2>3. QED BY <1>1, <2>1, <2>2 DEF KeysInv
<1>7. ASSUME NEW p \in Clients, noteReconnectRoom(p) PROVE KeysInv'
  <2> DEFINE t == IF Ready(p, "note") THEN req[p].ticket.room ELSE req[p].staged.room
  <2>1. t \in PlacedRooms
    <3>1. req[p].pc = "note" \/ req[p].pc = "note-staged"
      BY <1>7 DEF noteReconnectRoom
    <3>2. QED BY <1>1, <3>1, RequestParts DEF Ready, Ticketed, WithStaged
  <2>2. /\ note' = [note EXCEPT ![p] = [room |-> t]] \/ UNCHANGED note
        /\ UNCHANGED <<openKey, key, meta>>
    BY <1>7 DEF noteReconnectRoom
  <2> HIDE DEF t
  <2>3. [room |-> t] \in Note
    BY <2>1 DEF Note
  <2>4. QED BY <1>1, <2>2, <2>3 DEF KeysInv
<1>8. ASSUME NEW p \in Clients, hostRoom(p) PROVE KeysInv'
  <2>1. hand[p] \in Held
    BY <1>1, <1>8 DEF hostRoom, PlayersInv
  <2>2. [room |-> hand[p].room] \in Note
    BY <2>1 DEF Note, Held
  <2>3. note' = [note EXCEPT ![p] = [room |-> hand[p].room]] /\ UNCHANGED <<openKey, key, meta>>
    BY <1>8 DEF hostRoom
  <2>4. QED BY <1>1, <2>2, <2>3 DEF KeysInv
<1>9. ASSUME NEW p \in Clients, TicketExpires(p) PROVE KeysInv'
  <2>1. /\ \/ key' = [key EXCEPT ![p] = Nothing]
           \/ key[p] # Nothing /\ key' = [key EXCEPT ![p] = Stale(key[p])]
        /\ meta' = [meta EXCEPT ![p] = Nothing] \/ UNCHANGED meta
        /\ UNCHANGED <<openKey, note>>
    BY <1>9 DEF TicketExpires, WriteKey
  <2>2. key[p] # Nothing => Stale(key[p]) \in Ticket
    BY <1>1, StaleIsTicket DEF KeysInv
  <2>3. key' \in [Clients -> Ticket \cup {Nothing}]
    BY <1>1, <2>1, <2>2 DEF KeysInv
  <2>4. meta' \in [Clients -> Seat \cup {Nothing}]
    BY <1>1, <2>1 DEF KeysInv
  <2>5. QED BY <1>1, <2>1, <2>3, <2>4 DEF KeysInv
<1>10. ASSUME NEW l \in Launches, LaunchStep(l) PROVE KeysInv'
  <2> DEFINE s == launch[l]
             t == [room |-> s.room, node |-> s.node, fresh |-> TRUE]
             w == [room |-> s.room, node |-> s.node]
  <2>1. s \in Launching /\ LaunchOK(s) /\ UNCHANGED <<openKey, note>>
    BY <1>1, <1>10, LaunchLeaves DEF LaunchesInv
  <2>2. CASE stageTicket(l)
    <3>1. PICK p \in s.todo : key' = [key EXCEPT ![p] = t]
      BY <2>2, Zenon DEF stageTicket, WriteKey
    <3>2. p \in Clients /\ t \in Ticket /\ UNCHANGED meta
      BY <2>1, <2>2, RoomRanges DEF stageTicket, LaunchAt, LaunchOK, Launching, Ticket
    <3> HIDE DEF t
    <3>3. QED BY <1>1, <2>1, <3>1, <3>2 DEF KeysInv
  <2>3. CASE stageMeta(l)
    <3>1. meta' = [meta EXCEPT ![s.player] = w] /\ UNCHANGED key
      BY <2>3, Zenon DEF stageMeta
    <3>2. s.player \in Clients /\ w \in Seat
      BY <2>1, <2>3, RoomRanges DEF stageMeta, LaunchAt, LaunchOK, Launching, Seat
    <3> HIDE DEF w, s
    <3>3. QED BY <1>1, <2>1, <3>1, <3>2 DEF KeysInv
  <2>4. CASE launchQueue(l) \/ launchThrows(l) \/ resetLobby(l)
    <3>1. UNCHANGED <<key, meta>>
      BY <2>4, Zenon DEF launchQueue, launchThrows, resetLobby
    <3>2. QED BY <1>2, <2>1, <3>1
  <2>5. QED BY <1>10, <2>2, <2>3, <2>4 DEF LaunchStep
<1>11. ASSUME OpenExpires PROVE KeysInv'
  BY <1>1, <1>11 DEF OpenExpires, KeysInv
<1>12. ASSUME NEW n \in Nodes,
              \/ register(n) \/ startHeartbeat(n) \/ beginDrain(n) \/ drainNode(n)
              \/ NodeCrash(n) \/ BeatExpires(n)
       PROVE  KeysInv'
  BY <1>2, <1>12, Zenon
     DEF keys, register, startHeartbeat, beginDrain, drainNode, NodeCrash, BeatExpires
<1>13. CASE UNCHANGED placeVars
  BY <1>2, <1>13 DEF placeVars
<1>14. QED
  BY <1>3, <1>4, <1>5, <1>6, <1>7, <1>8, <1>9, <1>10, <1>11, <1>12, <1>13
     DEF PlaceNext, MatchmakeStep, HandshakeStep

(* The launches.                                                           *)
LEMMA OthersLeaveLaunches ==
  ASSUME [PlaceNext]_placeVars, \A l \in Launches : ~LaunchStep(l)
  PROVE  UNCHANGED launch
<1>1. ASSUME NEW p \in Clients, MatchmakeStep(p) PROVE UNCHANGED launch
  <2>1. CASE loadNodes(p) \/ PruneDead(p) \/ TakeStaged(p) \/ TakeIssued(p) \/ Restage(p)
    BY <2>1, Zenon DEF loadNodes, PruneDead, TakeStaged, TakeIssued, Restage, keys
  <2>2. CASE parseNodePayload(p)
    <3>1. UNCHANGED <<cluster, keys, hand, shake, seat, requests, lapses>>
      BY <2>2, Zenon DEF parseNodePayload
    <3>2. QED BY <3>1 DEF keys
  <2>3. CASE DropStaged(p) \/ BoundGame(p) \/ ReadOpen(p) \/ claimOpen(p) \/ ReadRaced(p)
    BY <2>3, Zenon DEF DropStaged, BoundGame, ReadOpen, claimOpen, ReadRaced, keys
  <2>4. CASE OverwriteOpen(p) \/ mintTicket(p) \/ noteReconnectRoom(p) \/ Answer(p)
    BY <2>4, Zenon DEF OverwriteOpen, mintTicket, noteReconnectRoom, Answer, keys
  <2>5. QED BY <1>1, <2>1, <2>2, <2>3, <2>4 DEF MatchmakeStep
<1>2. ASSUME NEW p \in Clients,
             \/ matchmake(p) \/ leaveLobby(p) \/ authenticateSocket(p) \/ HandshakeStep(p)
             \/ Unseat(p) \/ TicketExpires(p)
      PROVE  UNCHANGED launch
  BY <1>2, Zenon DEF matchmake, leaveLobby, authenticateSocket, HandshakeStep, reconnectRoom,
                     hostRoom, Unseat, TicketExpires, keys
<1>3. ASSUME NEW n \in Nodes,
             \/ register(n) \/ startHeartbeat(n) \/ beginDrain(n) \/ drainNode(n)
             \/ NodeCrash(n) \/ BeatExpires(n)
      PROVE  UNCHANGED launch
  BY <1>3, Zenon
     DEF register, startHeartbeat, beginDrain, drainNode, NodeCrash, BeatExpires, keys
<1>4. CASE OpenExpires \/ UNCHANGED placeVars
  BY <1>4, Zenon DEF OpenExpires, placeVars
<1>5. QED BY <1>1, <1>2, <1>3, <1>4 DEF PlaceNext

LEMMA LaunchesStep ==
  ASSUME TInv, [PlaceNext]_placeVars
  PROVE  LaunchesInv'
<1>1. LaunchesInv /\ NodesInv
  BY DEF TInv
<1>2. CASE UNCHANGED launch
  BY <1>1, <1>2 DEF LaunchesInv, LaunchOK
<1>3. ASSUME NEW l \in Launches, NEW s \in Launching, LaunchOK(s),
             launch' = [launch EXCEPT ![l] = s]
      PROVE  LaunchesInv'
  BY <1>1, <1>3 DEF LaunchesInv, LaunchOK
<1>4. ASSUME NEW l \in Launches, LaunchStep(l) PROVE LaunchesInv'
  <2>1. launch \in [Launches -> Launching] /\ launch[l] \in Launching /\ LaunchOK(launch[l])
    BY <1>1 DEF LaunchesInv
  <2>2. CASE launchQueue(l)
    <3> DEFINE nodes == selectPlacement(filterHealthy(members))
    <3>1. nodes \subseteq Nodes
      BY <1>1, SelectedIsHealthy DEF filterHealthy, NodesInv
    <3>2. PICK rm \in {GameRoom, -l}, players \in SUBSET Clients \ {{}} :
            IF nodes = {}
              THEN launch' = [launch EXCEPT ![l].step = "reset", ![l].room = rm]
              ELSE \E n \in nodes :
                     launch' = [launch EXCEPT ![l] = [step |-> "key", room |-> rm, node |-> n,
                                                      todo |-> players, player |-> Nothing]]
      BY <2>2, Zenon DEF launchQueue
    <3> HIDE DEF nodes
    <3>3. rm \in LaunchRooms /\ players \in SUBSET Clients
      BY RoomRanges
    <3>4. CASE nodes = {}
      <4> DEFINE s == [launch[l] EXCEPT !.step = "reset", !.room = rm]
      <4>1. s \in Launching /\ s.step = "reset" /\ launch' = [launch EXCEPT ![l] = s]
        BY <2>1, <3>2, <3>3, <3>4 DEF Launching
      <4> HIDE DEF s
      <4>2. QED BY <1>3, <4>1 DEF LaunchOK
    <3>5. CASE nodes # {}
      <4>1. PICK n \in nodes :
              launch' = [launch EXCEPT ![l] = [step |-> "key", room |-> rm, node |-> n,
                                               todo |-> players, player |-> Nothing]]
        BY <3>2, <3>5
      <4> DEFINE s == [step |-> "key", room |-> rm, node |-> n, todo |-> players,
                       player |-> Nothing]
      <4>2. s \in Launching /\ s.step = "key" /\ s.node \in Nodes
        BY <3>1, <3>3 DEF Launching
      <4>3. launch' = [launch EXCEPT ![l] = s]
        BY <4>1
      <4> HIDE DEF s
      <4>4. QED BY <1>3, <4>2, <4>3 DEF LaunchOK
    <3>6. QED BY <3>4, <3>5
  <2>3. CASE stageTicket(l)
    <3>1. PICK p \in launch[l].todo :
            launch' = [launch EXCEPT ![l].step = "meta", ![l].player = p, ![l].todo = @ \ {p}]
      BY <2>3, Zenon DEF stageTicket
    <3> DEFINE s == [launch[l] EXCEPT !.step = "meta", !.player = p, !.todo = @ \ {p}]
    <3>2. /\ s \in Launching /\ s.step = "meta" /\ s.player \in Clients
          /\ s.node = launch[l].node /\ launch' = [launch EXCEPT ![l] = s]
      BY <2>1, <3>1 DEF Launching
    <3>3. launch[l].node \in Nodes
      BY <2>1, <2>3 DEF stageTicket, LaunchAt, LaunchOK
    <3> HIDE DEF s
    <3>4. QED BY <1>3, <3>2, <3>3 DEF LaunchOK
  <2>4. CASE stageMeta(l) \/ launchThrows(l)
    <3>1. PICK step \in {"key", "reset"} : launch' = [launch EXCEPT ![l].step = step]
      BY <2>4 DEF stageMeta, launchThrows
    <3> DEFINE s == [launch[l] EXCEPT !.step = step]
    <3>2. /\ s \in Launching /\ s.step = step
          /\ s.node = launch[l].node /\ launch' = [launch EXCEPT ![l] = s]
      BY <2>1, <3>1 DEF Launching
    <3>3. launch[l].node \in Nodes
      BY <2>1, <2>4 DEF stageMeta, launchThrows, LaunchAt, LaunchOK
    <3> HIDE DEF s
    <3>4. QED BY <1>3, <3>2, <3>3 DEF LaunchOK
  <2>5. CASE resetLobby(l)
    <3> DEFINE s == [NoLaunch EXCEPT !.step = "done"]
    <3>1. launch' = [launch EXCEPT ![l] = s]
      BY <2>5 DEF resetLobby
    <3>2. s \in Launching /\ s.step = "done"
      BY RoomRanges DEF NoLaunch, Launching
    <3> HIDE DEF s
    <3>3. QED BY <1>3, <3>1, <3>2 DEF LaunchOK
  <2>6. QED BY <1>4, <2>2, <2>3, <2>4, <2>5 DEF LaunchStep
<1>5. QED BY <1>2, <1>4, OthersLeaveLaunches

(* A request that takes a step, its player doing nothing else.             *)
LEMMA RequestMoves ==
  ASSUME PlayersInv, NEW p, p \in Clients, NEW r, r \in Placing, RequestInv(r),
         r.pc # "idle" => hand[p] = Nothing,
         req' = [req EXCEPT ![p] = r], UNCHANGED <<hand, shake, seat>>
  PROVE  PlayersInv'
<1>1. /\ req' \in [Clients -> Placing]
      /\ \A q \in Clients : req'[q] = IF q = p THEN r ELSE req[q]
  BY DEF PlayersInv
<1>2. \A q \in Clients : RequestInv(req'[q])
  BY <1>1 DEF PlayersInv
<1>3. \A q \in Clients : /\ req'[q].pc # "idle" => hand[q] = Nothing
                         /\ shake[q] # "idle" => hand[q] # Nothing /\ seat[q] = Nothing
                         /\ hand[q] = Nothing => seat[q] = Nothing
  BY <1>1 DEF PlayersInv
<1>4. (/\ hand \in [Clients -> Held \cup {Nothing}]
       /\ shake \in [Clients -> {"idle", "admit", "spent", "refused"}]
       /\ seat \in [Clients -> Seat \cup {Nothing}])'
  BY DEF PlayersInv
<1>5. (\A q \in Clients : RequestInv(req[q]))'
  BY <1>2 DEF RequestInv
<1>6. QED BY <1>1, <1>3, <1>4, <1>5 DEF PlayersInv

LEMMA RequestGoes ==
  ASSUME PlayersInv, NEW p, p \in Clients, NEW pc, pc \in Choosing \cup Ticketed,
         pc \in Choosing => req[p].pc \in Choosing,
         pc \in Ticketed => req[p].pc \in Ticketed,
         pc \in WithStaged => req[p].pc \in WithStaged,
         pc \in Unstaged => req[p].pc \in Unstaged,
         req[p].pc \notin {"idle", "nodes", "payloads"},
         Go(p, pc), UNCHANGED <<hand, shake, seat>>
  PROVE  PlayersInv'
<1> DEFINE r == [req[p] EXCEPT !.pc = pc]
<1>1. /\ req \in [Clients -> Placing] /\ req[p] \in Placing /\ RequestInv(req[p])
      /\ hand[p] = Nothing
  BY DEF PlayersInv
<1>2. /\ r \in Placing /\ r.pc = pc /\ r.ticket = req[p].ticket /\ r.node = req[p].node
      /\ r.staged = req[p].staged
  BY <1>1 DEF Placing
<1>3. req' = [req EXCEPT ![p] = r]
  BY <1>1 DEF Go
<1> HIDE DEF r
<1>4. RequestInv(r)
  BY <1>1, <1>2 DEF RequestInv
<1>5. p \in Clients /\ r \in Placing /\ (r.pc # "idle" => hand[p] = Nothing)
      /\ UNCHANGED <<hand, shake, seat>>
  BY <1>1, <1>2
<1>6. QED BY ONLY PlayersInv, <1>3, <1>4, <1>5, RequestMoves

(* It has its ticket.                                                      *)
LEMMA RequestSettles ==
  ASSUME PlayersInv, NEW p, p \in Clients, NEW t, t \in Ticket,
         req[p].pc \in {"bound", "open", "claim", "raced", "overwrite"},
         req' = [req EXCEPT ![p].pc = "mint", ![p].ticket = t], UNCHANGED <<hand, shake, seat>>
  PROVE  PlayersInv'
<1> DEFINE r == [req[p] EXCEPT !.pc = "mint", !.ticket = t]
<1>1. /\ req \in [Clients -> Placing] /\ req[p] \in Placing /\ RequestInv(req[p])
      /\ hand[p] = Nothing
  BY DEF PlayersInv
<1>2. /\ r \in Placing /\ r.pc = "mint" /\ r.ticket = t /\ r.node = req[p].node
      /\ r.staged = req[p].staged
  BY <1>1 DEF Placing, Ticketed
<1>3. req' = [req EXCEPT ![p] = r]
  BY <1>1, <1>2 DEF Placing
<1> HIDE DEF r
<1>4. RequestInv(r)
  BY <1>1, <1>2 DEF RequestInv, Choosing, Ticketed, WithStaged, Unstaged
<1>5. p \in Clients /\ r \in Placing /\ (r.pc # "idle" => hand[p] = Nothing)
      /\ UNCHANGED <<hand, shake, seat>>
  BY <1>1, <1>2
<1>6. QED BY ONLY PlayersInv, <1>3, <1>4, <1>5, RequestMoves

LEMMA SharedIsTicket ==
  ASSUME NEW p, NEW o, o \in Seat
  PROVE  Shared(p, o) \in Ticket /\ Shared(p, o).room = o.room /\ Shared(p, o).node = o.node
BY DEF Shared, Seat, Ticket

LEMMA RequestStarts ==
  ASSUME PlayersInv, CountsInv, NEW p \in Clients, matchmake(p)
  PROVE  PlayersInv'
<1> DEFINE t == [room |-> requests + 1]
           r == [NoPlacement EXCEPT !.pc = "nodes", !.ticket = t]
<1>1. requests + 1 \in WorldRooms
  BY PlaceConstants DEF matchmake, CountsInv, WorldRooms
<1>2. t \in Note /\ t.room \in WorldRooms
  BY <1>1, RoomRanges DEF Note
<1>3. NoPlacement \in Placing /\ NoPlacement.staged = Nothing
  BY DEF NoPlacement, Placing
<1> HIDE DEF t
<1>4. r \in Placing /\ r.pc = "nodes" /\ r.ticket = t /\ r.staged = Nothing
  BY <1>2, <1>3 DEF Placing, Choosing
<1>5. req' = [req EXCEPT ![p] = r]
  BY DEF matchmake, t
<1> HIDE DEF r
<1>6. /\ req' \in [Clients -> Placing]
      /\ \A q \in Clients : req'[q] = IF q = p THEN r ELSE req[q]
  BY <1>4, <1>5 DEF PlayersInv
<1>7. RequestInv(r)
  BY <1>2, <1>4 DEF RequestInv, Choosing, Ticketed, WithStaged, Unstaged
<1>8. (\A q \in Clients : RequestInv(req[q]))'
  BY <1>6, <1>7 DEF PlayersInv, RequestInv
<1>9. /\ hand' = [hand EXCEPT ![p] = Nothing] /\ UNCHANGED <<shake, seat>>
      /\ shake[p] = "idle" /\ seat[p] = Nothing
  BY DEF matchmake
<1>10. (/\ hand \in [Clients -> Held \cup {Nothing}]
        /\ shake \in [Clients -> {"idle", "admit", "spent", "refused"}]
        /\ seat \in [Clients -> Seat \cup {Nothing}])'
  BY <1>9 DEF PlayersInv
<1>11. \A q \in Clients : /\ req'[q].pc # "idle" => hand'[q] = Nothing
                          /\ shake'[q] # "idle" => hand'[q] # Nothing /\ seat'[q] = Nothing
                          /\ hand'[q] = Nothing => seat'[q] = Nothing
  BY <1>6, <1>9 DEF PlayersInv
<1>12. QED BY <1>6, <1>8, <1>10, <1>11 DEF PlayersInv

LEMMA RequestReadsNodes ==
  ASSUME NodesInv, PlayersInv, NEW p \in Clients, loadNodes(p)
  PROVE  PlayersInv'
<1> DEFINE r == [req[p] EXCEPT !.ids = members, !.pc = "payloads"]
<1>1. /\ req \in [Clients -> Placing] /\ req[p] \in Placing /\ RequestInv(req[p])
      /\ req[p].pc = "nodes" /\ members \in SUBSET Nodes
  BY DEF PlayersInv, NodesInv, loadNodes, Ready
<1>2. hand[p] = Nothing
  BY <1>1 DEF PlayersInv
<1>3. /\ r \in Placing /\ r.pc = "payloads" /\ r.ticket = req[p].ticket
      /\ r.staged = req[p].staged
  BY <1>1 DEF Placing, Choosing
<1>4. req' = [req EXCEPT ![p] = r] /\ UNCHANGED <<hand, shake, seat>>
  BY <1>1 DEF loadNodes
<1> HIDE DEF r
<1>5. RequestInv(r)
  BY <1>1, <1>3 DEF RequestInv, Choosing, Ticketed, WithStaged, Unstaged
<1>6. p \in Clients /\ r \in Placing /\ (r.pc # "idle" => hand[p] = Nothing)
  BY <1>2, <1>3
<1>7. QED BY ONLY PlayersInv, <1>4, <1>5, <1>6, RequestMoves

LEMMA RequestChooses ==
  ASSUME NodesInv, PlayersInv, NEW p \in Clients, parseNodePayload(p)
  PROVE  PlayersInv'
<1> DEFINE healthy == filterHealthy(req[p].ids)
           dead == {n \in req[p].ids : beat[n] = Nothing}
           none == [NoPlacement EXCEPT !.ids = dead]
<1>1. /\ req \in [Clients -> Placing] /\ req[p] \in Placing /\ RequestInv(req[p])
      /\ req[p].pc = "payloads"
  <2>1. Ready(p, "payloads")
    BY Zenon DEF parseNodePayload
  <2>2. QED BY <2>1 DEF PlayersInv, Ready
<1>2. hand[p] = Nothing
  BY <1>1 DEF PlayersInv
<1>3. healthy \in SUBSET Nodes /\ dead \in SUBSET Nodes
  BY <1>1 DEF Placing, filterHealthy
<1>4. UNCHANGED <<hand, shake, seat>>
  <2>1. UNCHANGED <<cluster, keys, hand, shake, seat, requests, lapses>>
    BY Zenon DEF parseNodePayload
  <2>2. QED BY <2>1
<1>5. CASE selectPlacement(healthy) = {}
  <2>1. req' = [req EXCEPT ![p] = none]
    BY <1>5 DEF parseNodePayload
  <2>2. NoPlacement \in Placing /\ NoPlacement.pc = "idle"
    BY DEF NoPlacement, Placing
  <2> HIDE DEF dead
  <2>3. none \in Placing /\ none.pc = "idle"
    BY <1>3, <2>2 DEF Placing
  <2> HIDE DEF none
  <2>4. RequestInv(none) /\ none \in Placing /\ p \in Clients
        /\ (none.pc # "idle" => hand[p] = Nothing)
    BY <2>3 DEF RequestInv, Choosing, Ticketed, WithStaged, Unstaged
  <2>5. QED BY ONLY PlayersInv, <1>4, <2>1, <2>4, RequestMoves
<1>6. CASE selectPlacement(healthy) # {}
  <2>1. PICK n \in selectPlacement(healthy) :
          req' = [req EXCEPT ![p].pc = "staged", ![p].healthy = healthy, ![p].node = n,
                             ![p].ids = dead]
    BY <1>6, Zenon DEF parseNodePayload
  <2>2. n \in Nodes
    BY <1>3, SelectedIsHealthy
  <2> DEFINE r == [req[p] EXCEPT !.pc = "staged", !.healthy = healthy, !.node = n, !.ids = dead]
  <2> HIDE DEF healthy, dead
  <2>3. /\ r \in Placing /\ r.pc = "staged" /\ r.ticket = req[p].ticket /\ r.node = n
        /\ r.staged = req[p].staged
    BY <1>1, <1>3, <2>2 DEF Placing, Choosing
  <2>4. req' = [req EXCEPT ![p] = r]
    BY <1>1, <1>3, <2>1, <2>2 DEF Placing
  <2> HIDE DEF r
  <2>5. RequestInv(r)
    BY <1>1, <2>2, <2>3 DEF RequestInv, Choosing, Ticketed, WithStaged, Unstaged
  <2>6. p \in Clients /\ r \in Placing /\ (r.pc # "idle" => hand[p] = Nothing)
    BY <1>2, <2>3
  <2>7. QED BY ONLY PlayersInv, <1>4, <2>4, <2>5, <2>6, RequestMoves
<1>7. QED BY <1>5, <1>6

(* The rest of a request, up to its answer.                                *)
LEMMA RequestGoesOn ==
  ASSUME TInv, NEW p \in Clients,
         \/ PruneDead(p) \/ TakeStaged(p) \/ TakeIssued(p) \/ Restage(p) \/ DropStaged(p)
         \/ BoundGame(p) \/ ReadOpen(p) \/ claimOpen(p) \/ ReadRaced(p) \/ OverwriteOpen(p) \/ mintTicket(p)
         \/ noteReconnectRoom(p)
  PROVE  PlayersInv'
<1>1. PlayersInv /\ KeysInv /\ p \in Clients
  BY DEF TInv
<1>2. /\ req \in [Clients -> Placing] /\ req[p] \in Placing /\ RequestInv(req[p])
      /\ (req[p].pc # "idle" => hand[p] = Nothing)
      /\ openKey \in Seat \cup {Nothing} /\ key[p] \in Ticket \cup {Nothing}
      /\ meta[p] \in Seat \cup {Nothing}
  BY <1>1 DEF PlayersInv, KeysInv
<1>3. CASE PruneDead(p)
  <2> DEFINE r == [req[p] EXCEPT !.ids = {}]
  <2>1. req' = [req EXCEPT ![p] = r] /\ UNCHANGED <<hand, shake, seat>>
    BY <1>2, <1>3 DEF PruneDead
  <2>2. /\ r \in Placing /\ r.pc = req[p].pc /\ r.ticket = req[p].ticket
        /\ r.node = req[p].node /\ r.staged = req[p].staged
    BY <1>2 DEF Placing
  <2> HIDE DEF r
  <2>3. RequestInv(r) /\ r \in Placing /\ (r.pc # "idle" => hand[p] = Nothing) /\ p \in Clients
    BY <1>2, <2>2 DEF RequestInv
  <2>4. QED BY ONLY <1>1, <2>1, <2>3, RequestMoves
<1>4. CASE TakeStaged(p)
  <2> DEFINE pc == IF meta[p] # Nothing THEN "issued" ELSE "bound"
             r == [req[p] EXCEPT !.pc = pc, !.staged = meta[p]]
  <2>1. req[p].pc = "staged" /\ UNCHANGED <<hand, shake, seat>>
    BY <1>4, Zenon DEF TakeStaged, Ready
  <2>2. req' = [req EXCEPT ![p] = r]
    BY <1>2, <1>4 DEF TakeStaged, Placing
  <2>3. /\ r \in Placing /\ r.pc = pc /\ r.ticket = req[p].ticket /\ r.node = req[p].node
        /\ r.staged = meta[p]
    BY <1>2 DEF Placing, Choosing
  <2>4. \/ pc = "issued" /\ meta[p] \in Seat
        \/ pc = "bound" /\ meta[p] = Nothing
    BY <1>2
  <2> HIDE DEF r, pc
  <2>5. RequestInv(r)
    BY <1>2, <2>1, <2>3, <2>4 DEF RequestInv, Choosing, Ticketed, WithStaged, Unstaged
  <2>6. p \in Clients /\ r \in Placing /\ (r.pc # "idle" => hand[p] = Nothing)
    BY <1>2, <2>1, <2>3
  <2>7. QED BY ONLY <1>1, <2>1, <2>2, <2>5, <2>6, RequestMoves
<1>11. CASE TakeIssued(p)
  <2>1. req[p].pc = "issued" /\ UNCHANGED <<hand, shake, seat>>
    BY <1>11, Zenon DEF TakeIssued, Ready
  <2>2. PICK r \in Placing : /\ req' = [req EXCEPT ![p] = r] /\ r.node = req[p].node
                             /\ \/ /\ r.pc = "restage" /\ r.ticket \in Ticket
                                   /\ r.staged = req[p].staged
                                \/ /\ r.pc = "bound" /\ r.ticket = req[p].ticket
                                   /\ r.staged = Nothing
    <3>1. CASE key[p] # Nothing
      <4> DEFINE r == [req[p] EXCEPT !.pc = "restage", !.ticket = key[p]]
      <4>1. req' = [req EXCEPT ![p] = r]
        BY <1>2, <1>11, <3>1 DEF TakeIssued, Placing
      <4>2. /\ r \in Placing /\ r.node = req[p].node /\ r.pc = "restage" /\ r.ticket \in Ticket
            /\ r.staged = req[p].staged
        BY <1>2, <3>1 DEF Placing, Ticketed
      <4>3. QED BY <4>1, <4>2
    <3>2. CASE key[p] = Nothing
      <4> DEFINE r == [req[p] EXCEPT !.pc = "bound", !.staged = Nothing]
      <4>1. req' = [req EXCEPT ![p] = r]
        BY <1>2, <1>11, <3>2 DEF TakeIssued, Placing
      <4>2. /\ r \in Placing /\ r.node = req[p].node /\ r.pc = "bound"
            /\ r.ticket = req[p].ticket /\ r.staged = Nothing
        BY <1>2 DEF Placing, Choosing
      <4>3. QED BY <4>1, <4>2
    <3>3. QED BY <3>1, <3>2
  <2>3. RequestInv(r)
    BY <1>2, <2>1, <2>2 DEF RequestInv, Choosing, Ticketed, WithStaged, Unstaged
  <2>4. /\ p \in Clients /\ r \in Placing /\ (r.pc # "idle" => hand[p] = Nothing)
        /\ req' = [req EXCEPT ![p] = r]
    BY <1>2, <2>1, <2>2
  <2>5. QED BY ONLY <1>1, <2>1, <2>3, <2>4, RequestMoves
<1>5. CASE BoundGame(p)
  <2> DEFINE t == [room |-> GameRoom, node |-> req[p].node, fresh |-> TRUE]
  <2>1. req[p].pc = "bound" /\ UNCHANGED <<hand, shake, seat>>
    BY <1>5, Zenon DEF BoundGame, Ready
  <2>2. CASE bound
    <3>1. req' = [req EXCEPT ![p].pc = "mint", ![p].ticket = t]
      BY <1>5, <2>2 DEF BoundGame
    <3>2. t \in Ticket
      BY <1>2, <2>1, RoomRanges DEF Ticket, RequestInv
    <3> HIDE DEF t
    <3>3. QED BY <1>1, <2>1, <3>1, <3>2, RequestSettles
  <2>3. CASE ~bound
    <3>1. req' = [req EXCEPT ![p].pc = "open", ![p].ticket = req[p].ticket]
      BY <1>2, <1>5, <2>3 DEF BoundGame, Placing
    <3>2. req' = [req EXCEPT ![p].pc = "open"]
      BY <1>2, <3>1 DEF Placing
    <3>3. /\ Go(p, "open") /\ "open" \in Choosing /\ "open" \notin Ticketed \cup WithStaged
          /\ req[p].pc \in Choosing /\ req[p].pc \in Unstaged
      BY <2>1, <3>2 DEF Go, Choosing, Ticketed, WithStaged, Unstaged
    <3>4. QED BY <1>1, <2>1, <3>3, RequestGoes
  <2>4. QED BY <2>2, <2>3
<1>6. ASSUME NEW o, o \in Seat, Adopt(p, o), UNCHANGED <<hand, shake, seat>>,
             req[p].pc \in {"open", "claim", "raced", "overwrite"}
      PROVE  PlayersInv'
  <2>1. Shared(p, o) \in Ticket
    BY <1>6, SharedIsTicket
  <2>2. req' = [req EXCEPT ![p].pc = "mint", ![p].ticket = Shared(p, o)]
    BY <1>6 DEF Adopt
  <2>3. /\ UNCHANGED <<hand, shake, seat>>
        /\ req[p].pc \in {"bound", "open", "claim", "raced", "overwrite"}
    BY <1>6
  <2>4. QED BY ONLY <1>1, <2>1, <2>2, <2>3, RequestSettles
<1>7. ASSUME NEW pc, pc \in {"claim", "raced", "overwrite"}, Go(p, pc),
             UNCHANGED <<hand, shake, seat>>, req[p].pc \in {"open", "claim", "raced", "overwrite"}
      PROVE  PlayersInv'
  <2>1. /\ pc \in Choosing \cup Ticketed /\ pc \notin Ticketed \cup WithStaged
        /\ req[p].pc \in Choosing /\ req[p].pc \in Unstaged
        /\ req[p].pc \notin {"idle", "nodes", "payloads"}
    BY <1>7 DEF Choosing, Ticketed, WithStaged, Unstaged
  <2>2. Go(p, pc) /\ UNCHANGED <<hand, shake, seat>>
    BY <1>7
  <2>3. QED BY ONLY <1>1, <2>1, <2>2, RequestGoes
<1>8. CASE ReadOpen(p) \/ ReadRaced(p) \/ claimOpen(p) \/ OverwriteOpen(p)
  <2>1. /\ req[p].pc \in {"open", "claim", "raced", "overwrite"} /\ UNCHANGED <<hand, shake, seat>>
        /\ \/ openKey # Nothing /\ Adopt(p, openKey)
           \/ req[p].pc \in {"claim", "overwrite"} /\ Adopt(p, Candidate(p))
           \/ \E pc \in {"claim", "raced", "overwrite"} : Go(p, pc)
    BY <1>8 DEF ReadOpen, ReadRaced, claimOpen, OverwriteOpen, Ready
  <2>2. CASE openKey # Nothing /\ Adopt(p, openKey)
    BY <1>2, <1>6, <2>1, <2>2
  <2>3. CASE req[p].pc \in {"claim", "overwrite"} /\ Adopt(p, Candidate(p))
    BY <1>1, <1>6, <2>1, <2>3, CandidateIsSeat
  <2>4. CASE \E pc \in {"claim", "raced", "overwrite"} : Go(p, pc)
    BY <1>7, <2>1, <2>4
  <2>5. QED BY <2>1, <2>2, <2>3, <2>4
<1>9. CASE Restage(p) \/ DropStaged(p) \/ mintTicket(p) \/ noteReconnectRoom(p)
  <2>1. /\ \/ Go(p, "answer") /\ req[p].pc \in {"note", "drop"}
           \/ Go(p, "note") /\ req[p].pc = "mint"
           \/ Go(p, "note-staged") /\ req[p].pc = "restage"
           \/ Go(p, "drop") /\ req[p].pc = "note-staged"
        /\ UNCHANGED <<hand, shake, seat>>
    BY <1>9 DEF Restage, DropStaged, mintTicket, noteReconnectRoom, NoteStep, Ready
  <2>2. PICK pc : /\ Go(p, pc) /\ pc \in Choosing \cup Ticketed /\ pc \notin Choosing
                  /\ req[p].pc \in Ticketed /\ req[p].pc \notin {"idle", "nodes", "payloads"}
                  /\ pc \in WithStaged => req[p].pc \in WithStaged
                  /\ pc \in Unstaged => req[p].pc \in Unstaged
    BY <2>1 DEF Choosing, Ticketed, WithStaged, Unstaged
  <2>3. UNCHANGED <<hand, shake, seat>>
    BY <2>1
  <2>4. QED BY ONLY <1>1, <2>2, <2>3, RequestGoes
<1>10. QED BY <1>3, <1>4, <1>5, <1>8, <1>9, <1>11

LEMMA RequestAnswers ==
  ASSUME PlayersInv, NEW p \in Clients, Answer(p)
  PROVE  PlayersInv'
<1> DEFINE r == [NoPlacement EXCEPT !.ids = req[p].ids]
           t == Handed(req[p])
<1>1. /\ req \in [Clients -> Placing] /\ req[p] \in Placing /\ RequestInv(req[p])
      /\ req[p].pc = "answer" /\ hand[p] = Nothing
  BY DEF PlayersInv, Answer, Ready
<1>2. t \in Held /\ req[p].ids \in SUBSET Nodes
  <2>1. req[p].ticket \in Ticket /\ req[p].staged \in Seat \cup {Nothing}
    BY <1>1 DEF RequestInv, Ticketed, Placing
  <2>2. Destination(req[p]) \in Nodes
    BY <2>1 DEF Destination, Seat, Ticket
  <2>3. QED BY <1>1, <2>1, <2>2 DEF Handed, Held, Ticket, Placing
<1>3. NoPlacement \in Placing /\ NoPlacement.pc = "idle"
  BY DEF NoPlacement, Placing
<1>4. r \in Placing /\ r.pc = "idle"
  BY <1>2, <1>3 DEF Placing
<1>5. /\ req' = [req EXCEPT ![p] = r] /\ hand' = [hand EXCEPT ![p] = t]
      /\ UNCHANGED <<shake, seat>>
  BY DEF Answer
<1> HIDE DEF r, t
<1>6. /\ req' \in [Clients -> Placing]
      /\ \A q \in Clients : req'[q] = IF q = p THEN r ELSE req[q]
  BY <1>4, <1>5 DEF PlayersInv
<1>7. RequestInv(r)
  BY <1>4 DEF RequestInv, Choosing, Ticketed, WithStaged, Unstaged
<1>8. (\A q \in Clients : RequestInv(req[q]))'
  BY <1>6, <1>7 DEF PlayersInv, RequestInv
<1>9. (/\ hand \in [Clients -> Held \cup {Nothing}]
       /\ shake \in [Clients -> {"idle", "admit", "spent", "refused"}]
       /\ seat \in [Clients -> Seat \cup {Nothing}])'
  BY <1>2, <1>5 DEF PlayersInv
<1>10. \A q \in Clients : /\ req'[q].pc # "idle" => hand'[q] = Nothing
                          /\ shake'[q] # "idle" => hand'[q] # Nothing /\ seat'[q] = Nothing
                          /\ hand'[q] = Nothing => seat'[q] = Nothing
  BY <1>1, <1>2, <1>4, <1>5, <1>6, HeldIsSome DEF PlayersInv
<1>11. QED BY <1>6, <1>8, <1>9, <1>10 DEF PlayersInv

(* The handshake, the seat and the lapse of a ticket; the request rests.   *)
LEMMA DoorKeepsPlayers ==
  ASSUME PlayersInv, NEW p \in Clients,
         \/ authenticateSocket(p) \/ reconnectRoom(p) \/ hostRoom(p) \/ Unseat(p)
         \/ TicketExpires(p)
  PROVE  PlayersInv'
<1>1. /\ hand \in [Clients -> Held \cup {Nothing}]
      /\ shake \in [Clients -> {"idle", "admit", "spent", "refused"}]
      /\ seat \in [Clients -> Seat \cup {Nothing}]
      /\ \A q \in Clients : /\ req[q].pc # "idle" => hand[q] = Nothing
                            /\ shake[q] # "idle" => hand[q] # Nothing /\ seat[q] = Nothing
                            /\ hand[q] = Nothing => seat[q] = Nothing
  BY DEF PlayersInv
<1>2. UNCHANGED req
  BY DEF authenticateSocket, reconnectRoom, hostRoom, Unseat, TicketExpires
<1>3. (req \in [Clients -> Placing] /\ \A q \in Clients : RequestInv(req[q]))'
  BY <1>2 DEF PlayersInv, RequestInv
<1>4. ASSUME (/\ hand \in [Clients -> Held \cup {Nothing}]
              /\ shake \in [Clients -> {"idle", "admit", "spent", "refused"}]
              /\ seat \in [Clients -> Seat \cup {Nothing}]
              /\ \A q \in Clients :
                   /\ req[q].pc # "idle" => hand[q] = Nothing
                   /\ shake[q] # "idle" => hand[q] # Nothing /\ seat[q] = Nothing
                   /\ hand[q] = Nothing => seat[q] = Nothing)'
      PROVE  PlayersInv'
  BY <1>3, <1>4 DEF PlayersInv
<1>5. CASE authenticateSocket(p)
  <2>1. /\ UNCHANGED <<hand, seat>> /\ hand[p] # Nothing /\ seat[p] = Nothing
        /\ \E s \in {"admit", "spent", "refused"} : shake' = [shake EXCEPT ![p] = s]
    BY <1>5 DEF authenticateSocket
  <2>2. QED BY <1>1, <1>2, <1>4, <2>1
<1>6. CASE reconnectRoom(p)
  <2>1. /\ UNCHANGED <<hand, seat>> /\ shake[p] # "idle"
        /\ shake' = [shake EXCEPT ![p] = "admit"] \/ shake' = [shake EXCEPT ![p] = "refused"]
    BY <1>6 DEF reconnectRoom
  <2>2. QED BY <1>1, <1>2, <1>4, <2>1
<1>7. CASE hostRoom(p)
  <2> DEFINE s == [room |-> hand[p].room, node |-> hand[p].node]
  <2>1. /\ UNCHANGED hand /\ shake[p] = "admit" /\ shake' = [shake EXCEPT ![p] = "idle"]
        /\ seat' = [seat EXCEPT ![p] = s] \/ UNCHANGED seat
    BY <1>7 DEF hostRoom
  <2>2. hand[p] \in Held
    BY <1>1, <2>1
  <2>3. s \in Seat
    BY <2>2 DEF Seat, Held
  <2> HIDE DEF s
  <2>4. QED BY <1>1, <1>2, <1>4, <2>1, <2>3
<1>8. CASE Unseat(p)
  <2>1. /\ seat[p] # Nothing /\ seat' = [seat EXCEPT ![p] = Nothing]
        /\ hand' = [hand EXCEPT ![p] = Nothing] /\ UNCHANGED shake
    BY <1>8 DEF Unseat
  <2>2. QED BY <1>1, <1>2, <1>4, <2>1
<1>9. CASE TicketExpires(p)
  <2>1. /\ UNCHANGED <<shake, seat>>
        /\ UNCHANGED hand \/ (hand[p] # Nothing /\ hand' = [hand EXCEPT ![p] = Stale(hand[p])])
    BY <1>9 DEF TicketExpires
  <2>2. hand[p] # Nothing => Stale(hand[p]) \in Held /\ Stale(hand[p]) # Nothing
    BY <1>1, StaleIsHeld, HeldIsSome
  <2>3. QED BY <1>1, <1>2, <1>4, <2>1, <2>2
<1>10. QED BY <1>5, <1>6, <1>7, <1>8, <1>9

(* A node that goes leaves its players without a seat.                     *)
LEMMA NodeGoes ==
  ASSUME PlayersInv, NEW n, beginDrain(n) \/ NodeCrash(n)
  PROVE  PlayersInv'
<1>1. /\ UNCHANGED <<req, hand, shake>>
      /\ seat' = [p \in Clients |-> IF seat[p] # Nothing /\ seat[p].node = n THEN Nothing
                                    ELSE seat[p]]
  BY DEF beginDrain, NodeCrash
<1>2. seat' \in [Clients -> Seat \cup {Nothing}]
      /\ \A p \in Clients : seat[p] = Nothing => seat'[p] = Nothing
  BY <1>1 DEF PlayersInv
<1>3. QED BY <1>1, <1>2 DEF PlayersInv, RequestInv

LEMMA PlayersStep ==
  ASSUME TInv, [PlaceNext]_placeVars
  PROVE  PlayersInv'
<1>1. NodesInv /\ KeysInv /\ PlayersInv /\ CountsInv
  BY DEF TInv
<1>2. ASSUME UNCHANGED <<req, hand, shake, seat>> PROVE PlayersInv'
  BY <1>1, <1>2 DEF PlayersInv, RequestInv
<1>3. ASSUME NEW p \in Clients,
             \/ matchmake(p) \/ MatchmakeStep(p) \/ leaveLobby(p) \/ authenticateSocket(p)
             \/ HandshakeStep(p) \/ Unseat(p) \/ TicketExpires(p)
      PROVE  PlayersInv'
  <2>1. CASE matchmake(p)
    BY <1>1, <2>1, RequestStarts
  <2>2. CASE loadNodes(p)
    BY <1>1, <2>2, RequestReadsNodes
  <2>3. CASE parseNodePayload(p)
    BY <1>1, <2>3, RequestChooses
  <2>4. CASE \/ PruneDead(p) \/ TakeStaged(p) \/ TakeIssued(p) \/ Restage(p) \/ DropStaged(p)
             \/ BoundGame(p) \/ ReadOpen(p) \/ claimOpen(p) \/ ReadRaced(p) \/ OverwriteOpen(p) \/ mintTicket(p)
             \/ noteReconnectRoom(p)
    BY <2>4, RequestGoesOn
  <2>5. CASE Answer(p)
    BY <1>1, <2>5, RequestAnswers
  <2>6. CASE authenticateSocket(p) \/ HandshakeStep(p) \/ Unseat(p) \/ TicketExpires(p)
    BY <1>1, <2>6, DoorKeepsPlayers DEF HandshakeStep
  <2>7. CASE leaveLobby(p)
    BY <1>2, <2>7 DEF leaveLobby
  <2>8. QED BY <1>3, <2>1, <2>2, <2>3, <2>4, <2>5, <2>6, <2>7 DEF MatchmakeStep
<1>4. ASSUME NEW n \in Nodes, beginDrain(n) \/ NodeCrash(n) PROVE PlayersInv'
  BY <1>1, <1>4, NodeGoes
<1>5. ASSUME NEW n \in Nodes,
             register(n) \/ startHeartbeat(n) \/ drainNode(n) \/ BeatExpires(n)
      PROVE  PlayersInv'
  BY <1>2, <1>5, Zenon DEF register, startHeartbeat, drainNode, BeatExpires
<1>6. CASE OpenExpires \/ UNCHANGED placeVars
  BY <1>2, <1>6, Zenon DEF OpenExpires, placeVars
<1>7. ASSUME NEW l \in Launches, LaunchStep(l) PROVE PlayersInv'
  BY <1>2, <1>7, LaunchLeaves
<1>8. QED BY <1>3, <1>4, <1>5, <1>6, <1>7 DEF PlaceNext

LEMMA LapsesCount ==
  ASSUME CountsInv, [PlaceNext]_placeVars
  PROVE  /\ lapses' \in Nat /\ (lapses' = lapses \/ lapses' = lapses + 1)
         /\ requests' = requests \/ (requests' = requests + 1 /\ requests < MaxPlacements)
<1>1. ASSUME NEW p \in Clients, MatchmakeStep(p) \/ HandshakeStep(p)
      PROVE  UNCHANGED requests /\ (UNCHANGED lapses \/ lapses' = lapses + 1)
  <2>1. CASE \/ loadNodes(p) \/ PruneDead(p) \/ TakeStaged(p) \/ TakeIssued(p) \/ Restage(p)
             \/ DropStaged(p)
    BY <2>1, Zenon DEF loadNodes, PruneDead, TakeStaged, TakeIssued, Restage, DropStaged
  <2>2. CASE parseNodePayload(p)
    <3>1. UNCHANGED <<cluster, keys, hand, shake, seat, requests, lapses>>
      BY <2>2, Zenon DEF parseNodePayload
    <3>2. QED BY <3>1
  <2>3. CASE BoundGame(p) \/ ReadOpen(p) \/ claimOpen(p) \/ ReadRaced(p) \/ OverwriteOpen(p)
    BY <2>3, Zenon DEF BoundGame, ReadOpen, claimOpen, ReadRaced, OverwriteOpen
  <2>4. CASE mintTicket(p) \/ noteReconnectRoom(p) \/ Answer(p) \/ HandshakeStep(p)
    BY <2>4, Zenon DEF mintTicket, noteReconnectRoom, KeyLapses, Answer, HandshakeStep,
                       reconnectRoom, hostRoom
  <2>5. QED BY <1>1, <2>1, <2>2, <2>3, <2>4 DEF MatchmakeStep
<1>2. ASSUME NEW p \in Clients,
             leaveLobby(p) \/ authenticateSocket(p) \/ Unseat(p) \/ TicketExpires(p)
      PROVE  UNCHANGED requests /\ (UNCHANGED lapses \/ lapses' = lapses + 1)
  BY <1>2, Zenon DEF leaveLobby, authenticateSocket, Unseat, TicketExpires, KeyLapses
<1>3. ASSUME NEW p \in Clients, matchmake(p)
      PROVE  requests' = requests + 1 /\ requests < MaxPlacements /\ UNCHANGED lapses
  BY <1>3, Zenon DEF matchmake
<1>4. ASSUME NEW n \in Nodes,
             \/ register(n) \/ startHeartbeat(n) \/ beginDrain(n) \/ drainNode(n)
             \/ NodeCrash(n) \/ BeatExpires(n)
      PROVE  UNCHANGED requests /\ (UNCHANGED lapses \/ lapses' = lapses + 1)
  BY <1>4, Zenon
     DEF register, startHeartbeat, beginDrain, drainNode, NodeCrash, BeatExpires, KeyLapses
<1>5. ASSUME OpenExpires \/ (\E l \in Launches : LaunchStep(l)) \/ UNCHANGED placeVars
      PROVE  UNCHANGED requests /\ (UNCHANGED lapses \/ lapses' = lapses + 1)
  BY <1>5, LaunchLeaves, Zenon DEF OpenExpires, KeyLapses, placeVars
<1>6. /\ lapses' = lapses \/ lapses' = lapses + 1
      /\ requests' = requests \/ (requests' = requests + 1 /\ requests < MaxPlacements)
  <2>1. CASE UNCHANGED placeVars
    BY <1>5, <2>1
  <2>2. CASE PlaceNext
    BY <1>1, <1>2, <1>3, <1>4, <1>5, <2>2 DEF PlaceNext
  <2>3. QED BY <2>1, <2>2
<1>7. lapses \in Nat
  BY DEF CountsInv
<1>8. lapses' \in Nat
  BY ONLY <1>6, <1>7
<1>9. QED BY <1>6, <1>8, Zenon

LEMMA CountsStep ==
  ASSUME TInv, [PlaceNext]_placeVars
  PROVE  CountsInv'
<1>1. CountsInv
  BY DEF TInv
<1>2. /\ lapses' \in Nat
      /\ requests' = requests \/ (requests' = requests + 1 /\ requests < MaxPlacements)
  BY <1>1, LapsesCount
<1>3. QED BY <1>1, <1>2, PlaceConstants DEF CountsInv

LEMMA TInvStep ==
  ASSUME TInv, [PlaceNext]_placeVars
  PROVE  TInv'
BY NodesStep, KeysStep, LaunchesStep, PlayersStep, CountsStep DEF TInv

(***************************************************************************)
(* The doors, while nothing lapses.  The note of a player names the room   *)
(* of the ticket that was answered, so that no handshake is refused.  A    *)
(* staged ticket is noted by what its meta key named: so the two keys of a *)
(* player have to be one launch's, but for a player who is Passing, whose  *)
(* keys are dropped before they are read again; and what a request took of *)
(* them, and the two writes of a launch, must not meet another launch's.   *)
(***************************************************************************)
Same(t, s) == t.room = s.room /\ t.node = s.node

Passing(p) ==
  \/ req[p].pc \in {"note-staged", "drop", "note", "answer"}
  \/ hand[p] # Nothing /\ shake[p] = "idle" /\ seat[p] = Nothing

KeysAgree(p) ==
  /\ (Staging(p) = {} /\ meta[p] # Nothing) => Same(key[p], meta[p])
  /\ \A l \in Staging(p) : Same(key[p], launch[l])

Matched(p) == (key[p] # Nothing /\ ~Passing(p)) => KeysAgree(p)

Took(p) ==
  /\ req[p].pc = "issued" => meta[p] = req[p].staged
  /\ (req[p].pc \in Ticketed /\ req[p].staged # Nothing) => Same(req[p].ticket, req[p].staged)

Noted(p) ==
  /\ shake[p] # "refused"
  /\ req[p].pc \in {"drop", "answer"} => note[p] = [room |-> req[p].ticket.room]
  /\ hand[p] # Nothing => note[p] = [room |-> hand[p].room] /\ hand[p].at = hand[p].node

DoorOpens(p) == Matched(p) /\ Took(p) /\ Noted(p)

IsFresh(p) ==
  /\ key[p] # Nothing => key[p].fresh
  /\ req[p].pc \in Ticketed => req[p].ticket.fresh
  /\ hand[p] # Nothing => hand[p].fresh

FreshInv == lapses = 0 => \A p \in Clients : IsFresh(p)

DInv ==
  lapses = 0 =>
    \A p \in Clients : (Crossing(p) => p \in crossed) /\ (p \notin crossed => DoorOpens(p))

(* What happens while nothing lapses.                                      *)
LEMMA CalmSteps ==
  ASSUME CountsInv, [PlaceNext]_placeVars, lapses' = 0
  PROVE  /\ lapses = 0 /\ UNCHANGED lapses
         /\ \A p \in Clients : ~TicketExpires(p)
         /\ \A n \in Nodes : ~beginDrain(n) /\ ~NodeCrash(n) /\ ~BeatExpires(n)
         /\ \A l \in Launches : ~launchThrows(l)
         /\ ~OpenExpires /\ ~KeyLapses
<1>1. lapses = 0 /\ lapses \in Nat
  BY LapsesCount DEF CountsInv
<1>2. ~KeyLapses
  BY <1>1 DEF KeyLapses
<1>3. /\ \A p \in Clients : ~TicketExpires(p)
      /\ \A n \in Nodes : ~beginDrain(n) /\ ~NodeCrash(n) /\ ~BeatExpires(n)
      /\ \A l \in Launches : ~launchThrows(l)
      /\ ~OpenExpires
  BY <1>2, Zenon DEF TicketExpires, beginDrain, NodeCrash, BeatExpires, launchThrows, OpenExpires
<1>4. QED BY <1>1, <1>2, <1>3

(* What the actions of a request leave in it, and around it.               *)
Untouched == UNCHANGED <<openKey, key, meta, launch, note, hand, shake, seat>>

OthersAsk(p) == \A q \in Clients \ {p} : req'[q] = req[q]

LEMMA RequestFields ==
  ASSUME PlayersInv, NEW p \in Clients
  PROVE  /\ \A pc : Go(p, pc) => /\ req'[p].pc = pc /\ req'[p].ids = req[p].ids
                                 /\ req'[p].ticket = req[p].ticket /\ req'[p].node = req[p].node
                                 /\ req'[p].healthy = req[p].healthy
                                 /\ req'[p].staged = req[p].staged /\ OthersAsk(p)
         /\ \A o : Adopt(p, o) => /\ req'[p].pc = "mint" /\ req'[p].ids = req[p].ids
                                  /\ req'[p].ticket = Shared(p, o)
                                  /\ req'[p].healthy = req[p].healthy
                                  /\ req'[p].staged = req[p].staged /\ OthersAsk(p)
BY DEF PlayersInv, Placing, Go, Adopt, OthersAsk

LEMMA AnswerFields ==
  ASSUME PlayersInv, NEW p \in Clients, Answer(p)
  PROVE  /\ req'[p].pc = "idle" /\ req'[p].ids = req[p].ids /\ OthersAsk(p)
         /\ hand' = [hand EXCEPT ![p] = Handed(req[p])]
         /\ req[p].pc = "answer" /\ UNCHANGED <<openKey, key, meta, launch, note, shake, seat>>
<1>1. req \in [Clients -> Placing] /\ req[p].ids \in SUBSET Nodes
  BY DEF PlayersInv, Placing
<1>2. NoPlacement \in Placing /\ NoPlacement.pc = "idle"
  BY DEF NoPlacement, Placing
<1>3. /\ [NoPlacement EXCEPT !.ids = req[p].ids].pc = "idle"
      /\ [NoPlacement EXCEPT !.ids = req[p].ids].ids = req[p].ids
  BY <1>2 DEF Placing
<1>4. req' = [req EXCEPT ![p] = [NoPlacement EXCEPT !.ids = req[p].ids]]
  BY DEF Answer
<1>5. req'[p].pc = "idle" /\ req'[p].ids = req[p].ids /\ OthersAsk(p)
  BY <1>1, <1>3, <1>4 DEF OthersAsk
<1>6. /\ hand' = [hand EXCEPT ![p] = Handed(req[p])]
      /\ req[p].pc = "answer" /\ UNCHANGED <<openKey, key, meta, launch, note, shake, seat>>
  BY Zenon DEF Answer, Ready, keys
<1>7. QED BY <1>5, <1>6

LEMMA StartFields ==
  ASSUME PlayersInv, NEW p \in Clients, matchmake(p)
  PROVE  /\ req'[p].pc = "nodes" /\ req'[p].ids = {} /\ req[p].ids = {} /\ req[p].pc = "idle"
         /\ req'[p].ticket = [room |-> requests + 1] /\ OthersAsk(p)
         /\ shake[p] = "idle" /\ (hand[p] # Nothing => ~hand[p].fresh)
         /\ hand' = [hand EXCEPT ![p] = Nothing]
         /\ UNCHANGED <<openKey, key, meta, launch, note, shake, seat>>
<1> DEFINE t == [room |-> requests + 1]
           r == [NoPlacement EXCEPT !.pc = "nodes", !.ticket = t]
<1>1. NoPlacement \in Placing /\ NoPlacement.ids = {}
  BY DEF NoPlacement, Placing
<1>2. /\ req' = [req EXCEPT ![p] = r] /\ hand' = [hand EXCEPT ![p] = Nothing]
      /\ req[p].ids = {} /\ req[p].pc = "idle"
      /\ shake[p] = "idle" /\ (hand[p] # Nothing => ~hand[p].fresh)
      /\ UNCHANGED <<openKey, key, meta, launch, note, shake, seat>>
  BY DEF matchmake, keys, Ready
<1>3. req \in [Clients -> Placing]
  BY DEF PlayersInv
<1> HIDE DEF t
<1>4. r.pc = "nodes" /\ r.ids = {} /\ r.ticket = t
  BY <1>1 DEF Placing
<1> HIDE DEF r
<1>5. req'[p] = r /\ OthersAsk(p)
  BY <1>2, <1>3 DEF OthersAsk
<1>6. QED BY <1>2, <1>4, <1>5 DEF t

LEMMA ChoiceFields ==
  ASSUME PlayersInv, NEW p \in Clients, parseNodePayload(p)
  PROVE  /\ req[p].pc = "payloads" /\ req'[p].pc \in {"idle", "staged"}
         /\ req'[p].ids = {n \in req[p].ids : beat[n] = Nothing}
         /\ req'[p].pc = "staged" => /\ req'[p].healthy = filterHealthy(req[p].ids)
                                     /\ req'[p].ticket = req[p].ticket
         /\ OthersAsk(p) /\ Untouched
<1> DEFINE healthy == filterHealthy(req[p].ids)
           dead == {n \in req[p].ids : beat[n] = Nothing}
           none == [NoPlacement EXCEPT !.ids = dead]
<1>1. req \in [Clients -> Placing] /\ req[p] \in Placing
  BY DEF PlayersInv
<1>2. healthy \in SUBSET Nodes /\ dead \in SUBSET Nodes
  BY <1>1 DEF Placing, filterHealthy
<1>3. Untouched /\ req[p].pc = "payloads"
  <2>1. UNCHANGED <<cluster, keys, hand, shake, seat, requests, lapses>>
    BY Zenon DEF parseNodePayload
  <2>2. Ready(p, "payloads")
    BY Zenon DEF parseNodePayload
  <2>3. QED BY <2>1, <2>2 DEF keys, Ready, Untouched
<1>4. CASE selectPlacement(healthy) = {}
  <2>1. req' = [req EXCEPT ![p] = none]
    BY <1>4 DEF parseNodePayload
  <2>2. NoPlacement \in Placing /\ NoPlacement.pc = "idle"
    BY DEF NoPlacement, Placing
  <2> HIDE DEF dead
  <2>3. none.pc = "idle" /\ none.ids = dead
    BY <1>2, <2>2 DEF Placing
  <2> HIDE DEF none
  <2>4. req'[p] = none /\ OthersAsk(p)
    BY <1>1, <2>1 DEF OthersAsk
  <2>5. QED BY <1>3, <2>3, <2>4 DEF dead
<1>5. CASE selectPlacement(healthy) # {}
  <2>1. PICK n \in selectPlacement(healthy) :
          req' = [req EXCEPT ![p].pc = "staged", ![p].healthy = healthy, ![p].node = n,
                             ![p].ids = dead]
    BY <1>5, Zenon DEF parseNodePayload
  <2> HIDE DEF healthy, dead
  <2>2. /\ req'[p].pc = "staged" /\ req'[p].healthy = healthy /\ req'[p].ids = dead
        /\ req'[p].ticket = req[p].ticket /\ OthersAsk(p)
    BY <1>1, <2>1 DEF Placing, OthersAsk
  <2>3. QED BY <1>3, <2>2 DEF healthy, dead
<1>6. QED BY <1>4, <1>5

LEMMA StagedFields ==
  ASSUME PlayersInv, NEW p \in Clients, TakeStaged(p)
  PROVE  /\ req[p].pc = "staged" /\ req'[p].ids = req[p].ids /\ req'[p].healthy = req[p].healthy
         /\ req'[p].pc = IF meta[p] # Nothing THEN "issued" ELSE "bound"
         /\ req'[p].staged = meta[p] /\ req'[p].ticket = req[p].ticket
         /\ OthersAsk(p) /\ Untouched
<1>1. req \in [Clients -> Placing] /\ req[p] \in Placing
  BY DEF PlayersInv
<1>2. req[p].pc = "staged" /\ Untouched
  BY Zenon DEF TakeStaged, Ready, keys, Untouched
<1> DEFINE pc == IF meta[p] # Nothing THEN "issued" ELSE "bound"
<1>3. req' = [req EXCEPT ![p].pc = pc, ![p].staged = meta[p]]
  BY Zenon DEF TakeStaged
<1> HIDE DEF pc
<1>4. /\ req'[p].pc = pc /\ req'[p].staged = meta[p] /\ req'[p].ticket = req[p].ticket
      /\ req'[p].ids = req[p].ids /\ req'[p].healthy = req[p].healthy /\ OthersAsk(p)
  BY <1>1, <1>3 DEF Placing, OthersAsk
<1>5. QED BY <1>2, <1>4 DEF pc

LEMMA IssuedFields ==
  ASSUME PlayersInv, NEW p \in Clients, TakeIssued(p)
  PROVE  /\ req[p].pc = "issued" /\ req'[p].ids = req[p].ids /\ req'[p].healthy = req[p].healthy
         /\ \/ /\ key[p] # Nothing /\ req'[p].pc = "restage" /\ req'[p].ticket = key[p]
               /\ req'[p].staged = req[p].staged
            \/ req'[p].pc = "bound" /\ req'[p].ticket = req[p].ticket
         /\ OthersAsk(p) /\ Untouched
<1>1. req \in [Clients -> Placing] /\ req[p] \in Placing
  BY DEF PlayersInv
<1>2. req[p].pc = "issued" /\ Untouched
  BY Zenon DEF TakeIssued, Ready, keys, Untouched
<1>3. CASE key[p] # Nothing
  <2>1. req' = [req EXCEPT ![p].pc = "restage", ![p].ticket = key[p], ![p].staged = req[p].staged]
    BY <1>1, <1>3 DEF TakeIssued, Placing
  <2>2. QED BY <1>1, <1>2, <1>3, <2>1 DEF Placing, OthersAsk
<1>4. CASE key[p] = Nothing
  <2>1. req' = [req EXCEPT ![p].pc = "bound", ![p].ticket = req[p].ticket, ![p].staged = Nothing]
    BY <1>1, <1>4 DEF TakeIssued, Placing
  <2>2. QED BY <1>1, <1>2, <2>1 DEF Placing, OthersAsk
<1>5. QED BY <1>3, <1>4

LEMMA BoundFields ==
  ASSUME PlayersInv, NEW p \in Clients, BoundGame(p)
  PROVE  /\ req[p].pc = "bound" /\ req'[p].ids = req[p].ids /\ req'[p].healthy = req[p].healthy
         /\ req'[p].staged = req[p].staged
         /\ \/ /\ req'[p].pc = "mint" /\ req'[p].ticket.room = GameRoom
               /\ req'[p].ticket.fresh
            \/ req'[p].pc = "open" /\ req'[p].ticket = req[p].ticket
         /\ OthersAsk(p) /\ Untouched
<1>1. req \in [Clients -> Placing] /\ req[p] \in Placing
  BY DEF PlayersInv
<1>2. req[p].pc = "bound" /\ Untouched
  BY Zenon DEF BoundGame, Ready, keys, Untouched
<1>3. CASE bound
  <2> DEFINE t == [room |-> GameRoom, node |-> req[p].node, fresh |-> TRUE]
  <2>1. req' = [req EXCEPT ![p].pc = "mint", ![p].ticket = t]
    BY <1>3 DEF BoundGame
  <2>2. t.room = GameRoom /\ t.fresh
    OBVIOUS
  <2> HIDE DEF t
  <2>3. QED BY <1>1, <1>2, <2>1, <2>2 DEF Placing, OthersAsk
<1>4. CASE ~bound
  <2>1. req' = [req EXCEPT ![p].pc = "open", ![p].ticket = req[p].ticket]
    BY <1>1, <1>4 DEF BoundGame, Placing
  <2>2. QED BY <1>1, <1>2, <2>1 DEF Placing, OthersAsk
<1>5. QED BY <1>3, <1>4

LEMMA ReadFields ==
  ASSUME PlayersInv, NEW p \in Clients, loadNodes(p)
  PROVE  /\ req[p].pc = "nodes" /\ req'[p].pc = "payloads" /\ req'[p].ids = members
         /\ req'[p].ticket = req[p].ticket
         /\ OthersAsk(p) /\ Untouched
<1>1. req \in [Clients -> Placing] /\ req[p] \in Placing
  BY DEF PlayersInv
<1>2. req[p].pc = "nodes" /\ Untouched
  BY Zenon DEF loadNodes, Ready, keys, Untouched
<1>3. req' = [req EXCEPT ![p].ids = members, ![p].pc = "payloads"]
  BY Zenon DEF loadNodes
<1>4. QED BY <1>1, <1>2, <1>3 DEF Placing, OthersAsk

LEMMA PruneFields ==
  ASSUME PlayersInv, NEW p \in Clients, PruneDead(p)
  PROVE  /\ req'[p].pc = req[p].pc /\ req'[p].ticket = req[p].ticket
         /\ req'[p].staged = req[p].staged
         /\ req[p].ids # {} /\ req[p].pc \notin {"nodes", "payloads"}
         /\ OthersAsk(p) /\ Untouched
<1>1. req \in [Clients -> Placing] /\ req[p] \in Placing
  BY DEF PlayersInv
<1>2. Untouched /\ req[p].ids # {} /\ req[p].pc \notin {"nodes", "payloads"}
  BY Zenon DEF PruneDead, keys, Untouched
<1>3. req' = [req EXCEPT ![p].ids = {}]
  BY Zenon DEF PruneDead
<1>4. QED BY <1>1, <1>2, <1>3 DEF Placing, OthersAsk

LEMMA NoteFields ==
  ASSUME PlayersInv, NEW p \in Clients, noteReconnectRoom(p), ~KeyLapses
  PROVE  /\ note' = [note EXCEPT ![p] = [room |-> IF req[p].pc = "note" THEN req[p].ticket.room
                                                  ELSE req[p].staged.room]]
         /\ req[p].pc \in {"note", "note-staged"} /\ req'[p].pc \in {"answer", "drop"}
         /\ req'[p].ticket = req[p].ticket /\ req'[p].ids = req[p].ids
         /\ req'[p].staged = req[p].staged
         /\ OthersAsk(p) /\ UNCHANGED <<openKey, key, meta, launch, hand, shake, seat>>
<1>1. /\ note' = [note EXCEPT ![p] = [room |-> IF req[p].pc = "note" THEN req[p].ticket.room
                                               ELSE req[p].staged.room]]
      /\ req[p].pc \in {"note", "note-staged"} /\ NoteStep(p)
      /\ UNCHANGED <<openKey, key, meta, launch, hand, shake, seat>>
  BY Zenon DEF noteReconnectRoom, cluster, Ready
<1>2. Go(p, "answer") \/ Go(p, "drop")
  BY <1>1 DEF NoteStep
<1>3. QED BY <1>1, <1>2, RequestFields

(* A step of one player is none of another's, nor a lapse of anyone's.     *)
LEMMA OthersStep ==
  ASSUME PlayersInv, KeysInv, ~KeyLapses, NEW p \in Clients, NEW q \in Clients, p # q,
         \/ matchmake(p) \/ MatchmakeStep(p) \/ leaveLobby(p) \/ HandshakeStep(p)
         \/ authenticateSocket(p) \/ Unseat(p)
  PROVE  /\ req'[q] = req[q] /\ key'[q] = key[q] /\ meta'[q] = meta[q] /\ note'[q] = note[q]
         /\ hand'[q] = hand[q] /\ shake'[q] = shake[q] /\ seat'[q] = seat[q]
<1>1. CASE matchmake(p) \/ Answer(p)
  BY <1>1, StartFields, AnswerFields DEF PlayersInv, OthersAsk
<1>2. CASE \/ loadNodes(p) \/ parseNodePayload(p) \/ PruneDead(p) \/ TakeStaged(p)
           \/ TakeIssued(p) \/ BoundGame(p)
  BY <1>2, ReadFields, ChoiceFields, PruneFields, StagedFields, IssuedFields, BoundFields
     DEF OthersAsk, Untouched
<1>3. CASE noteReconnectRoom(p)
  BY <1>3, NoteFields DEF OthersAsk, KeysInv
<1>4. CASE Restage(p) \/ DropStaged(p) \/ mintTicket(p)
  <2>1. /\ \E pc : Go(p, pc)
        /\ UNCHANGED <<note, hand, shake, seat>> /\ \E t : key' = [key EXCEPT ![p] = t]
        /\ UNCHANGED meta \/ meta' = [meta EXCEPT ![p] = Nothing]
    BY <1>4 DEF Restage, DropStaged, mintTicket, WriteKey
  <2>2. QED BY <2>1, RequestFields DEF KeysInv, OthersAsk
<1>5. CASE ReadOpen(p) \/ claimOpen(p) \/ ReadRaced(p) \/ OverwriteOpen(p)
  <2>1. (\E pc : Go(p, pc)) \/ (\E o : Adopt(p, o))
    BY <1>5 DEF ReadOpen, claimOpen, ReadRaced, OverwriteOpen
  <2>2. UNCHANGED <<key, meta, note, hand, shake, seat>>
    BY <1>5 DEF ReadOpen, claimOpen, ReadRaced, OverwriteOpen, keys
  <2>3. QED BY <2>1, <2>2, RequestFields DEF OthersAsk
<1>6. CASE leaveLobby(p) \/ HandshakeStep(p) \/ authenticateSocket(p) \/ Unseat(p)
  <2>1. /\ UNCHANGED req
        /\ UNCHANGED hand \/ hand' = [hand EXCEPT ![p] = Nothing]
        /\ UNCHANGED key \/ key' = [key EXCEPT ![p] = Nothing]
        /\ UNCHANGED meta \/ meta' = [meta EXCEPT ![p] = Nothing]
        /\ UNCHANGED note \/ note' = [note EXCEPT ![p] = [room |-> hand[p].room]]
        /\ UNCHANGED shake \/ \E s : shake' = [shake EXCEPT ![p] = s]
        /\ UNCHANGED seat \/ \E s : seat' = [seat EXCEPT ![p] = s]
    BY <1>6 DEF leaveLobby, HandshakeStep, reconnectRoom, hostRoom, authenticateSocket, Unseat,
                keys, WriteKey
  <2>2. QED BY <2>1 DEF PlayersInv, KeysInv
<1>7. QED BY <1>1, <1>2, <1>3, <1>4, <1>5, <1>6 DEF MatchmakeStep

(* Tickets are fresh while nothing lapses.                                 *)
LEMMA LaunchWrites ==
  ASSUME KeysInv, LaunchesInv, NEW l \in Launches, LaunchStep(l), ~launchThrows(l),
         NEW q \in Clients
  PROVE  \/ /\ launch[l].step # "meta" /\ key'[q] = key[q] /\ meta'[q] = meta[q]
            /\ \E s : launch' = [launch EXCEPT ![l] = s] /\ s.step # "meta"
         \/ /\ launch[l].step = "key" /\ meta'[q] = meta[q]
            /\ \E p \in Clients :
                 /\ key'[q] = IF p = q THEN [room |-> launch[l].room, node |-> launch[l].node,
                                             fresh |-> TRUE]
                              ELSE key[q]
                 /\ \E s : /\ launch' = [launch EXCEPT ![l] = s] /\ s.step = "meta"
                           /\ s.player = p /\ Same(s, launch[l])
         \/ /\ launch[l].step = "meta" /\ key'[q] = key[q] /\ launch[l].player \in Clients
            /\ meta'[q] = IF launch[l].player = q
                          THEN [room |-> launch[l].room, node |-> launch[l].node] ELSE meta[q]
            /\ \E s : launch' = [launch EXCEPT ![l] = s] /\ s.step # "meta"
<1>1. launch[l] \in Launching /\ LaunchOK(launch[l])
  BY DEF LaunchesInv
<1>2. CASE launchQueue(l)
  <2>1. launch[l].step = "none" /\ UNCHANGED <<key, meta>>
    BY <1>2, Zenon DEF launchQueue, LaunchAt
  <2>2. \E s : launch' = [launch EXCEPT ![l] = s] /\ s.step # "meta"
    <3> DEFINE nodes == selectPlacement(filterHealthy(members))
    <3>1. PICK rm \in {GameRoom, -l}, players \in SUBSET Clients \ {{}} :
            IF nodes = {}
              THEN launch' = [launch EXCEPT ![l].step = "reset", ![l].room = rm]
              ELSE \E n \in nodes :
                     launch' = [launch EXCEPT ![l] = [step |-> "key", room |-> rm, node |-> n,
                                                      todo |-> players, player |-> Nothing]]
      BY <1>2, Zenon DEF launchQueue
    <3> HIDE DEF nodes
    <3>2. CASE nodes = {}
      <4> DEFINE s == [launch[l] EXCEPT !.step = "reset", !.room = rm]
      <4>1. s.step = "reset" /\ launch' = [launch EXCEPT ![l] = s]
        BY <1>1, <3>1, <3>2 DEF Launching
      <4> HIDE DEF s
      <4>2. QED BY <4>1
    <3>3. CASE nodes # {}
      <4>1. PICK n \in nodes :
              launch' = [launch EXCEPT ![l] = [step |-> "key", room |-> rm, node |-> n,
                                               todo |-> players, player |-> Nothing]]
        BY <3>1, <3>3
      <4> DEFINE s == [step |-> "key", room |-> rm, node |-> n, todo |-> players,
                       player |-> Nothing]
      <4>2. s.step = "key" /\ launch' = [launch EXCEPT ![l] = s]
        BY <4>1
      <4> HIDE DEF s
      <4>3. QED BY <4>2
    <3>4. QED BY <3>2, <3>3
  <2>3. QED BY <2>1, <2>2
<1>3. CASE resetLobby(l)
  <2>1. /\ launch[l].step = "reset" /\ UNCHANGED <<key, meta>>
        /\ launch' = [launch EXCEPT ![l] = [NoLaunch EXCEPT !.step = "done"]]
    BY <1>3, Zenon DEF resetLobby, LaunchAt
  <2>2. [NoLaunch EXCEPT !.step = "done"].step = "done"
    BY DEF NoLaunch
  <2>3. QED BY <2>1, <2>2
<1>4. CASE stageTicket(l)
  <2> DEFINE t == [room |-> launch[l].room, node |-> launch[l].node, fresh |-> TRUE]
  <2>1. PICK p \in launch[l].todo :
          /\ key' = [key EXCEPT ![p] = t]
          /\ launch' = [launch EXCEPT ![l].step = "meta", ![l].player = p, ![l].todo = @ \ {p}]
    BY <1>4, Zenon DEF stageTicket, WriteKey
  <2>2. launch[l].step = "key" /\ UNCHANGED meta /\ p \in Clients
    BY <1>1, <1>4 DEF stageTicket, LaunchAt, Launching
  <2> HIDE DEF t
  <2>3. key'[q] = IF p = q THEN t ELSE key[q]
    BY <2>1, <2>2 DEF KeysInv
  <2> DEFINE s == [launch[l] EXCEPT !.step = "meta", !.player = p, !.todo = @ \ {p}]
  <2>4. s.step = "meta" /\ s.player = p /\ s.room = launch[l].room /\ s.node = launch[l].node
    BY <1>1 DEF Launching
  <2>5. launch' = [launch EXCEPT ![l] = s]
    BY <1>1, <2>1 DEF Launching
  <2> HIDE DEF s
  <2>6. QED BY <2>2, <2>3, <2>4, <2>5 DEF Same, t
<1>5. CASE stageMeta(l)
  <2> DEFINE w == [room |-> launch[l].room, node |-> launch[l].node]
             step == IF launch[l].todo = {} THEN "reset" ELSE "key"
             s == [launch[l] EXCEPT !.step = step]
  <2>1. /\ meta' = [meta EXCEPT ![launch[l].player] = w] /\ UNCHANGED key
        /\ launch[l].step = "meta" /\ launch' = [launch EXCEPT ![l].step = step]
    BY <1>5, Zenon DEF stageMeta, LaunchAt
  <2>2. launch[l].player \in Clients
    BY <1>1, <2>1 DEF LaunchOK
  <2> HIDE DEF w
  <2>3. meta'[q] = IF launch[l].player = q THEN w ELSE meta[q]
    BY <2>1, <2>2 DEF KeysInv
  <2>4. s.step # "meta" /\ launch' = [launch EXCEPT ![l] = s]
    BY <1>1, <2>1 DEF Launching
  <2> HIDE DEF s, step
  <2>5. QED BY <2>1, <2>2, <2>3, <2>4 DEF w
<1>6. QED BY <1>2, <1>3, <1>4, <1>5 DEF LaunchStep

LEMMA FreshStep ==
  ASSUME TInv, FreshInv, [PlaceNext]_placeVars
  PROVE  FreshInv'
<1> SUFFICES ASSUME lapses' = 0, NEW q \in Clients PROVE IsFresh(q)'
  BY DEF FreshInv
<1>1. PlayersInv /\ KeysInv /\ LaunchesInv /\ CountsInv
  BY DEF TInv
<1>2. /\ lapses = 0 /\ ~KeyLapses /\ ~OpenExpires /\ \A p \in Clients : ~TicketExpires(p)
      /\ \A n \in Nodes : ~beginDrain(n) /\ ~NodeCrash(n) /\ ~BeatExpires(n)
      /\ \A l \in Launches : ~launchThrows(l)
  BY <1>1, CalmSteps
<1>3. IsFresh(q)
  BY <1>2 DEF FreshInv
<1>4. ASSUME req'[q] = req[q], key'[q] \in {key[q], Nothing}, hand'[q] \in {hand[q], Nothing}
      PROVE  IsFresh(q)'
  BY <1>3, <1>4 DEF IsFresh
<1>5. ASSUME matchmake(q) \/ MatchmakeStep(q) PROVE IsFresh(q)'
  <2>1. CASE matchmake(q) \/ loadNodes(q) \/ parseNodePayload(q)
    <3>1. /\ req'[q].pc \notin Ticketed /\ key' = key
          /\ hand' = hand \/ hand' = [hand EXCEPT ![q] = Nothing]
      BY <1>1, <2>1, StartFields, ReadFields, ChoiceFields DEF Ticketed, Untouched
    <3>2. hand'[q] \in {hand[q], Nothing}
      BY <1>1, <3>1 DEF PlayersInv
    <3>3. QED BY <1>3, <3>1, <3>2 DEF IsFresh
  <2>2. CASE PruneDead(q) \/ TakeStaged(q) \/ TakeIssued(q) \/ BoundGame(q)
    <3>1. /\ Untouched
          /\ \/ req'[q].pc \notin Ticketed
             \/ req'[q].pc = req[q].pc /\ req'[q].ticket = req[q].ticket
             \/ key[q] # Nothing /\ req'[q].ticket = key[q]
             \/ req'[q].ticket.fresh
      BY <1>1, <2>2, PruneFields, StagedFields, IssuedFields, BoundFields DEF Ticketed
    <3>2. QED BY <1>3, <3>1 DEF IsFresh, Untouched
  <2>3. CASE ReadOpen(q) \/ claimOpen(q) \/ ReadRaced(q) \/ OverwriteOpen(q)
    <3>1. /\ (\E o : Adopt(q, o)) \/ (\E pc \in {"claim", "raced", "overwrite"} : Go(q, pc))
          /\ UNCHANGED <<key, hand>>
      BY <2>3 DEF ReadOpen, claimOpen, ReadRaced, OverwriteOpen, keys
    <3>2. (\E o : req'[q].ticket = Shared(q, o)) \/ req'[q].pc \in {"claim", "raced", "overwrite"}
      BY <1>1, <3>1, RequestFields
    <3>3. req'[q].pc \in Ticketed => req'[q].ticket.fresh
      <4>1. \A o : Shared(q, o).fresh
        BY DEF Shared
      <4>2. CASE \E o : req'[q].ticket = Shared(q, o)
        BY <4>1, <4>2, Zenon
      <4>3. CASE req'[q].pc \in {"claim", "raced", "overwrite"}
        BY <4>3 DEF Ticketed
      <4>4. QED BY <3>2, <4>2, <4>3
    <3>4. QED BY <1>3, <3>1, <3>3 DEF IsFresh
  <2>4. CASE Restage(q) \/ mintTicket(q) \/ DropStaged(q)
    <3>1. /\ req[q].pc \in Ticketed /\ (\E pc : Go(q, pc)) /\ UNCHANGED hand
          /\ \E t \in {req[q].ticket, Nothing} : key' = [key EXCEPT ![q] = t]
      BY <2>4 DEF Restage, mintTicket, DropStaged, Ready, WriteKey, Ticketed
    <3>2. req'[q].ticket = req[q].ticket /\ key'[q] \in {req[q].ticket, Nothing}
      BY <1>1, <3>1, RequestFields DEF KeysInv
    <3>3. QED BY <1>3, <3>1, <3>2 DEF IsFresh
  <2>5. CASE noteReconnectRoom(q)
    <3>1. /\ req[q].pc \in Ticketed /\ req'[q].ticket = req[q].ticket /\ UNCHANGED <<key, hand>>
      BY <1>1, <1>2, <2>5, NoteFields DEF Ticketed
    <3>2. QED BY <1>3, <3>1 DEF IsFresh
  <2>6. CASE Answer(q)
    <3>1. /\ req[q].pc \in Ticketed /\ req'[q].pc \notin Ticketed /\ UNCHANGED key
          /\ hand' = [hand EXCEPT ![q] = Handed(req[q])]
      BY <1>1, <2>6, AnswerFields DEF Ticketed
    <3>2. hand'[q].fresh = req[q].ticket.fresh
      BY <1>1, <3>1 DEF PlayersInv, Handed
    <3>3. QED BY <1>3, <3>1, <3>2 DEF IsFresh
  <2>7. QED BY <1>5, <2>1, <2>2, <2>3, <2>4, <2>5, <2>6 DEF MatchmakeStep
<1>6. ASSUME leaveLobby(q) \/ authenticateSocket(q) \/ HandshakeStep(q) \/ Unseat(q)
      PROVE  IsFresh(q)'
  <2>1. /\ UNCHANGED req
        /\ UNCHANGED hand \/ hand' = [hand EXCEPT ![q] = Nothing]
        /\ UNCHANGED key \/ key' = [key EXCEPT ![q] = Nothing]
    BY <1>6 DEF leaveLobby, HandshakeStep, reconnectRoom, hostRoom, authenticateSocket, Unseat,
                keys, WriteKey
  <2>2. hand'[q] \in {hand[q], Nothing} /\ key'[q] \in {key[q], Nothing}
    BY <1>1, <2>1 DEF PlayersInv, KeysInv
  <2>3. QED BY <1>4, <2>1, <2>2
<1>7. ASSUME NEW p \in Clients,
             \/ matchmake(p) \/ MatchmakeStep(p) \/ leaveLobby(p) \/ HandshakeStep(p)
             \/ authenticateSocket(p) \/ Unseat(p)
      PROVE  IsFresh(q)'
  <2>1. CASE p # q
    BY <1>1, <1>2, <1>4, <1>7, <2>1, OthersStep
  <2>2. QED BY <1>5, <1>6, <1>7, <2>1
<1>8. ASSUME NEW n \in Nodes, register(n) \/ startHeartbeat(n) \/ drainNode(n)
      PROVE  IsFresh(q)'
  BY <1>4, <1>8, Zenon DEF register, startHeartbeat, drainNode, keys
<1>9. ASSUME NEW l \in Launches, LaunchStep(l) PROVE IsFresh(q)'
  <2>1. UNCHANGED <<req, hand>>
    BY <1>9, LaunchLeaves
  <2>2. key'[q] = key[q] \/ key'[q].fresh
    <3> DEFINE t == [room |-> launch[l].room, node |-> launch[l].node, fresh |-> TRUE]
    <3>1. t.fresh
      OBVIOUS
    <3>2. key'[q] = key[q] \/ key'[q] = t
      BY <1>1, <1>2, <1>9, LaunchWrites
    <3> HIDE DEF t
    <3>3. QED BY <3>1, <3>2
  <2>3. QED BY <1>3, <2>1, <2>2 DEF IsFresh
<1>10. CASE UNCHANGED placeVars
  BY <1>4, <1>10 DEF placeVars
<1>11. QED BY <1>2, <1>7, <1>8, <1>9, <1>10 DEF PlaceNext

(* A player's own step, the launches resting.                              *)
LEMMA AskingIsBare ==
  ASSUME PlayersInv, NEW q \in Clients
  PROVE  /\ req[q].pc # "idle" => hand[q] = Nothing /\ shake[q] = "idle" /\ seat[q] = Nothing
         /\ shake[q] # "idle" => hand[q] # Nothing /\ seat[q] = Nothing /\ req[q].pc = "idle"
         /\ seat[q] # Nothing => hand[q] # Nothing /\ shake[q] = "idle" /\ req[q].pc = "idle"
BY DEF PlayersInv

LEMMA LaunchesRest ==
  ASSUME UNCHANGED launch, NEW q
  PROVE  Staging(q)' = Staging(q)
BY DEF Staging, LaunchAt

(* A request that is not yet Passing, nor about to be.                     *)
LEMMA QuietStep ==
  ASSUME PlayersInv, NEW q \in Clients, DoorOpens(q), hand[q] = Nothing, hand'[q] = Nothing,
         UNCHANGED launch, key'[q] = key[q], meta'[q] = meta[q], shake'[q] = shake[q],
         req[q].pc \notin {"note-staged", "drop", "note", "answer"},
         req'[q].pc \notin {"note-staged", "drop", "note", "answer"},
         req'[q].pc = "issued" => meta[q] = req'[q].staged,
         (req'[q].pc \in Ticketed /\ req'[q].staged # Nothing)
           => Same(req'[q].ticket, req'[q].staged)
  PROVE  DoorOpens(q)'
<1>1. Staging(q)' = Staging(q) /\ launch' = launch
  BY LaunchesRest
<1>2. ~Passing(q) /\ ~Passing(q)'
  BY DEF Passing
<1>3. Matched(q)'
  BY <1>1, <1>2 DEF DoorOpens, Matched, KeysAgree
<1>4. Took(q)'
  BY DEF Took
<1>5. Noted(q)'
  BY DEF DoorOpens, Noted
<1>6. QED BY <1>3, <1>4, <1>5 DEF DoorOpens

LEMMA AskedDoor ==
  ASSUME PlayersInv, KeysInv, NEW q \in Clients, DoorOpens(q), IsFresh(q), ~KeyLapses,
         ~Crossing(q), UNCHANGED launch, matchmake(q) \/ MatchmakeStep(q)
  PROVE  DoorOpens(q)'
<1>1. /\ Matched(q) /\ Took(q) /\ Noted(q) /\ Staging(q)' = Staging(q) /\ launch' = launch
      /\ RequestInv(req[q]) /\ hand \in [Clients -> Held \cup {Nothing}]
  BY LaunchesRest DEF DoorOpens, PlayersInv
<1>2. /\ req[q].pc # "idle" => hand[q] = Nothing /\ shake[q] = "idle" /\ seat[q] = Nothing
  BY AskingIsBare
<1>3. CASE matchmake(q)
  <2>1. /\ req'[q].pc = "nodes" /\ req[q].pc = "idle" /\ hand[q] = Nothing
        /\ hand' = [hand EXCEPT ![q] = Nothing] /\ UNCHANGED <<key, meta, shake>>
    BY <1>3, StartFields DEF IsFresh
  <2>2. hand'[q] = Nothing
    BY <1>1, <2>1
  <2>3. QED BY <2>1, <2>2, QuietStep DEF Ticketed
<1>4. CASE loadNodes(q) \/ parseNodePayload(q)
  <2>1. /\ req'[q].pc \in {"payloads", "idle", "staged"} /\ req[q].pc \in {"nodes", "payloads"}
        /\ Untouched
    BY <1>4, ReadFields, ChoiceFields
  <2>2. QED BY <1>2, <2>1, QuietStep DEF Ticketed, Untouched
<1>5. CASE PruneDead(q)
  <2>1. /\ req'[q].pc = req[q].pc /\ req'[q].ticket = req[q].ticket
        /\ req'[q].staged = req[q].staged /\ Untouched
    BY <1>5, PruneFields
  <2>2. Passing(q)' <=> Passing(q)
    BY <2>1 DEF Passing, Untouched
  <2>3. Matched(q)'
    BY <1>1, <2>1, <2>2 DEF Matched, KeysAgree, Untouched
  <2>4. Took(q)' /\ Noted(q)'
    BY <1>1, <2>1 DEF Took, Noted, Untouched
  <2>5. QED BY <2>3, <2>4 DEF DoorOpens
<1>6. CASE TakeStaged(q)
  <2>1. /\ req[q].pc = "staged" /\ req'[q].pc \in {"issued", "bound"}
        /\ req'[q].staged = meta[q] /\ Untouched
    BY <1>6, StagedFields
  <2>2. QED BY <1>2, <2>1, QuietStep DEF Ticketed, Untouched
<1>7. CASE TakeIssued(q)
  <2>1. /\ req[q].pc = "issued" /\ Untouched
        /\ \/ /\ key[q] # Nothing /\ req'[q].pc = "restage" /\ req'[q].ticket = key[q]
              /\ req'[q].staged = req[q].staged
           \/ req'[q].pc = "bound"
    BY <1>7, IssuedFields
  <2>2. req[q].staged \in Seat /\ meta[q] = req[q].staged
    BY <1>1, <2>1 DEF RequestInv, WithStaged, Took
  <2>3. Staging(q) = {}
    BY <2>1 DEF Crossing, Ready
  <2>4. ~Passing(q)
    BY <1>2, <2>1 DEF Passing
  <2>5. key[q] # Nothing => Same(key[q], meta[q])
    BY <1>1, <2>2, <2>3, <2>4, SeatIsSome DEF Matched, KeysAgree
  <2>6. (req'[q].pc \in Ticketed /\ req'[q].staged # Nothing) => Same(req'[q].ticket, req'[q].staged)
    BY <2>1, <2>2, <2>5 DEF Ticketed
  <2>7. QED BY <1>2, <2>1, <2>6, QuietStep DEF Untouched
<1>8. CASE BoundGame(q)
  <2>1. /\ req[q].pc = "bound" /\ req'[q].pc \in {"mint", "open"} /\ Untouched
        /\ req'[q].staged = req[q].staged
    BY <1>8, BoundFields
  <2>2. req'[q].staged = Nothing
    BY <1>1, <2>1 DEF RequestInv, Unstaged
  <2>3. QED BY <1>2, <2>1, <2>2, QuietStep DEF Untouched
<1>9. CASE ReadOpen(q) \/ claimOpen(q) \/ ReadRaced(q) \/ OverwriteOpen(q)
  <2>1. /\ (\E o : Adopt(q, o)) \/ (\E pc \in {"claim", "raced", "overwrite"} : Go(q, pc))
        /\ UNCHANGED <<key, meta, note, hand, shake>>
        /\ req[q].pc \in {"open", "claim", "raced", "overwrite"}
    BY <1>9 DEF ReadOpen, claimOpen, ReadRaced, OverwriteOpen, keys, Ready
  <2>2. /\ req'[q].pc \in {"mint", "claim", "raced", "overwrite"}
        /\ req'[q].staged = req[q].staged
    BY <2>1, RequestFields
  <2>3. req'[q].staged = Nothing
    BY <1>1, <2>1, <2>2 DEF RequestInv, Unstaged
  <2>4. QED BY <1>2, <2>1, <2>2, <2>3, QuietStep
<1>10. CASE Restage(q) \/ mintTicket(q) \/ DropStaged(q)
  <2>1. /\ \/ Go(q, "note-staged") /\ req[q].pc = "restage"
           \/ Go(q, "note") /\ req[q].pc = "mint"
           \/ Go(q, "answer") /\ req[q].pc = "drop"
        /\ UNCHANGED <<note, hand, shake>>
    BY <1>10 DEF Restage, mintTicket, DropStaged, Ready
  <2>2. /\ req'[q].ticket = req[q].ticket /\ req'[q].staged = req[q].staged
        /\ req[q].pc \in Ticketed /\ req'[q].pc \in {"note-staged", "note", "answer"}
        /\ req'[q].pc = "answer" => req[q].pc = "drop"
    BY <2>1, RequestFields DEF Ticketed
  <2>3. Passing(q)'
    BY <2>2 DEF Passing
  <2>4. Took(q)' /\ Noted(q)'
    BY <1>1, <2>1, <2>2 DEF Took, Noted
  <2>5. QED BY <2>3, <2>4 DEF DoorOpens, Matched
<1>11. CASE noteReconnectRoom(q)
  <2>1. /\ note' = [note EXCEPT ![q] = [room |-> IF req[q].pc = "note" THEN req[q].ticket.room
                                                 ELSE req[q].staged.room]]
        /\ req[q].pc \in {"note", "note-staged"} /\ req'[q].pc \in {"answer", "drop"}
        /\ req'[q].ticket = req[q].ticket /\ req'[q].staged = req[q].staged
        /\ UNCHANGED <<hand, shake>>
    BY <1>11, NoteFields
  <2>2. req[q].pc = "note-staged" => req[q].staged.room = req[q].ticket.room
    <3>1. req[q].pc = "note-staged" => req[q].staged \in Seat
      BY <1>1 DEF RequestInv, WithStaged
    <3>2. QED BY <1>1, <3>1, SeatIsSome DEF Took, Same, Ticketed
  <2>3. note'[q] = [room |-> req'[q].ticket.room]
    BY <2>1, <2>2 DEF KeysInv
  <2>4. Took(q)' /\ Noted(q)' /\ Passing(q)'
    BY <1>1, <1>2, <2>1, <2>3 DEF Took, Noted, Passing, Ticketed
  <2>5. QED BY <2>4 DEF DoorOpens, Matched
<1>12. CASE Answer(q)
  <2>1. /\ req[q].pc = "answer" /\ req'[q].pc = "idle" /\ UNCHANGED <<note, shake, seat>>
        /\ hand' = [hand EXCEPT ![q] = Handed(req[q])]
    BY <1>12, AnswerFields
  <2>2. hand'[q] = Handed(req[q])
    BY <1>1, <2>1
  <2>3. /\ hand'[q].room = req[q].ticket.room /\ hand'[q].node = req[q].ticket.node
        /\ hand'[q].at = Destination(req[q]) /\ hand'[q] # Nothing
    <3>1. hand'[q] \in Held
      <4>1. (hand \in [Clients -> Held \cup {Nothing}])'
        BY RequestAnswers, <1>12 DEF PlayersInv
      <4>2. Handed(req[q]) # Nothing
        BY DEF Handed, Nothing
      <4>3. QED BY <2>2, <4>1, <4>2
    <3>2. QED BY <2>2, <3>1, HeldIsSome DEF Handed
  <2>4. Destination(req[q]) = req[q].ticket.node
    BY <1>1, <2>1 DEF Destination, Took, Same, Ticketed
  <2>5. Passing(q)'
    BY <1>2, <2>1, <2>3 DEF Passing
  <2>6. Took(q)' /\ Noted(q)'
    BY <1>1, <2>1, <2>3, <2>4 DEF Took, Noted, Ticketed
  <2>7. QED BY <2>5, <2>6 DEF DoorOpens, Matched
<1>13. QED
  BY <1>3, <1>4, <1>5, <1>6, <1>7, <1>8, <1>9, <1>10, <1>11, <1>12 DEF MatchmakeStep

LEMMA ShakenDoor ==
  ASSUME PlayersInv, KeysInv, NEW q \in Clients, DoorOpens(q), UNCHANGED launch,
         leaveLobby(q) \/ authenticateSocket(q) \/ HandshakeStep(q) \/ Unseat(q)
  PROVE  DoorOpens(q)'
<1>1. /\ Matched(q) /\ Took(q) /\ Noted(q) /\ Staging(q)' = Staging(q) /\ launch' = launch
      /\ hand \in [Clients -> Held \cup {Nothing}] /\ seat \in [Clients -> Seat \cup {Nothing}]
      /\ shake \in [Clients -> {"idle", "admit", "spent", "refused"}]
      /\ key \in [Clients -> Ticket \cup {Nothing}] /\ note \in [Clients -> Note \cup {Nothing}]
  BY LaunchesRest DEF DoorOpens, PlayersInv, KeysInv
<1>2. hand[q] # Nothing /\ req[q].pc = "idle" /\ UNCHANGED req
  BY AskingIsBare
     DEF leaveLobby, authenticateSocket, HandshakeStep, reconnectRoom, hostRoom, Unseat, PlayersInv
<1>3. Took(q)'
  BY <1>2 DEF Took, Ticketed
<1>4. CASE leaveLobby(q)
  <2>1. key' = [key EXCEPT ![q] = Nothing] /\ UNCHANGED <<note, hand, shake>>
    BY <1>4 DEF leaveLobby
  <2>2. key'[q] = Nothing
    BY <1>1, <2>1
  <2>3. Noted(q)'
    BY <1>1, <1>2, <2>1 DEF Noted
  <2>4. QED BY <1>3, <2>2, <2>3 DEF DoorOpens, Matched
<1>5. CASE authenticateSocket(q)
  <2>1. verifyTicket(hand[q], hand[q].at)
    BY <1>1, <1>2 DEF Noted, verifyTicket
  <2>2. /\ key' = [key EXCEPT ![q] = Nothing] /\ UNCHANGED <<note, hand>>
        /\ shake' = [shake EXCEPT ![q] = IF key[q] # Nothing THEN "admit" ELSE "spent"]
    BY <1>5, <2>1 DEF authenticateSocket, WriteKey
  <2>3. key'[q] = Nothing /\ shake'[q] # "refused"
    BY <1>1, <2>2
  <2>4. Noted(q)'
    BY <1>1, <1>2, <2>2, <2>3 DEF Noted
  <2>5. QED BY <1>3, <2>3, <2>4 DEF DoorOpens, Matched
<1>6. CASE reconnectRoom(q)
  <2>1. /\ UNCHANGED <<note, hand, key, meta, seat>> /\ shake[q] = "spent"
        /\ shake' = [shake EXCEPT ![q] = IF note[q] = [room |-> hand[q].room] THEN "admit"
                                         ELSE "refused"]
    BY <1>6 DEF reconnectRoom, keys
  <2>2. shake'[q] = "admit"
    BY <1>1, <1>2, <2>1 DEF Noted
  <2>3. ~Passing(q)
    BY <1>2, <2>1 DEF Passing
  <2>4. Matched(q)'
    BY <1>1, <2>1, <2>3 DEF Matched, KeysAgree
  <2>5. Noted(q)'
    BY <1>1, <1>2, <2>1, <2>2 DEF Noted
  <2>6. QED BY <1>3, <2>4, <2>5 DEF DoorOpens
<1>7. CASE hostRoom(q)
  <2>1. /\ UNCHANGED <<hand, key, meta>> /\ shake[q] = "admit" /\ shake' = [shake EXCEPT ![q] = "idle"]
        /\ note' = [note EXCEPT ![q] = [room |-> hand[q].room]]
    BY <1>7 DEF hostRoom
  <2>2. shake'[q] = "idle" /\ note'[q] = [room |-> hand[q].room]
    BY <1>1, <2>1
  <2>3. ~Passing(q)
    BY <1>2, <2>1 DEF Passing
  <2>4. Matched(q)'
    BY <1>1, <2>1, <2>3 DEF Matched, KeysAgree
  <2>5. Noted(q)'
    BY <1>1, <1>2, <2>1, <2>2 DEF Noted
  <2>6. QED BY <1>3, <2>4, <2>5 DEF DoorOpens
<1>8. CASE Unseat(q)
  <2>1. /\ hand' = [hand EXCEPT ![q] = Nothing] /\ UNCHANGED <<key, meta, note, shake>>
        /\ seat[q] # Nothing
    BY <1>8 DEF Unseat, keys
  <2>2. hand'[q] = Nothing
    BY <1>1, <2>1
  <2>3. ~Passing(q)
    BY <1>2, <2>1 DEF Passing
  <2>4. Matched(q)'
    BY <1>1, <2>1, <2>3 DEF Matched, KeysAgree
  <2>5. Noted(q)'
    BY <1>1, <1>2, <2>1, <2>2 DEF Noted
  <2>6. QED BY <1>3, <2>4, <2>5 DEF DoorOpens
<1>9. QED BY <1>4, <1>5, <1>6, <1>7, <1>8 DEF HandshakeStep

(* A launch's step, which does not meet another's.                         *)
LEMMA StagedDoor ==
  ASSUME KeysInv, LaunchesInv, NEW l \in Launches, LaunchStep(l), ~launchThrows(l),
         NEW q \in Clients, DoorOpens(q), ~Crossing(q), ~Crossing(q)'
  PROVE  DoorOpens(q)'
<1>1. /\ UNCHANGED <<note, req, hand, shake, seat>> /\ Matched(q) /\ Took(q) /\ Noted(q)
      /\ launch \in [Launches -> Launching]
  BY LaunchLeaves DEF DoorOpens, LaunchesInv
<1>2. Noted(q)' /\ (Passing(q)' <=> Passing(q))
  BY <1>1 DEF Noted, Passing
(* A launch that neither begins nor ends a staging of the player. *)
<1>3. ASSUME NEW s, launch' = [launch EXCEPT ![l] = s], l \notin Staging(q),
             s.step = "meta" => s.player # q, key'[q] = key[q], meta'[q] = meta[q]
      PROVE  DoorOpens(q)'
  <2>1. launch'[l] = s /\ \A k \in Launches \ {l} : launch'[k] = launch[k]
    BY <1>1, <1>3
  <2>2. Staging(q)' = Staging(q) /\ \A k \in Staging(q) : launch'[k] = launch[k]
    BY <1>3, <2>1 DEF Staging, LaunchAt
  <2>3. Matched(q)'
    BY <1>1, <1>2, <1>3, <2>2 DEF Matched, KeysAgree
  <2>4. Took(q)'
    BY <1>1, <1>3 DEF Took
  <2>5. QED BY <1>2, <2>3, <2>4 DEF DoorOpens
<1>4. CASE /\ launch[l].step # "meta" /\ key'[q] = key[q] /\ meta'[q] = meta[q]
           /\ \E s : launch' = [launch EXCEPT ![l] = s] /\ s.step # "meta"
  <2>1. l \notin Staging(q)
    BY <1>4 DEF Staging, LaunchAt
  <2>2. QED BY <1>3, <1>4, <2>1
<1>5. CASE /\ launch[l].step = "key" /\ meta'[q] = meta[q]
           /\ \E p \in Clients :
                /\ key'[q] = IF p = q THEN [room |-> launch[l].room, node |-> launch[l].node,
                                            fresh |-> TRUE]
                             ELSE key[q]
                /\ \E s : /\ launch' = [launch EXCEPT ![l] = s] /\ s.step = "meta"
                          /\ s.player = p /\ Same(s, launch[l])
  <2>1. PICK p \in Clients :
          /\ key'[q] = IF p = q THEN [room |-> launch[l].room, node |-> launch[l].node,
                                      fresh |-> TRUE]
                       ELSE key[q]
          /\ \E s : /\ launch' = [launch EXCEPT ![l] = s] /\ s.step = "meta"
                    /\ s.player = p /\ Same(s, launch[l])
    BY <1>5
  <2>2. PICK s : /\ launch' = [launch EXCEPT ![l] = s] /\ s.step = "meta"
                 /\ s.player = p /\ Same(s, launch[l])
    BY <2>1
  <2>3. l \notin Staging(q)
    BY <1>5 DEF Staging, LaunchAt
  <2>4. CASE p # q
    BY <1>3, <1>5, <2>1, <2>2, <2>3, <2>4
  <2>5. CASE p = q
    <3>1. launch'[l] = s /\ Same(key'[q], launch'[l])
      BY <1>1, <2>1, <2>2, <2>5 DEF Same
    <3>2. l \in Staging(q)'
      BY <2>2, <2>5, <3>1 DEF Staging, LaunchAt
    <3>3. req'[q].pc # "issued" /\ \A k \in Staging(q)' : k = l
      BY <3>2 DEF Crossing, Ready
    <3>4. Matched(q)'
      BY <3>1, <3>2, <3>3 DEF Matched, KeysAgree
    <3>5. Took(q)'
      BY <1>1, <3>3 DEF Took
    <3>6. QED BY <1>2, <3>4, <3>5 DEF DoorOpens
  <2>6. QED BY <2>4, <2>5
<1>6. CASE /\ launch[l].step = "meta" /\ key'[q] = key[q] /\ launch[l].player \in Clients
           /\ meta'[q] = IF launch[l].player = q
                         THEN [room |-> launch[l].room, node |-> launch[l].node] ELSE meta[q]
           /\ \E s : launch' = [launch EXCEPT ![l] = s] /\ s.step # "meta"
  <2>1. PICK s : launch' = [launch EXCEPT ![l] = s] /\ s.step # "meta"
    BY <1>6
  <2>2. CASE launch[l].player # q
    <3>1. l \notin Staging(q)
      BY <2>2 DEF Staging
    <3>2. QED BY <1>3, <1>6, <2>1, <2>2, <3>1
  <2>3. CASE launch[l].player = q
    <3>1. l \in Staging(q)
      BY <1>6, <2>3 DEF Staging, LaunchAt
    <3>2. req[q].pc # "issued" /\ \A k \in Staging(q) : k = l
      BY <3>1 DEF Crossing, Ready
    <3>3. launch'[l] = s /\ \A k \in Launches \ {l} : launch'[k] = launch[k]
      BY <1>1, <2>1
    <3>4. Staging(q)' = {}
      BY <2>1, <3>2, <3>3 DEF Staging, LaunchAt
    <3>5. meta'[q] = [room |-> launch[l].room, node |-> launch[l].node]
      BY <1>6, <2>3
    <3>6. (key[q] # Nothing /\ ~Passing(q)) => Same(key[q], launch[l])
      BY <1>1, <3>1 DEF Matched, KeysAgree
    <3>7. Matched(q)'
      BY <1>2, <1>6, <3>4, <3>5, <3>6 DEF Matched, KeysAgree, Same
    <3>8. Took(q)'
      BY <1>1, <3>2 DEF Took
    <3>9. QED BY <1>2, <3>7, <3>8 DEF DoorOpens
  <2>4. QED BY <2>2, <2>3
<1>7. QED BY <1>4, <1>5, <1>6, LaunchWrites

LEMMA DInvStep ==
  ASSUME TInv, FreshInv, DInv, [PlaceNext]_placeVars
  PROVE  DInv'
<1> SUFFICES ASSUME lapses' = 0, NEW q \in Clients
             PROVE  (Crossing(q) => q \in crossed)' /\ (q \notin crossed => DoorOpens(q))'
  BY DEF DInv
<1>1. PlayersInv /\ KeysInv /\ LaunchesInv /\ CountsInv
  BY DEF TInv
<1>2. /\ lapses = 0 /\ ~KeyLapses /\ ~OpenExpires /\ \A p \in Clients : ~TicketExpires(p)
      /\ \A n \in Nodes : ~beginDrain(n) /\ ~NodeCrash(n) /\ ~BeatExpires(n)
      /\ \A l \in Launches : ~launchThrows(l)
  BY <1>1, CalmSteps
<1>3. /\ \A p \in Clients : (Crossing(p) => p \in crossed) /\ (p \notin crossed => DoorOpens(p))
      /\ \A p \in Clients : IsFresh(p)
  BY <1>2 DEF DInv, FreshInv
<1>4. crossed \subseteq crossed' /\ (Crossing(q)' => q \in crossed')
  <2>1. CASE PlaceNext
    BY <2>1, Zenon DEF PlaceNext, Watch
  <2>2. CASE UNCHANGED placeVars
    <3>1. UNCHANGED <<launch, req, crossed>>
      BY <2>2 DEF placeVars
    <3>2. Crossing(q)' <=> Crossing(q)
      BY <3>1 DEF Crossing, Staging, LaunchAt, Ready
    <3>3. Crossing(q) => q \in crossed
      BY <1>3, Zenon
    <3>4. QED BY <3>1, <3>2, <3>3, Zenon
  <2>3. QED BY <2>1, <2>2
<1> SUFFICES ASSUME q \notin crossed' PROVE DoorOpens(q)'
  BY <1>4
<1>5. DoorOpens(q) /\ IsFresh(q) /\ ~Crossing(q) /\ ~Crossing(q)'
  <2>1. q \notin crossed /\ ~Crossing(q)'
    BY <1>4, Zenon
  <2>2. (Crossing(q) => q \in crossed) /\ (q \notin crossed => DoorOpens(q)) /\ IsFresh(q)
    BY <1>3, Zenon
  <2>3. QED BY <2>1, <2>2, Zenon
<1>6. ASSUME req'[q] = req[q], key'[q] = key[q], meta'[q] = meta[q], note'[q] = note[q],
             hand'[q] = hand[q], shake'[q] = shake[q], seat'[q] = seat[q], UNCHANGED launch
      PROVE  DoorOpens(q)'
  <2>1. Staging(q)' = Staging(q) /\ (Passing(q)' <=> Passing(q))
    BY <1>6, LaunchesRest DEF Passing
  <2>2. Matched(q)'
    BY <1>5, <1>6, <2>1 DEF DoorOpens, Matched, KeysAgree
  <2>3. Took(q)' /\ Noted(q)'
    BY <1>5, <1>6 DEF DoorOpens, Took, Noted
  <2>4. QED BY <2>2, <2>3 DEF DoorOpens
<1>7. CASE \E l \in Launches : LaunchStep(l)
  BY <1>1, <1>2, <1>5, <1>7, StagedDoor
<1>8. CASE UNCHANGED launch
  <2>1. ASSUME NEW p \in Clients,
               \/ matchmake(p) \/ MatchmakeStep(p) \/ leaveLobby(p) \/ HandshakeStep(p)
               \/ authenticateSocket(p) \/ Unseat(p)
        PROVE  DoorOpens(q)'
    <3>1. CASE p # q
      BY <1>1, <1>2, <1>6, <1>8, <2>1, <3>1, OthersStep
    <3>2. CASE p = q
      BY <1>1, <1>2, <1>5, <1>8, <2>1, <3>2, AskedDoor, ShakenDoor
    <3>3. QED BY <3>1, <3>2
  <2>2. ASSUME NEW n \in Nodes, register(n) \/ startHeartbeat(n) \/ drainNode(n)
        PROVE  DoorOpens(q)'
    BY <1>6, <1>8, <2>2, Zenon DEF register, startHeartbeat, drainNode, keys
  <2>3. CASE UNCHANGED placeVars
    BY <1>6, <1>8, <2>3 DEF placeVars
  <2>4. QED BY <1>2, <1>7, <2>1, <2>2, <2>3 DEF PlaceNext
<1>9. QED BY <1>7, <1>8, OthersLeaveLaunches

(***************************************************************************)
(* The shared world.  While nothing lapses the fleet stays up and listed;  *)
(* while besides no node is full, every request finds every node healthy,  *)
(* and so whoever finds an open world goes there.                          *)
(***************************************************************************)
NodeUp(n) ==
  /\ node[n].live /\ node[n].leaving = 0
  /\ beat[n] \in Beat /\ ~beat[n].draining
  /\ beat[n].rooms <= Cardinality(node[n].rooms)

FleetInv ==
  lapses = 0 =>
    /\ members = Nodes
    /\ \A n \in Nodes : NodeUp(n)
    /\ \A p \in Clients : req[p].ids = IF req[p].pc = "payloads" THEN Nodes ELSE {}

(* A ticket for an unranked world is for the open one.                     *)
OfWorld(t, openNow) ==
  t # Nothing /\ t.room \in WorldRooms =>
    openNow # Nothing /\ t.room = openNow.room /\ t.node = openNow.node

InWorld(p) ==
  /\ req[p].pc \in Choosing \ {"nodes", "payloads"} => req[p].healthy = Nodes
  /\ req[p].pc # "overwrite"
  /\ req[p].pc = "raced" => openKey # Nothing
  /\ req[p].pc \in Ticketed => OfWorld(req[p].ticket, openKey)
  /\ OfWorld(key[p], openKey) /\ OfWorld(hand[p], openKey)

WorldInv == lapses = 0 /\ RoomToSpare => \A p \in Clients : InWorld(p)

WInv == FleetInv /\ WorldInv

(* Rooms are only added while nothing lapses.                              *)
LEMMA HostAddsRoom ==
  ASSUME NodesInv, PlayersInv, NEW p \in Clients, hostRoom(p), NEW n \in Nodes
  PROVE  /\ node'[n].live = node[n].live /\ node'[n].leaving = node[n].leaving
         /\ Cardinality(node[n].rooms) <= Cardinality(node'[n].rooms)
         /\ Cardinality(node[n].rooms) \in Nat /\ Cardinality(node'[n].rooms) \in Nat
<1> DEFINE m == hand[p].node
           r == hand[p].room
           R == node[n].rooms
<1>1. hand[p] \in Held
  BY DEF hostRoom, PlayersInv
<1>2. r \in PlacedRooms
  BY <1>1 DEF Held
<1>3. node \in [Nodes -> Instance] /\ node[n] \in Instance /\ R \subseteq PlacedRooms
  BY DEF NodesInv, Instance
<1>4. node' = [node EXCEPT ![m].rooms = @ \cup {r}] \/ UNCHANGED node
  BY DEF hostRoom
<1>5. /\ node'[n].live = node[n].live /\ node'[n].leaving = node[n].leaving
      /\ node'[n].rooms = R \/ node'[n].rooms = R \cup {r}
  BY <1>3, <1>4 DEF Instance
<1> DEFINE S == node'[n].rooms
<1>6. S = R \/ S = R \cup {r}
  BY <1>5
<1> HIDE DEF R, r, S
<1>7. /\ Cardinality(R) \in Nat
      /\ r \in R => R \cup {r} = R
      /\ r \notin R => Cardinality(R \cup {r}) = Cardinality(R) + 1
  BY ONLY <1>2, <1>3, RoomsAreFinite
<1>8. Cardinality(R) <= Cardinality(S) /\ Cardinality(S) \in Nat
  <2>1. CASE S = R
    BY <1>7, <2>1
  <2>2. CASE r \in R
    BY <1>6, <1>7, <2>2
  <2>3. CASE r \notin R /\ S = R \cup {r}
    BY <1>7, <2>3
  <2>4. QED BY <1>6, <2>1, <2>2, <2>3
<1>9. QED BY <1>5, <1>7, <1>8 DEF R, S

(* A request while nothing lapses: what it read of the nodes.              *)
LEMMA IdsStep ==
  ASSUME PlayersInv, FleetInv, lapses = 0, ~KeyLapses, NEW p \in Clients,
         matchmake(p) \/ MatchmakeStep(p)
  PROVE  /\ req'[p].ids = IF req'[p].pc = "payloads" THEN Nodes ELSE {}
         /\ \A q \in Clients \ {p} : req'[q] = req[q]
         /\ ~PruneDead(p)
<1>1. /\ members = Nodes /\ \A n \in Nodes : beat[n] # Nothing
      /\ req[p].ids = IF req[p].pc = "payloads" THEN Nodes ELSE {}
  BY BeatIsSome DEF FleetInv, NodeUp
<1>2. ~PruneDead(p)
  BY <1>1, PruneFields
<1>3. CASE matchmake(p)
  BY <1>2, <1>3, StartFields DEF OthersAsk
<1>4. CASE loadNodes(p)
  BY <1>1, <1>2, <1>4, ReadFields DEF OthersAsk
<1>5. CASE parseNodePayload(p)
  <2>1. {n \in req[p].ids : beat[n] = Nothing} = {}
    BY <1>1, <1>5, ChoiceFields
  <2>2. QED BY <1>2, <1>5, <2>1, ChoiceFields DEF OthersAsk
<1>6. CASE TakeStaged(p) \/ TakeIssued(p) \/ BoundGame(p)
  BY <1>1, <1>2, <1>6, StagedFields, IssuedFields, BoundFields DEF OthersAsk
<1>7. CASE noteReconnectRoom(p)
  BY <1>1, <1>2, <1>7, NoteFields DEF OthersAsk
<1>8. CASE Answer(p)
  BY <1>1, <1>2, <1>8, AnswerFields DEF OthersAsk
<1>9. CASE \/ Restage(p) \/ DropStaged(p) \/ mintTicket(p) \/ ReadOpen(p) \/ claimOpen(p)
           \/ ReadRaced(p) \/ OverwriteOpen(p)
  <2>1. req[p].pc # "payloads"
    BY <1>9 DEF Restage, DropStaged, mintTicket, ReadOpen, claimOpen, ReadRaced, OverwriteOpen,
                Ready
  <2>2. (\E o : Adopt(p, o)) \/ (\E pc : pc # "payloads" /\ Go(p, pc))
    BY <1>9 DEF Restage, DropStaged, mintTicket, ReadOpen, claimOpen, ReadRaced, OverwriteOpen
  <2>3. QED BY <1>1, <1>2, <2>1, <2>2, RequestFields DEF OthersAsk
<1>10. QED BY <1>2, <1>3, <1>4, <1>5, <1>6, <1>7, <1>8, <1>9 DEF MatchmakeStep

(* The fleet while nothing lapses, and its rooms.                          *)
LEMMA FleetMoves ==
  ASSUME TInv, FleetInv, [PlaceNext]_placeVars, lapses' = 0
  PROVE  /\ members' = Nodes
         /\ \A n \in Nodes : /\ NodeUp(n)'
                             /\ Cardinality(node[n].rooms) <= Cardinality(node'[n].rooms)
                             /\ Cardinality(node[n].rooms) \in Nat
                             /\ Cardinality(node'[n].rooms) \in Nat
<1>1. NodesInv /\ PlayersInv /\ CountsInv
  BY DEF TInv
<1>2. /\ lapses = 0 /\ ~KeyLapses /\ ~OpenExpires /\ \A p \in Clients : ~TicketExpires(p)
      /\ \A n \in Nodes : ~beginDrain(n) /\ ~NodeCrash(n) /\ ~BeatExpires(n)
  BY <1>1, CalmSteps
<1>3. members = Nodes /\ \A n \in Nodes : NodeUp(n)
  BY <1>2 DEF FleetInv
<1>4. \A n \in Nodes : Cardinality(node[n].rooms) \in Nat
  <2> SUFFICES ASSUME NEW n \in Nodes PROVE Cardinality(node[n].rooms) \in Nat
    OBVIOUS
  <2>1. node[n].rooms \subseteq PlacedRooms
    BY <1>1 DEF NodesInv, Instance
  <2>2. QED BY <2>1, RoomsCount
<1> DEFINE Good == /\ members' = Nodes
                   /\ \A n \in Nodes : /\ NodeUp(n)'
                             /\ Cardinality(node[n].rooms) <= Cardinality(node'[n].rooms)
                             /\ Cardinality(node[n].rooms) \in Nat
                             /\ Cardinality(node'[n].rooms) \in Nat
<1>5. ASSUME ClusterRests PROVE Good
  BY <1>3, <1>4, <1>5 DEF ClusterRests, NodeUp
<1>6. ASSUME NEW p \in Clients, hostRoom(p) PROVE Good
  <2>1. UNCHANGED <<members, beat>>
    BY <1>6 DEF hostRoom
  <2> SUFFICES ASSUME NEW n \in Nodes
               PROVE  /\ NodeUp(n)'
                      /\ Cardinality(node[n].rooms) <= Cardinality(node'[n].rooms)
                      /\ Cardinality(node'[n].rooms) \in Nat
    BY <1>3, <1>4, <2>1
  <2>2. /\ node'[n].live = node[n].live /\ node'[n].leaving = node[n].leaving
        /\ Cardinality(node[n].rooms) <= Cardinality(node'[n].rooms)
        /\ Cardinality(node[n].rooms) \in Nat /\ Cardinality(node'[n].rooms) \in Nat
    BY <1>1, <1>6, HostAddsRoom
  <2> DEFINE old == Cardinality(node[n].rooms)
             new == Cardinality(node'[n].rooms)
             told == beat[n].rooms
  <2>3. told \in Nat /\ told <= old
    BY <1>3 DEF NodeUp, Beat
  <2>4. told <= new
    <3> HIDE DEF old, new, told
    <3>1. old \in Nat /\ new \in Nat /\ old <= new
      BY <2>2 DEF old, new
    <3>2. QED BY ONLY <2>3, <3>1
  <2>5. QED BY <1>3, <2>1, <2>2, <2>4 DEF NodeUp
<1>7. ASSUME NEW n \in Nodes, startHeartbeat(n) PROVE Good
  <2>1. /\ UNCHANGED node /\ beat' = [beat EXCEPT ![n] = payload(n, FALSE)]
        /\ members' = members \cup {n}
    BY <1>7 DEF startHeartbeat
  <2>2. /\ payload(n, FALSE) \in Beat /\ payload(n, FALSE).draining = FALSE
        /\ payload(n, FALSE).rooms = Cardinality(node[n].rooms)
    BY <1>1, PayloadIsBeat
  <2>3. \A m \in Nodes : NodeUp(m)'
    <3> SUFFICES ASSUME NEW m \in Nodes PROVE NodeUp(m)'
      OBVIOUS
    <3> DEFINE b == payload(n, FALSE)
    <3>1. beat'[m] = IF m = n THEN b ELSE beat[m]
      BY <1>1, <2>1 DEF NodesInv
    <3>2. b \in Beat /\ ~b.draining /\ b.rooms = Cardinality(node[n].rooms)
      BY <2>2
    <3> HIDE DEF b
    <3>3. CASE m = n
      <4>1. beat'[m] = b /\ node'[m] = node[m]
        BY <2>1, <3>1, <3>3
      <4>2. b \in Beat /\ ~b.draining /\ b.rooms <= Cardinality(node[m].rooms)
        BY <1>4, <3>2, <3>3
      <4>3. node[m].live /\ node[m].leaving = 0
        BY <1>3 DEF NodeUp
      <4>4. QED BY <4>1, <4>2, <4>3 DEF NodeUp
    <3>4. CASE m # n
      BY <1>3, <2>1, <3>1, <3>4 DEF NodeUp
    <3>5. QED BY <3>3, <3>4
  <2>4. QED BY <1>3, <1>4, <2>1, <2>3
<1>8. \A n \in Nodes : ~register(n) /\ ~drainNode(n)
  <2> SUFFICES ASSUME NEW n \in Nodes, register(n) \/ drainNode(n) PROVE FALSE
    OBVIOUS
  <2>1. node[n].live /\ node[n].leaving = 0
    BY <1>3 DEF NodeUp
  <2>2. QED BY <2>1 DEF register, drainNode
<1>9. \A p \in Clients : ~PruneDead(p)
  <2> SUFFICES ASSUME NEW p \in Clients, PruneDead(p) PROVE FALSE
    OBVIOUS
  <2>1. req[p].ids # {} /\ req[p].pc # "payloads"
    BY <1>1, PruneFields
  <2>2. QED BY <1>2, <2>1 DEF FleetInv
<1>10. ASSUME NEW p \in Clients,
              \/ matchmake(p) \/ MatchmakeStep(p) \/ leaveLobby(p) \/ authenticateSocket(p)
              \/ HandshakeStep(p) \/ Unseat(p)
       PROVE  Good
  <2>1. CASE hostRoom(p)
    BY <1>6, <2>1
  <2>2. CASE ~hostRoom(p)
    BY <1>5, <1>9, <1>10, <2>2, RequestsLeaveNodes DEF MatchmakeStep, HandshakeStep
  <2>3. QED BY <2>1, <2>2
<1>11. ASSUME (\E l \in Launches : LaunchStep(l)) \/ UNCHANGED placeVars PROVE Good
  BY <1>5, <1>11, LaunchLeaves DEF placeVars, ClusterRests
<1> HIDE DEF Good
<1>12. Good
  BY <1>2, <1>7, <1>8, <1>10, <1>11 DEF PlaceNext
<1>13. QED BY <1>12 DEF Good

LEMMA FleetInvStep ==
  ASSUME TInv, FleetInv, [PlaceNext]_placeVars
  PROVE  FleetInv'
<1> SUFFICES ASSUME lapses' = 0
             PROVE  /\ members' = Nodes
                    /\ \A n \in Nodes : NodeUp(n)'
                    /\ \A q \in Clients :
                         req'[q].ids = IF req'[q].pc = "payloads" THEN Nodes ELSE {}
  BY DEF FleetInv
<1>1. members' = Nodes /\ \A n \in Nodes : NodeUp(n)'
  BY FleetMoves
<1>2. PlayersInv /\ CountsInv
  BY DEF TInv
<1>3. /\ lapses = 0 /\ ~KeyLapses /\ ~OpenExpires /\ \A p \in Clients : ~TicketExpires(p)
      /\ \A n \in Nodes : ~beginDrain(n) /\ ~NodeCrash(n) /\ ~BeatExpires(n)
  BY <1>2, CalmSteps
<1>4. \A q \in Clients : req[q].ids = IF req[q].pc = "payloads" THEN Nodes ELSE {}
  BY <1>3 DEF FleetInv
<1> DEFINE Good == \A q \in Clients :
                     req'[q].ids = IF req'[q].pc = "payloads" THEN Nodes ELSE {}
<1>5. ASSUME UNCHANGED req PROVE Good
  BY <1>4, <1>5
<1>6. ASSUME NEW p \in Clients, matchmake(p) \/ MatchmakeStep(p) PROVE Good
  <2>1. /\ req'[p].ids = IF req'[p].pc = "payloads" THEN Nodes ELSE {}
        /\ \A q \in Clients \ {p} : req'[q] = req[q]
    BY <1>2, <1>3, <1>6, IdsStep
  <2>2. QED BY <1>4, <2>1
<1>7. ASSUME NEW p \in Clients,
             leaveLobby(p) \/ authenticateSocket(p) \/ HandshakeStep(p) \/ Unseat(p)
      PROVE  Good
  BY <1>5, <1>7, Zenon
     DEF leaveLobby, authenticateSocket, HandshakeStep, reconnectRoom, hostRoom, Unseat
<1>8. ASSUME NEW n \in Nodes, register(n) \/ startHeartbeat(n) \/ drainNode(n) PROVE Good
  BY <1>5, <1>8, Zenon DEF register, startHeartbeat, drainNode
<1>9. ASSUME (\E l \in Launches : LaunchStep(l)) \/ UNCHANGED placeVars PROVE Good
  BY <1>5, <1>9, LaunchLeaves DEF placeVars
<1> HIDE DEF Good
<1>10. Good
  BY <1>3, <1>6, <1>7, <1>8, <1>9 DEF PlaceNext
<1>11. QED BY <1>1, <1>10 DEF Good

(* A node with room to spare is healthy, and none had less room before.    *)
LEMMA RoomToSpareBefore ==
  ASSUME TInv, FleetInv, [PlaceNext]_placeVars, lapses' = 0, RoomToSpare'
  PROVE  RoomToSpare
<1> SUFFICES ASSUME NEW n \in Nodes PROVE Cardinality(node[n].rooms) < MaxRoomsPerNode
  BY DEF RoomToSpare
<1> DEFINE old == Cardinality(node[n].rooms)
           new == Cardinality(node'[n].rooms)
<1>1. old <= new /\ old \in Nat /\ new \in Nat
  BY FleetMoves
<1>2. new < MaxRoomsPerNode
  BY DEF RoomToSpare
<1> HIDE DEF old, new
<1>3. old < MaxRoomsPerNode
  BY ONLY <1>1, <1>2, PlaceConstants
<1>4. QED BY <1>3 DEF old

LEMMA AllAreHealthy ==
  ASSUME TInv, FleetInv, lapses = 0, RoomToSpare
  PROVE  filterHealthy(Nodes) = Nodes
<1> SUFFICES ASSUME NEW n \in Nodes
             PROVE  beat[n] # Nothing /\ ~beat[n].draining /\ beat[n].rooms < MaxRoomsPerNode
  BY DEF filterHealthy
<1>1. beat[n] \in Beat /\ ~beat[n].draining /\ beat[n].rooms <= Cardinality(node[n].rooms)
  BY DEF FleetInv, NodeUp
<1>2. beat[n] # Nothing /\ beat[n].rooms \in Nat
  BY <1>1, BeatIsSome DEF Beat
<1>3. node[n].rooms \subseteq PlacedRooms
  BY DEF TInv, NodesInv, Instance
<1> DEFINE old == Cardinality(node[n].rooms)
           told == beat[n].rooms
<1>4. old \in Nat
  BY <1>3, RoomsCount
<1>5. old < MaxRoomsPerNode /\ told <= old /\ told \in Nat
  BY <1>1, <1>2 DEF RoomToSpare
<1> HIDE DEF old, told
<1>6. told < MaxRoomsPerNode
  BY ONLY <1>4, <1>5, PlaceConstants
<1>7. QED BY <1>1, <1>2, <1>6 DEF told

(* While nothing lapses the open world's pointer is written once.          *)
LEMMA OpenWorldStays ==
  ASSUME WorldInv, lapses = 0, RoomToSpare, ~KeyLapses, ~OpenExpires, [PlaceNext]_placeVars,
         \A n \in Nodes : ~beginDrain(n) /\ ~NodeCrash(n) /\ ~BeatExpires(n),
         \A p \in Clients : ~TicketExpires(p)
  PROVE  openKey' = openKey \/ openKey = Nothing
<1>1. \A p \in Clients : ~OverwriteOpen(p)
  BY DEF WorldInv, InWorld, OverwriteOpen, Ready
<1>2. ASSUME NEW p \in Clients, claimOpen(p)
      PROVE  openKey' = openKey \/ openKey = Nothing
  BY <1>2 DEF claimOpen
<1>3. ASSUME NEW p \in Clients,
             \/ matchmake(p) \/ loadNodes(p) \/ PruneDead(p) \/ TakeStaged(p) \/ TakeIssued(p)
             \/ BoundGame(p) \/ ReadOpen(p) \/ ReadRaced(p)
      PROVE  openKey' = openKey
  BY <1>3, Zenon DEF matchmake, loadNodes, PruneDead, TakeStaged, TakeIssued, BoundGame, ReadOpen,
                     ReadRaced, keys
<1>4. ASSUME NEW p \in Clients,
             \/ Restage(p) \/ DropStaged(p) \/ mintTicket(p) \/ noteReconnectRoom(p) \/ Answer(p)
             \/ leaveLobby(p) \/ authenticateSocket(p) \/ HandshakeStep(p) \/ Unseat(p)
      PROVE  openKey' = openKey
  BY <1>4, Zenon DEF Restage, DropStaged, mintTicket, noteReconnectRoom, Answer, leaveLobby,
                     authenticateSocket, HandshakeStep, reconnectRoom, hostRoom, Unseat, keys
<1>5. ASSUME NEW p \in Clients, parseNodePayload(p) PROVE openKey' = openKey
  <2>1. UNCHANGED <<cluster, keys, hand, shake, seat, requests, lapses>>
    BY <1>5, Zenon DEF parseNodePayload
  <2>2. QED BY <2>1 DEF keys
<1>6. ASSUME NEW n \in Nodes, register(n) \/ startHeartbeat(n) \/ drainNode(n)
      PROVE  openKey' = openKey
  BY <1>6, Zenon DEF register, startHeartbeat, drainNode, keys
<1>7. ASSUME (\E l \in Launches : LaunchStep(l)) \/ UNCHANGED placeVars
      PROVE  openKey' = openKey
  BY <1>7, LaunchLeaves DEF placeVars
<1>8. CASE PlaceNext
  BY <1>1, <1>2, <1>3, <1>4, <1>5, <1>6, <1>7, <1>8 DEF PlaceNext, MatchmakeStep
<1>9. QED BY <1>7, <1>8

(* Whoever finds an open world goes there, and claims it when none is.     *)
LEMMA WorldIsAdopted ==
  ASSUME PlayersInv, KeysInv, NEW q \in Clients, InWorld(q),
         ReadOpen(q) \/ claimOpen(q) \/ ReadRaced(q)
  PROVE  InWorld(q)'
<1>1. /\ openKey \in Seat \cup {Nothing} /\ req[q].healthy = Nodes
      /\ OfWorld(key[q], openKey) /\ OfWorld(hand[q], openKey)
      /\ UNCHANGED <<key, hand>>
  <2>1. req[q].pc \in Choosing \ {"nodes", "payloads"}
    BY DEF ReadOpen, claimOpen, ReadRaced, Ready, Choosing
  <2>2. UNCHANGED <<key, hand>>
    BY Zenon DEF ReadOpen, claimOpen, ReadRaced, keys
  <2>3. QED BY <2>1, <2>2 DEF KeysInv, InWorld
<1>2. openKey # Nothing => openKey.node \in req[q].healthy
  BY <1>1 DEF Seat
<1>3. \A o \in Seat : OfWorld(Shared(q, o), o)
  BY SeatIsSome DEF OfWorld, Shared
<1>4. ASSUME NEW o \in Seat, Adopt(q, o), openKey' = o,
             OfWorld(key[q], o), OfWorld(hand[q], o)
      PROVE  InWorld(q)'
  <2>1. req'[q].pc = "mint" /\ req'[q].ticket = Shared(q, o)
    BY <1>4, RequestFields
  <2>2. OfWorld(req'[q].ticket, openKey')
    BY <1>3, <1>4, <2>1
  <2>3. OfWorld(key'[q], openKey') /\ OfWorld(hand'[q], openKey')
    BY <1>1, <1>4
  <2>4. QED BY <2>1, <2>2, <2>3 DEF InWorld, Choosing, Ticketed
<1>5. ASSUME NEW pc \in {"claim", "raced"}, Go(q, pc), openKey' = openKey,
             pc = "raced" => openKey # Nothing
      PROVE  InWorld(q)'
  <2>1. req'[q].pc = pc /\ req'[q].healthy = Nodes
    BY <1>1, <1>5, RequestFields
  <2>2. OfWorld(key'[q], openKey') /\ OfWorld(hand'[q], openKey')
    BY <1>1, <1>5
  <2>3. QED BY <1>5, <2>1, <2>2 DEF InWorld, Choosing, Ticketed
<1>6. CASE ReadOpen(q) \/ ReadRaced(q)
  <2>1. openKey' = openKey
    BY <1>6 DEF ReadOpen, ReadRaced, keys
  <2>2. CASE openKey # Nothing
    <3>1. Adopt(q, openKey)
      BY <1>2, <1>6, <2>2 DEF ReadOpen, ReadRaced
    <3>2. QED BY <1>1, <1>4, <2>1, <2>2, <3>1
  <2>3. CASE openKey = Nothing
    <3>1. ~ReadRaced(q)
      BY <2>3 DEF InWorld, ReadRaced, Ready
    <3>2. Go(q, "claim")
      BY <1>6, <2>3, <3>1 DEF ReadOpen
    <3>3. QED BY <1>5, <2>1, <3>2
  <2>4. QED BY <2>2, <2>3
<1>7. CASE claimOpen(q)
  <2>1. CASE openKey = Nothing
    <3>1. openKey' = Candidate(q) /\ Adopt(q, Candidate(q))
      BY <1>7, <2>1 DEF claimOpen
    <3>2. Candidate(q) \in Seat
      BY <1>7, CandidateIsSeat DEF claimOpen, Ready
    <3>3. \A t, o : OfWorld(t, openKey) => OfWorld(t, o)
      BY <2>1 DEF OfWorld
    <3>4. QED BY <1>1, <1>4, <3>1, <3>2, <3>3
  <2>2. CASE openKey # Nothing
    <3>1. openKey' = openKey /\ Go(q, "raced")
      BY <1>7, <2>2 DEF claimOpen
    <3>2. QED BY <1>5, <2>2, <3>1
  <2>3. QED BY <2>1, <2>2
<1>8. QED BY <1>6, <1>7

(* A player's own step, the open world written at most by that step.       *)
LEMMA RequestInWorld ==
  ASSUME PlayersInv, KeysInv, FleetInv, NEW q \in Clients, InWorld(q), ~KeyLapses, lapses = 0,
         filterHealthy(Nodes) = Nodes, matchmake(q) \/ MatchmakeStep(q)
  PROVE  InWorld(q)'
<1>1. /\ OfWorld(key[q], openKey) /\ OfWorld(hand[q], openKey) /\ OfWorld(Nothing, openKey)
      /\ req[q].pc \in Choosing \ {"nodes", "payloads"} => req[q].healthy = Nodes
      /\ req[q].pc \in Ticketed => OfWorld(req[q].ticket, openKey)
      /\ req[q].pc # "overwrite" /\ (req[q].pc = "raced" => openKey # Nothing)
  BY DEF InWorld, OfWorld
<1>2. ~PruneDead(q) /\ ~OverwriteOpen(q)
  BY <1>1, IdsStep DEF OverwriteOpen, Ready
<1>3. CASE matchmake(q)
  <2>1. /\ req'[q].pc = "nodes" /\ hand'[q] = Nothing /\ key'[q] = key[q] /\ openKey' = openKey
    BY <1>3, StartFields DEF PlayersInv
  <2>2. QED BY <1>1, <2>1 DEF InWorld, Choosing, Ticketed
<1>4. CASE loadNodes(q)
  <2>1. /\ req'[q].pc = "payloads" /\ hand' = hand /\ key' = key /\ openKey' = openKey
    BY <1>4, ReadFields DEF Untouched
  <2>2. QED BY <1>1, <2>1 DEF InWorld, Choosing, Ticketed
<1>5. CASE parseNodePayload(q)
  <2>1. /\ req[q].pc = "payloads" /\ req'[q].pc \in {"idle", "staged"}
        /\ req'[q].pc = "staged" => req'[q].healthy = filterHealthy(req[q].ids)
        /\ hand' = hand /\ key' = key /\ openKey' = openKey
    BY <1>5, ChoiceFields DEF Untouched
  <2>2. req[q].ids = Nodes
    BY <2>1 DEF FleetInv
  <2>3. QED BY <1>1, <2>1, <2>2 DEF InWorld, Choosing, Ticketed
<1>6. CASE TakeStaged(q)
  <2>1. /\ req[q].pc = "staged" /\ req'[q].healthy = req[q].healthy
        /\ req'[q].pc \in {"issued", "bound"} /\ hand' = hand /\ key' = key /\ openKey' = openKey
    BY <1>6, StagedFields DEF Untouched
  <2>2. req[q].healthy = Nodes
    BY <1>1, <2>1 DEF Choosing
  <2>3. QED BY <1>1, <2>1, <2>2 DEF InWorld, Choosing, Ticketed
<1>7. CASE TakeIssued(q)
  <2>1. /\ req[q].pc = "issued" /\ req'[q].healthy = req[q].healthy
        /\ \/ req'[q].pc = "restage" /\ req'[q].ticket = key[q]
           \/ req'[q].pc = "bound"
        /\ hand' = hand /\ key' = key /\ openKey' = openKey
    BY <1>7, IssuedFields DEF Untouched
  <2>2. req[q].healthy = Nodes
    BY <1>1, <2>1 DEF Choosing
  <2>3. QED BY <1>1, <2>1, <2>2 DEF InWorld, Choosing, Ticketed
<1>8. CASE BoundGame(q)
  <2>1. /\ req[q].pc = "bound" /\ req'[q].healthy = req[q].healthy
        /\ \/ req'[q].pc = "mint" /\ req'[q].ticket.room = GameRoom
           \/ req'[q].pc = "open"
        /\ hand' = hand /\ key' = key /\ openKey' = openKey
    BY <1>8, BoundFields DEF Untouched
  <2>2. req[q].healthy = Nodes
    BY <1>1, <2>1 DEF Choosing
  <2>3. req'[q].pc = "mint" => OfWorld(req'[q].ticket, openKey)
    BY <2>1, RoomRanges DEF OfWorld
  <2>4. QED BY <1>1, <2>1, <2>2, <2>3 DEF InWorld, Choosing, Ticketed
<1>9. CASE Restage(q) \/ mintTicket(q) \/ DropStaged(q)
  <2>1. /\ req[q].pc \in Ticketed /\ (\E pc \in Ticketed : Go(q, pc))
        /\ UNCHANGED <<openKey, hand>>
        /\ \E t \in {req[q].ticket, Nothing} : key' = [key EXCEPT ![q] = t]
    BY <1>9 DEF Restage, mintTicket, DropStaged, Ready, WriteKey, Ticketed
  <2>2. req'[q].pc \in Ticketed /\ req'[q].ticket = req[q].ticket
    BY <2>1, RequestFields
  <2>3. key'[q] \in {req[q].ticket, Nothing}
    BY <2>1 DEF KeysInv
  <2>4. QED BY <1>1, <2>1, <2>2, <2>3 DEF InWorld, Choosing, Ticketed
<1>10. CASE noteReconnectRoom(q)
  <2>1. /\ req[q].pc \in Ticketed /\ req'[q].pc \in {"answer", "drop"}
        /\ req'[q].ticket = req[q].ticket /\ hand' = hand /\ key' = key /\ openKey' = openKey
    BY <1>10, NoteFields DEF Ticketed
  <2>2. QED BY <1>1, <2>1 DEF InWorld, Choosing, Ticketed
<1>11. CASE Answer(q)
  <2>1. /\ req[q].pc = "answer" /\ req'[q].pc = "idle" /\ key' = key /\ openKey' = openKey
        /\ hand' = [hand EXCEPT ![q] = Handed(req[q])]
    BY <1>11, AnswerFields
  <2>2. hand'[q] = Handed(req[q]) /\ req[q].pc \in Ticketed /\ req[q].ticket # Nothing
    <3>1. req[q].ticket \in Ticket
      BY <2>1 DEF PlayersInv, RequestInv, Ticketed
    <3>2. QED BY <2>1, <3>1, TicketIsSome DEF PlayersInv, Ticketed
  <2>3. hand'[q].room = req[q].ticket.room /\ hand'[q].node = req[q].ticket.node
    BY <2>2 DEF Handed
  <2>4. OfWorld(hand'[q], openKey)
    BY <1>1, <2>2, <2>3 DEF OfWorld
  <2>5. QED BY <1>1, <2>1, <2>4 DEF InWorld, Choosing, Ticketed
<1>12. CASE ReadOpen(q) \/ claimOpen(q) \/ ReadRaced(q)
  BY <1>12, WorldIsAdopted
<1>13. QED
  BY <1>2, <1>3, <1>4, <1>5, <1>6, <1>8, <1>9, <1>10, <1>11, <1>12, <1>7 DEF MatchmakeStep

LEMMA WorldInvStep ==
  ASSUME TInv, FleetInv, WorldInv, [PlaceNext]_placeVars
  PROVE  WorldInv'
<1> SUFFICES ASSUME lapses' = 0, RoomToSpare', NEW q \in Clients PROVE InWorld(q)'
  BY DEF WorldInv
<1>1. PlayersInv /\ KeysInv /\ LaunchesInv /\ CountsInv
  BY DEF TInv
<1>2. /\ lapses = 0 /\ ~KeyLapses /\ ~OpenExpires /\ \A p \in Clients : ~TicketExpires(p)
      /\ \A n \in Nodes : ~beginDrain(n) /\ ~NodeCrash(n) /\ ~BeatExpires(n)
      /\ \A l \in Launches : ~launchThrows(l)
  BY <1>1, CalmSteps
<1>3. RoomToSpare
  BY RoomToSpareBefore
<1>4. filterHealthy(Nodes) = Nodes
  BY <1>2, <1>3, AllAreHealthy
<1>5. InWorld(q)
  BY <1>2, <1>3 DEF WorldInv
<1>6. openKey' = openKey \/ openKey = Nothing
  BY <1>2, <1>3, OpenWorldStays
(* What was of the open world still is, whoever claims it. *)
<1>7. \A t : OfWorld(t, openKey) => OfWorld(t, openKey')
  BY <1>6 DEF OfWorld
<1>8. ASSUME req'[q] = req[q], key'[q] = key[q], hand'[q] = hand[q] PROVE InWorld(q)'
  <2>1. req[q].pc = "raced" => openKey' # Nothing
    BY <1>5, <1>6 DEF InWorld
  <2>2. QED BY <1>5, <1>7, <1>8, <2>1 DEF InWorld
<1>9. ASSUME NEW p \in Clients,
             \/ matchmake(p) \/ MatchmakeStep(p) \/ leaveLobby(p) \/ HandshakeStep(p)
             \/ authenticateSocket(p) \/ Unseat(p)
      PROVE  InWorld(q)'
  <2>1. CASE p # q
    BY <1>1, <1>2, <1>8, <1>9, <2>1, OthersStep
  <2>2. CASE p = q /\ (matchmake(p) \/ MatchmakeStep(p))
    BY <1>1, <1>2, <1>4, <1>5, <2>2, RequestInWorld
  <2>3. CASE p = q /\ (leaveLobby(p) \/ HandshakeStep(p) \/ authenticateSocket(p) \/ Unseat(p))
    <3>1. /\ UNCHANGED <<req, openKey>>
          /\ UNCHANGED hand \/ hand' = [hand EXCEPT ![q] = Nothing]
          /\ UNCHANGED key \/ key' = [key EXCEPT ![q] = Nothing]
      BY <2>3 DEF leaveLobby, HandshakeStep, reconnectRoom, hostRoom, authenticateSocket, Unseat,
                  keys, WriteKey
    <3>2. hand'[q] \in {hand[q], Nothing} /\ key'[q] \in {key[q], Nothing}
      BY <1>1, <3>1 DEF PlayersInv, KeysInv
    <3>3. OfWorld(Nothing, openKey)
      BY DEF OfWorld
    <3>4. QED BY <1>5, <3>1, <3>2, <3>3 DEF InWorld
  <2>4. QED BY <1>9, <2>1, <2>2, <2>3
<1>10. ASSUME NEW n \in Nodes, register(n) \/ startHeartbeat(n) \/ drainNode(n)
       PROVE  InWorld(q)'
  BY <1>8, <1>10, Zenon DEF register, startHeartbeat, drainNode, keys
(* A launch's tickets are for its own room, which is no world. *)
<1>11. ASSUME NEW l \in Launches, LaunchStep(l) PROVE InWorld(q)'
  <2>1. UNCHANGED <<openKey, req, hand>>
    BY <1>11, LaunchLeaves
  <2>2. launch[l].room \in LaunchRooms
    BY <1>1 DEF LaunchesInv, Launching
  <2>3. key'[q] = key[q] \/ key'[q].room = launch[l].room
    <3>1. ~launchThrows(l)
      BY <1>2
    <3>2. \/ key'[q] = key[q]
          \/ \E p \in Clients :
               key'[q] = IF p = q THEN [room |-> launch[l].room, node |-> launch[l].node,
                                        fresh |-> TRUE]
                         ELSE key[q]
      BY <1>1, <1>11, <3>1, LaunchWrites
    <3>3. QED BY <3>2
  <2>4. OfWorld(key'[q], openKey')
    BY <1>5, <2>1, <2>2, <2>3, RoomRanges DEF InWorld, OfWorld
  <2>5. QED BY <1>5, <2>1, <2>4 DEF InWorld
<1>12. CASE UNCHANGED placeVars
  BY <1>8, <1>12 DEF placeVars
<1>13. QED BY <1>2, <1>9, <1>10, <1>11, <1>12 DEF PlaceNext

(***************************************************************************)
(* Together.                                                               *)
(***************************************************************************)
PInv == TInv /\ FreshInv /\ DInv /\ WInv

LEMMA PInvInit == PlaceInit => PInv
<1> SUFFICES ASSUME PlaceInit PROVE PInv
  OBVIOUS
<1>1. TInv
  BY TInvInit
<1>2. /\ members = Nodes /\ openKey = Nothing
      /\ \A n \in Nodes : /\ beat[n] = [rooms |-> 0, draining |-> FALSE]
                          /\ node[n] \in [live : {TRUE}, leaving : {0}, rooms : SUBSET OldRooms]
  BY DEF PlaceInit
<1>3. /\ NoPlacement.pc = "idle" /\ NoPlacement.ids = {} /\ NoLaunch.step = "none"
      /\ \A p \in Clients : req[p] = NoPlacement
      /\ \A l \in Launches : launch[l] = NoLaunch
  BY DEF NoPlacement, NoLaunch, PlaceInit
<1>4. \A p \in Clients : /\ req[p].pc = "idle" /\ req[p].ids = {} /\ shake[p] = "idle"
                         /\ hand[p] = Nothing /\ key[p] = Nothing
  BY <1>3 DEF PlaceInit
<1>5. FreshInv /\ DInv
  <2>1. FreshInv
    BY <1>4 DEF FreshInv, IsFresh, Ticketed
  <2>2. \A p \in Clients : Staging(p) = {}
    BY <1>3 DEF Staging, LaunchAt
  <2>3. \A p \in Clients : ~Crossing(p)
    BY <2>2, Zenon DEF Crossing
  <2>4. \A p \in Clients : Matched(p) /\ Took(p) /\ Noted(p)
    BY <1>4 DEF Matched, Took, Noted, Ticketed
  <2>5. QED BY <2>1, <2>3, <2>4, Zenon DEF DInv, DoorOpens
<1>6. FleetInv
  <2>2. \A n \in Nodes : NodeUp(n)
    <3> SUFFICES ASSUME NEW n \in Nodes PROVE NodeUp(n)
      OBVIOUS
    <3>1. node[n].live /\ node[n].leaving = 0 /\ Cardinality(node[n].rooms) \in Nat
      <4>1. node[n].live = TRUE /\ node[n].leaving = 0 /\ node[n].rooms \subseteq OldRooms
        BY <1>2
      <4>2. node[n].rooms \subseteq PlacedRooms
        BY <4>1, OldRoomsFit
      <4>3. QED BY <4>1, <4>2, RoomsCount
    <3>2. beat[n] \in Beat /\ ~beat[n].draining /\ beat[n].rooms = 0
      <4>1. beat[n] = [rooms |-> 0, draining |-> FALSE]
        BY <1>2
      <4>2. [rooms |-> 0, draining |-> FALSE] \in Beat
        BY DEF Beat
      <4>3. [rooms |-> 0, draining |-> FALSE].draining = FALSE
        OBVIOUS
      <4>4. [rooms |-> 0, draining |-> FALSE].rooms = 0
        OBVIOUS
      <4>5. QED BY <4>1, <4>2, <4>3, <4>4, Zenon
    <3>3. QED BY <3>1, <3>2 DEF NodeUp
  <2>3. QED BY <1>2, <1>4, <2>2 DEF FleetInv
<1>7. WorldInv
  BY <1>4 DEF WorldInv, InWorld, OfWorld, Choosing, Ticketed
<1>8. QED BY <1>1, <1>5, <1>6, <1>7 DEF PInv, WInv

LEMMA PInvStep == PInv /\ [PlaceNext]_placeVars => PInv'
BY TInvStep, FreshStep, DInvStep, FleetInvStep, WorldInvStep DEF PInv, WInv

LEMMA PInvImplies == PInv => PlaceInv
<1> SUFFICES ASSUME PInv PROVE PlaceInv
  OBVIOUS
<1>1. NodesInv /\ KeysInv /\ PlayersInv
  BY DEF PInv, TInv
<1>2. PlaceTypeOK
  <2>1. members \subseteq Nodes
    BY <1>1 DEF NodesInv
  <2>2. \A n \in Nodes : /\ node[n].live \in BOOLEAN /\ node[n].leaving \in 0..3
                         /\ node[n].rooms \subseteq PlacedRooms
                         /\ Cardinality(node[n].rooms) <= MaxRoomsPerNode
    BY <1>1 DEF NodesInv, Instance
  <2>3. openKey \in Seat \cup {Nothing}
    BY <1>1 DEF KeysInv
  <2>4. \A p \in Clients : /\ key[p] \in Ticket \cup {Nothing}
                           /\ {meta[p], seat[p]} \subseteq Seat \cup {Nothing}
                           /\ hand[p] \in Held \cup {Nothing}
    BY <1>1 DEF KeysInv, PlayersInv
  <2>5. \A p \in Clients : hand[p] # Nothing => hand[p].room \in PlacedRooms /\ hand[p].at \in Nodes
    BY <2>4 DEF Held
  <2>6. QED BY <2>1, <2>2, <2>3, <2>4, <2>5 DEF PlaceTypeOK
<1>3. TicketAdmits
  <2>1. lapses = 0 => \A p \in Clients : p \notin crossed => DoorOpens(p)
    BY DEF PInv, DInv
  <2>2. \A p \in Clients : DoorOpens(p) => shake[p] # "refused"
    BY DEF DoorOpens, Noted
  <2>3. QED BY <2>1, <2>2 DEF TicketAdmits
<1>4. WorldIsShared
  BY DEF PInv, WInv, WorldInv, InWorld, OfWorld, WorldIsShared
<1>5. QED BY <1>2, <1>3, <1>4 DEF PlaceInv

(* However requests, handshakes, deploys and any number of launches        *)
(* overlap, for any number of players and nodes, a node never hosts more   *)
(* rooms than its cap; while no key lapsed and no write failed, the only   *)
(* players refused at the door with a ticket in its lifetime are those     *)
(* whose staging met another launch's writes or their own request's reads; *)
(* and while besides no node is full, the tickets for an unranked tier     *)
(* name one world (POST /matchmake, launchQueue, authenticate).            *)
THEOREM TicketsAdmit == PlaceSpec => []PlaceInv
<1>1. PlaceInit => PInv
  BY PInvInit
<1>2. PInv /\ [PlaceNext]_placeVars => PInv'
  BY PInvStep
<1>3. PInv => PlaceInv
  BY PInvImplies
<1>4. QED BY <1>1, <1>2, <1>3, PTL DEF PlaceSpec

-----------------------------------------------------------------------------
(***************************************************************************)
(* RealtimeRoom.  A ranking is the eliminated from the last place on and   *)
(* at most one player before them, so that a match that is announced can   *)
(* lose no more players than the one it ranks first, and every later       *)
(* ranking of it has the same order from there and the same winner.        *)
(***************************************************************************)

(* A sequence without repetition is as long as its set is large.           *)
LEMMA DistinctLength ==
  ASSUME NEW S, IsFiniteSet(S), NEW e \in Seq(S), IsInjective(e)
  PROVE  /\ Len(e) <= Cardinality(S) /\ Cardinality(S) \in Nat
         /\ Len(e) = Cardinality(S) <=> ToSet(e) = S
<1> DEFINE n == Len(e)
<1>1. n \in Nat /\ e \in [1..n -> S] /\ DOMAIN e = 1..n
  OBVIOUS
<1>2. IsFiniteSet(1..n) /\ Cardinality(1..n) = n
  BY SMTT(30), <1>1, FS_Interval
<1>3. e \in Injection(1..n, S)
  BY <1>1, Fun_IsInj DEF IsInjective
<1>4. n <= Cardinality(S) /\ (n = Cardinality(S) <=> e \in Surjection(1..n, S))
  BY <1>2, <1>3, FS_Injection
<1>5. e \in Surjection(1..n, S) <=> ToSet(e) = S
  <2>1. ASSUME e \in Surjection(1..n, S) PROVE ToSet(e) = S
    BY <1>1, <2>1, Fun_SurjectionProperties DEF ToSet
  <2>2. ASSUME ToSet(e) = S PROVE e \in Surjection(1..n, S)
    BY <1>1, <2>2, Fun_IsSurj DEF ToSet
  <2>3. QED BY <2>1, <2>2
<1>6. QED BY <1>4, <1>5, FS_CardinalityType

(* e goes on to r, without repetition, over the members of A. *)
Grows(e, r, A) ==
  /\ r \in Seq(Players) /\ IsInjective(r)
  /\ Len(e) <= Len(r) /\ \A i \in 1..Len(e) : r[i] = e[i]
  /\ ToSet(r) = ToSet(e) \cup A

(* A player who is out once stays where he is in the order.                *)
LEMMA EliminateGrows ==
  ASSUME NEW e \in Seq(Players), IsInjective(e), NEW p \in Players
  PROVE  Grows(e, Eliminate(e, p), {p})
<1>1. CASE p \in ToSet(e)
  BY <1>1 DEF Eliminate, Grows
<1>2. CASE p \notin ToSet(e)
  <2> DEFINE r == Append(e, p)
  <2>1. /\ r \in Seq(Players) /\ Len(r) = Len(e) + 1 /\ r[Len(e) + 1] = p /\ Len(e) \in Nat
        /\ \A i \in 1..Len(e) : r[i] = e[i]
    OBVIOUS
  <2>2. DOMAIN r = 1..(Len(e) + 1) /\ DOMAIN e = 1..Len(e)
    OBVIOUS
  <2> HIDE DEF r
  <2>3. \A i \in 1..(Len(e) + 1) : i = Len(e) + 1 \/ i \in 1..Len(e)
    BY <2>1
  <2>4. ToSet(r) = ToSet(e) \cup {p}
    BY <2>1, <2>2, <2>3 DEF ToSet
  <2>5. IsInjective(r)
    <3>1. \A i \in 1..Len(e) : e[i] # p
      BY <1>2, <2>2 DEF ToSet
    <3>2. QED BY <2>1, <2>2, <2>3, <3>1 DEF IsInjective
  <2>6. QED BY <1>2, <2>1, <2>4, <2>5 DEF Eliminate, Grows, r
<1>3. QED BY <1>1, <1>2

(* Growing twice is growing.                                               *)
LEMMA GrowsTrans ==
  ASSUME NEW e \in Seq(Players), NEW r, NEW q, NEW A, NEW B, Grows(e, r, A), Grows(r, q, B)
  PROVE  Grows(e, q, A \cup B)
<1>1. Len(e) \in Nat /\ Len(r) \in Nat /\ Len(q) \in Nat
  BY DEF Grows
<1>2. QED BY <1>1 DEF Grows

(* The first n of s, and the ways to eliminate them one after the other. *)
First(s, n) == {s[i] : i \in 1..n}

Runs(e, s, m) ==
  {u \in [0..m -> Seq(Players)] :
     /\ u[0] = e
     /\ \A n \in 1..m : u[n] = Eliminate(u[n - 1], s[n])
     /\ \A n \in 0..m : Grows(e, u[n], First(s, n))}

(* One elimination after the other can always be carried out: by induction *)
(* over the players of s, since the provers know no recursion.             *)
LEMMA RunExists ==
  ASSUME NEW e \in Seq(Players), IsInjective(e), NEW s \in Seq(Players)
  PROVE  Runs(e, s, Len(s)) # {}
<1> DEFINE L == Len(s)
           T == {m \in Nat : m <= L => Runs(e, s, m) # {}}
<1>1. L \in Nat /\ \A i \in 1..L : s[i] \in Players
  OBVIOUS
<1>2. 0 \in T
  <2> DEFINE u == [n \in 0..0 |-> e]
  <2>1. u \in [0..0 -> Seq(Players)] /\ u[0] = e
    OBVIOUS
  <2>2. First(s, 0) = {}
    BY DEF First
  <2>3. Grows(e, e, {})
    BY DEF Grows
  <2> HIDE DEF u
  <2>6. 1..0 = {} /\ \A n \in 0..0 : n = 0
    OBVIOUS
  <2>7. \A n \in 0..0 : Grows(e, u[n], First(s, n))
    BY <2>1, <2>2, <2>3, <2>6
  <2>4. u \in Runs(e, s, 0)
    BY <2>1, <2>6, <2>7 DEF Runs
  <2>5. QED BY <2>4
<1>3. ASSUME NEW m \in Nat, m + 1 <= L, Runs(e, s, m) # {} PROVE Runs(e, s, m + 1) # {}
  <2>1. PICK u : u \in Runs(e, s, m)
    BY <1>3
  <2> DEFINE r == Eliminate(u[m], s[m + 1])
             v == [n \in 0..(m + 1) |-> IF n = m + 1 THEN r ELSE u[n]]
  <2>2. /\ u \in [0..m -> Seq(Players)] /\ u[0] = e
        /\ \A n \in 1..m : u[n] = Eliminate(u[n - 1], s[n])
        /\ \A n \in 0..m : Grows(e, u[n], First(s, n))
    BY <2>1 DEF Runs
  <2>3. s[m + 1] \in Players /\ u[m] \in Seq(Players) /\ Grows(e, u[m], First(s, m))
    BY <1>1, <1>3, <2>2
  <2>4. Grows(u[m], r, {s[m + 1]})
    BY <2>3, EliminateGrows DEF Grows
  <2>5. Grows(e, r, First(s, m + 1))
    <3>1. First(s, m + 1) = First(s, m) \cup {s[m + 1]}
      <4>1. \A i : i \in 1..(m + 1) <=> i \in 1..m \/ i = m + 1
        OBVIOUS
      <4>2. QED BY <4>1 DEF First
    <3> HIDE DEF r
    <3>2. QED BY <2>3, <2>4, <3>1, GrowsTrans
  <2>6. r \in Seq(Players)
    BY <2>5 DEF Grows
  <2>7. \A n \in 1..m : n \in 0..m /\ n - 1 \in 0..m
    OBVIOUS
  <2> HIDE DEF r
  <2>8. v \in [0..(m + 1) -> Seq(Players)] /\ v[m + 1] = r /\ \A n \in 0..m : v[n] = u[n]
    BY <2>2, <2>6
  <2> HIDE DEF v
  <2>9. ASSUME NEW n \in 1..(m + 1) PROVE v[n] = Eliminate(v[n - 1], s[n])
    <3>1. CASE n = m + 1
      <4>1. n - 1 = m /\ m \in 0..m
        BY <3>1
      <4>2. QED BY <2>8, <3>1, <4>1 DEF r
    <3>2. CASE n \in 1..m
      BY <2>2, <2>7, <2>8, <3>2
    <3>3. QED BY <3>1, <3>2
  <2>10. ASSUME NEW n \in 0..(m + 1) PROVE Grows(e, v[n], First(s, n))
    <3>1. CASE n = m + 1
      BY <2>5, <2>8, <3>1
    <3>2. CASE n \in 0..m
      BY <2>2, <2>8, <3>2
    <3>3. QED BY <3>1, <3>2
  <2>11. v[0] = e
    BY <2>2, <2>8
  <2>12. v \in Runs(e, s, m + 1)
    BY <2>8, <2>9, <2>10, <2>11 DEF Runs
  <2>13. QED BY <2>12
<1>4. \A m \in Nat : m \in T => m + 1 \in T
  BY <1>1, <1>3
<1> HIDE DEF T
<1>5. L \in T
  BY <1>1, <1>2, <1>4, NatInduct
<1>6. QED BY <1>1, <1>5 DEF T

(* Eliminating one player after the other.                                 *)
LEMMA InOrder ==
  ASSUME NEW e \in Seq(Players), IsInjective(e), NEW s \in Seq(Players)
  PROVE  Grows(e, inOrder(Eliminate, e, s), ToSet(s))
<1> DEFINE L == Len(s)
           upto == CHOOSE upto : upto = [n \in 0..L |-> IF n = 0 THEN e ELSE Eliminate(upto[n - 1], s[n])]
<1>1. L \in Nat
  OBVIOUS
<1>2. PICK u : u \in Runs(e, s, L)
  BY RunExists
<1>5. /\ u \in [0..L -> Seq(Players)] /\ u[0] = e
      /\ \A n \in 1..L : u[n] = Eliminate(u[n - 1], s[n])
      /\ \A n \in 0..L : Grows(e, u[n], First(s, n))
  BY <1>2 DEF Runs
<1>6. u = [n \in 0..L |-> IF n = 0 THEN e ELSE Eliminate(u[n - 1], s[n])]
  <2>1. \A n \in 0..L : u[n] = IF n = 0 THEN e ELSE Eliminate(u[n - 1], s[n])
    BY <1>1, <1>5
  <2>2. QED BY <1>5, <2>1
<1>7. upto = [n \in 0..L |-> IF n = 0 THEN e ELSE Eliminate(upto[n - 1], s[n])]
  BY <1>6
<1>0. inOrder(Eliminate, e, s) = upto[L]
  BY DEF inOrder
<1> HIDE DEF upto
<1>8. \A n \in 0..L : upto[n] = IF n = 0 THEN e ELSE Eliminate(upto[n - 1], s[n])
  BY <1>7
<1> DEFINE Q == {m \in Nat : m <= L => upto[m] = u[m]}
<1>9. upto[L] = u[L]
  <2>1. 0 \in Q
    BY <1>1, <1>5, <1>8
  <2>2. ASSUME NEW m \in Nat, m \in Q, m + 1 <= L PROVE upto[m + 1] = u[m + 1]
    <3>1. m + 1 \in 1..L /\ m + 1 \in 0..L /\ m + 1 # 0 /\ m + 1 - 1 = m /\ m <= L
      BY <1>1, <2>2
    <3>2. upto[m + 1] = Eliminate(upto[m], s[m + 1])
      BY <1>8, <3>1
    <3>3. u[m + 1] = Eliminate(u[m], s[m + 1])
      BY <1>5, <3>1
    <3>4. QED BY <2>2, <3>1, <3>2, <3>3
  <2>3. \A m \in Nat : m \in Q => m + 1 \in Q
    BY <2>2
  <2> HIDE DEF Q
  <2>4. L \in Q
    BY <1>1, <2>1, <2>3, NatInduct
  <2>5. QED BY <1>1, <2>4 DEF Q
<1>10. First(s, L) = ToSet(s)
  BY DEF ToSet, First
<1>11. QED BY <1>0, <1>1, <1>5, <1>9, <1>10

(* r ranks S with the eliminated e from the last place on.                *)
Rank(r, S, e) ==
  /\ r \in Seq(Players) /\ IsInjective(r) /\ ToSet(r) = S
  /\ Len(r) = Len(e) \/ Len(r) = Len(e) + 1
  /\ \A i \in 1..Len(e) : r[Len(r) + 1 - i] = e[i]

(* A ranking stays one while players go out: a match that is ranked has at *)
(* most one player left, who is ranked first, so nobody else can still go  *)
(* out.                                                                    *)
LEMMA RankGrows ==
  ASSUME NEW r, NEW S, IsFiniteSet(S), S \subseteq Players, NEW e \in Seq(Players), Rank(r, S, e),
         NEW f, NEW A, A \subseteq S, ToSet(e) \subseteq S, Grows(e, f, A)
  PROVE  Rank(r, S, f)
<1>1. /\ r \in Seq(Players) /\ IsInjective(r) /\ ToSet(r) = S
      /\ \A i \in 1..Len(e) : r[Len(r) + 1 - i] = e[i]
  BY DEF Rank
<1>2. /\ f \in Seq(Players) /\ IsInjective(f)
      /\ \A i \in 1..Len(e) : f[i] = e[i]
      /\ ToSet(f) \subseteq S
  BY DEF Grows
<1>9. Len(e) <= Len(f) /\ (Len(r) = Len(e) \/ Len(r) = Len(e) + 1)
  BY DEF Grows, Rank
<1>3. Len(r) \in Nat /\ Len(e) \in Nat /\ Len(f) \in Nat /\ DOMAIN r = 1..Len(r) /\ DOMAIN f = 1..Len(f)
  BY <1>1, <1>2
<1>0. Len(r) \in Nat /\ Len(e) \in Nat /\ Len(f) \in Nat
  BY <1>3
<1>4. f \in Seq(S) /\ r \in Seq(S)
  <2>1. \A i \in 1..Len(f) : f[i] \in S
    BY <1>2, <1>3 DEF ToSet
  <2>2. \A i \in 1..Len(r) : r[i] \in S
    BY <1>1, <1>3 DEF ToSet
  <2>3. QED BY <1>1, <1>2, <2>1, <2>2
<1>5. Len(f) <= Len(r)
  BY <1>1, <1>2, <1>4, DistinctLength
<1>6. ASSUME NEW i \in 1..Len(f) PROVE r[Len(r) + 1 - i] = f[i]
  <2>1. CASE i \in 1..Len(e)
    BY <1>1, <1>2, <2>1
  <2>2. CASE i \notin 1..Len(e)
    <3>1. i = Len(e) + 1 /\ i = Len(f) /\ Len(r) = Len(e) + 1
      BY ONLY <1>0, <1>5, <1>9, <2>2, i \in 1..Len(f)
    <3>2. PICK m \in 1..Len(r) : r[m] = f[i]
      <4>1. f[i] \in ToSet(f)
        BY <1>3 DEF ToSet
      <4>2. f[i] \in ToSet(r)
        BY <1>1, <1>2, <4>1
      <4>3. QED BY ONLY <1>3, <4>2 DEF ToSet
    <3>3. CASE m = 1
      BY <1>3, <3>1, <3>2, <3>3
    <3>4. CASE m # 1
      <4>1. PICK k \in 1..Len(e) : k = Len(r) + 1 - m
        BY SMTT(30), <1>3, <3>1, <3>4
      <4>2. r[m] = e[k] /\ e[k] = f[k]
        <5>1. Len(r) + 1 - k = m
          BY <1>3, <4>1
        <5>2. QED BY <1>1, <1>2, <5>1
      <4>3. k \in 1..Len(f) /\ k # i
        BY <1>3, <3>1
      <4>4. QED BY <1>2, <1>3, <3>2, <4>2, <4>3 DEF IsInjective
    <3>5. QED BY <3>3, <3>4
  <2>3. QED BY <2>1, <2>2
<1>7. Len(r) = Len(f) \/ Len(r) = Len(f) + 1
  BY ONLY <1>0, <1>5, <1>9
<1>8. QED BY <1>1, <1>6, <1>7 DEF Rank

(* A set of at most one player has one order.                              *)
LEMMA FewInOrder ==
  ASSUME NEW S, S \subseteq Players, IsFiniteSet(S), Cardinality(S) <= 1
  PROVE  \/ S = {} /\ SetToSeq(S) = <<>>
         \/ \E x \in Players : S = {x} /\ SetToSeq(S) = <<x>>
<1>1. Cardinality(S) \in Nat
  BY FS_CardinalityType
<1>2. CASE Cardinality(S) = 0
  <2>1. S = {} /\ 1..Cardinality(S) = {}
    BY <1>2, FS_EmptySet
  <2>2. \A f : f \in [1..Cardinality(S) -> S] <=> f = <<>>
    <3>1. 1..0 = {} /\ <<>> = [i \in 1..0 |-> i]
      OBVIOUS
    <3>2. \A f : f \in [{} -> {}] <=> f = <<>>
      BY <3>1
    <3>3. QED BY <2>1, <3>2
  <2>3. IsInjective(<<>>)
    BY DEF IsInjective
  <2>4. SetToSeq(S) = <<>>
    BY <2>2, <2>3 DEF SetToSeq
  <2>5. QED BY <2>1, <2>4
<1>3. CASE Cardinality(S) = 1
  <2>1. PICK x : S = {x}
    BY <1>3, FS_Singleton
  <2>2. 1..Cardinality(S) = {1}
    BY <1>3
  <2>3. \A f : f \in [1..Cardinality(S) -> S] <=> f = <<x>>
    <3>1. <<x>> = [i \in {1} |-> x]
      OBVIOUS
    <3>2. \A f : f \in [{1} -> {x}] <=> f = [i \in {1} |-> x]
      OBVIOUS
    <3>3. QED BY <2>1, <2>2, <3>1, <3>2
  <2>4. IsInjective(<<x>>)
    BY DEF IsInjective
  <2>5. SetToSeq(S) = <<x>>
    BY <2>3, <2>4 DEF SetToSeq
  <2>6. QED BY <2>1, <2>5
<1>4. QED BY <1>1, <1>2, <1>3

(* buildResult. *)
LEMMA RankBuilt ==
  ASSUME NEW S, S \subseteq Players, IsFiniteSet(S), NEW e \in Seq(Players), IsInjective(e),
         ToSet(e) \subseteq S, Cardinality(S \ ToSet(e)) <= 1
  PROVE  Rank(SetToSeq(S \ ToSet(e)) \o Reverse(e), S, e)
<1> DEFINE n == Len(e)
           back == Reverse(e)
           F == S \ ToSet(e)
<1>1. /\ n \in Nat /\ DOMAIN e = 1..n /\ back \in Seq(Players) /\ Len(back) = n
      /\ \A i \in 1..n : back[i] = e[n - i + 1]
  BY DEF Reverse
<1>2. IsFiniteSet(F) /\ F \subseteq Players
  BY FS_Subset
<1>3. \A i \in 1..n : n - i + 1 \in 1..n /\ back[n - i + 1] = e[i]
  BY <1>1
<1>4. ToSet(back) = ToSet(e)
  <2>1. DOMAIN back = 1..n
    BY <1>1
  <2> HIDE DEF back, n
  <2>2. ToSet(back) \subseteq ToSet(e)
    BY <1>1, <1>3, <2>1 DEF ToSet
  <2>3. ToSet(e) \subseteq ToSet(back)
    BY <1>1, <1>3, <2>1 DEF ToSet
  <2>4. QED BY <2>2, <2>3
<1>5. IsInjective(back)
  <2>1. DOMAIN back = 1..n
    BY <1>1
  <2> HIDE DEF back, n
  <2>2. ASSUME NEW i \in 1..n, NEW j \in 1..n, back[i] = back[j] PROVE i = j
    <3>1. n - i + 1 = n - j + 1
      BY <1>1, <1>3, <2>2 DEF IsInjective
    <3>2. QED BY <1>1, <3>1
  <2>3. QED BY <2>1, <2>2 DEF IsInjective
<1> HIDE DEF n, back
<1>6. CASE F = {} /\ SetToSeq(F) = <<>>
  <2>1. <<>> \o back = back
    BY <1>1
  <2>2. \A i \in 1..n : back[n + 1 - i] = e[i]
    <3>1. \A i \in 1..n : n + 1 - i = n - i + 1
      BY <1>1
    <3>2. QED BY <1>3, <3>1
  <2>3. ToSet(back) = S
    BY <1>4, <1>6
  <2>4. Rank(back, S, e)
    BY <1>1, <1>5, <2>2, <2>3 DEF Rank, n
  <2>5. QED BY <1>6, <2>1, <2>4 DEF F, back
<1>7. ASSUME NEW x \in Players, F = {x}, SetToSeq(F) = <<x>>
      PROVE  Rank(SetToSeq(F) \o back, S, e)
  <2> DEFINE r == <<x>> \o back
  <2>1. /\ r \in Seq(Players) /\ Len(r) = n + 1 /\ r[1] = x
        /\ \A i \in 1..n : r[i + 1] = back[i]
    BY <1>1
  <2>2. DOMAIN r = 1..(n + 1)
    BY <2>1
  <2> HIDE DEF r
  <2>3. \A i \in 1..(n + 1) : i = 1 \/ (i - 1 \in 1..n /\ i = i - 1 + 1)
    BY <1>1
  <2>4. x \notin ToSet(e) /\ x \in S /\ S = ToSet(e) \cup {x} /\ DOMAIN back = 1..n
    BY <1>1, <1>7
  <2>5. ToSet(r) = S
    <3>1. \A i \in 1..(n + 1) : r[i] \in S
      <4>1. \A i \in 1..n : back[i] \in ToSet(e)
        BY <1>4, <2>4 DEF ToSet
      <4>2. QED BY <2>1, <2>3, <2>4, <4>1
    <3>2. ASSUME NEW y \in S PROVE \E i \in 1..(n + 1) : r[i] = y
      <4>1. CASE y = x
        BY <1>1, <2>1, <4>1
      <4>2. CASE y \in ToSet(e)
        <5>1. PICK i \in 1..n : back[i] = y
          BY <1>4, <2>4, <4>2 DEF ToSet
        <5>2. i + 1 \in 1..(n + 1) /\ r[i + 1] = y
          BY <1>1, <2>1, <5>1
        <5>3. QED BY <5>2
      <4>3. QED BY <2>4, <4>1, <4>2
    <3>3. QED BY <2>2, <3>1, <3>2 DEF ToSet
  <2>6. IsInjective(r)
    <3>1. \A i \in 1..n : back[i] # x
      BY <1>4, <2>4 DEF ToSet
    <3>2. ASSUME NEW i \in 1..(n + 1), NEW j \in 1..(n + 1), r[i] = r[j] PROVE i = j
      <4>1. CASE i = 1 /\ j = 1
        BY <4>1
      <4>2. CASE i = 1 /\ j - 1 \in 1..n
        BY <2>1, <2>3, <3>1, <3>2, <4>2
      <4>3. CASE j = 1 /\ i - 1 \in 1..n
        BY <2>1, <2>3, <3>1, <3>2, <4>3
      <4>4. CASE i - 1 \in 1..n /\ j - 1 \in 1..n
        <5>1. back[i - 1] = back[j - 1]
          BY <2>1, <2>3, <3>2, <4>4
        <5>2. i - 1 = j - 1
          BY <1>5, <2>4, <4>4, <5>1 DEF IsInjective
        <5>3. QED BY <5>2
      <4>5. QED BY <2>3, <4>1, <4>2, <4>3, <4>4
    <3>3. QED BY <2>2, <3>2 DEF IsInjective
  <2>7. ASSUME NEW i \in 1..n PROVE r[n + 1 + 1 - i] = e[i]
    <3>1. n - i + 1 \in 1..n /\ n + 1 + 1 - i = n - i + 1 + 1
      BY <1>1
    <3>2. QED BY <1>3, <2>1, <3>1
  <2>8. Rank(r, S, e)
    <3>1. QED BY <1>1, <2>1, <2>5, <2>6, <2>7 DEF Rank, n
  <2>9. QED BY <1>7, <2>8 DEF r
<1>8. QED BY <1>2, <1>6, <1>7, FewInOrder DEF back

(* A ranking is fair, and says who is first.                               *)
LEMMA RankFair ==
  ASSUME NEW r, NEW S, NEW e \in Seq(Players), Rank(r, S, e)
  PROVE  /\ ToSet(r) = S
         /\ \A i, j \in DOMAIN e : i < j =>
              \E k, l \in DOMAIN r : r[k] = e[i] /\ r[l] = e[j] /\ l < k
         /\ \A p \in S \ ToSet(e) : r[1] = p
<1>1. /\ r \in Seq(Players) /\ ToSet(r) = S
      /\ \A i \in 1..Len(e) : r[Len(r) + 1 - i] = e[i]
  BY DEF Rank
<1>2. Len(r) \in Nat /\ Len(e) \in Nat /\ DOMAIN r = 1..Len(r) /\ DOMAIN e = 1..Len(e)
  BY <1>1
<1>6. (Len(r) = Len(e) \/ Len(r) = Len(e) + 1) /\ Len(r) \in Nat /\ Len(e) \in Nat
  BY <1>2 DEF Rank
<1>3. ASSUME NEW i \in 1..Len(e), NEW j \in 1..Len(e), i < j
      PROVE  \E k, l \in 1..Len(r) : r[k] = e[i] /\ r[l] = e[j] /\ l < k
  <2>1. /\ Len(r) + 1 - i \in 1..Len(r) /\ Len(r) + 1 - j \in 1..Len(r)
        /\ Len(r) + 1 - j < Len(r) + 1 - i
    BY ONLY <1>3, <1>6, i \in 1..Len(e), j \in 1..Len(e)
  <2>2. r[Len(r) + 1 - i] = e[i] /\ r[Len(r) + 1 - j] = e[j]
    BY <1>1
  <2>3. QED BY <2>1, <2>2
<1>4. ASSUME NEW p \in S \ ToSet(e) PROVE r[1] = p
  <2>1. PICK m \in 1..Len(r) : r[m] = p
    BY <1>1, <1>2 DEF ToSet
  <2>2. CASE m = 1
    BY <2>1, <2>2
  <2>3. CASE m # 1
    <3>1. PICK k \in 1..Len(e) : Len(r) + 1 - k = m
      <4>1. Len(r) + 1 - m \in 1..Len(e) /\ Len(r) + 1 - (Len(r) + 1 - m) = m
        BY ONLY <1>6, <2>3, m \in 1..Len(r)
      <4>2. QED BY <4>1
    <3>2. e[k] = p
      BY <1>1, <2>1, <3>1
    <3>3. QED BY <1>2, <3>2 DEF ToSet
  <2>4. QED BY <2>2, <2>3
<1>5. QED BY ZenonT(30), <1>1, <1>2, <1>3, <1>4

(* Two rankings of the same match have the same winner.                    *)
LEMMA RankFirst ==
  ASSUME NEW S, IsFiniteSet(S), S # {}, NEW e \in Seq(Players), NEW r, NEW q, Rank(r, S, e), Rank(q, S, e)
  PROVE  r[1] = q[1] /\ r # <<>>
<1>1. /\ r \in Seq(Players) /\ IsInjective(r) /\ ToSet(r) = S
      /\ \A i \in 1..Len(e) : r[Len(r) + 1 - i] = e[i]
      /\ q \in Seq(Players) /\ IsInjective(q) /\ ToSet(q) = S
      /\ \A i \in 1..Len(e) : q[Len(q) + 1 - i] = e[i]
  BY DEF Rank
<1>2. Len(r) \in Nat /\ Len(q) \in Nat /\ Len(e) \in Nat /\ DOMAIN r = 1..Len(r) /\ DOMAIN q = 1..Len(q)
  BY <1>1
<1>0. (Len(r) = Len(e) \/ Len(r) = Len(e) + 1) /\ Len(r) \in Nat /\ Len(e) \in Nat
  BY <1>2 DEF Rank
<1>3. r \in Seq(S) /\ q \in Seq(S)
  <2>1. \A i \in 1..Len(r) : r[i] \in S
    BY <1>1, <1>2 DEF ToSet
  <2>2. \A i \in 1..Len(q) : q[i] \in S
    BY <1>1, <1>2 DEF ToSet
  <2>3. r \in Seq(S)
    BY <1>1, <2>1
  <2>4. QED BY <1>1, <2>2, <2>3
<1>4. Len(r) = Len(q)
  <2>1. Len(r) = Cardinality(S)
    BY <1>1, <1>3, DistinctLength
  <2>2. Len(q) = Cardinality(S)
    BY <1>1, <1>3, DistinctLength
  <2>3. QED BY <2>1, <2>2
<1>5. Len(r) > 0
  <2>1. PICK x : x \in S
    OBVIOUS
  <2>2. x \in ToSet(r)
    BY <1>1, <2>1
  <2>3. PICK m \in 1..Len(r) : r[m] = x
    BY ONLY <1>2, <2>2 DEF ToSet
  <2>4. QED BY <1>2
<1>6. CASE Len(e) = Len(r)
  <2>1. Len(e) \in 1..Len(e) /\ Len(r) + 1 - Len(e) = 1 /\ Len(q) + 1 - Len(e) = 1
    BY <1>2, <1>4, <1>5, <1>6
  <2>2. r[1] = e[Len(e)] /\ q[1] = e[Len(e)]
    BY <1>1, <2>1
  <2>3. QED BY <1>2, <1>5, <2>2
<1>7. CASE Len(e) # Len(r)
  <2>1. Len(e) + 1 = Len(r) /\ r[1] \in S
    <3>1. Len(e) + 1 = Len(r) /\ 1 \in 1..Len(r)
      BY ONLY <1>0, <1>5, <1>7
    <3>2. r[1] \in ToSet(r)
      BY <1>2, <3>1 DEF ToSet
    <3>3. QED BY <1>1, <3>1, <3>2
  <2>2. r[1] \notin ToSet(e)
    <3>1. SUFFICES ASSUME NEW i \in 1..Len(e), e[i] = r[1] PROVE FALSE
      BY DEF ToSet
    <3>2. Len(r) + 1 - i \in 1..Len(r) /\ Len(r) + 1 - i # 1 /\ 1 \in 1..Len(r)
      BY <1>2, <2>1
    <3>3. r[Len(r) + 1 - i] = r[1]
      BY <1>1, <3>1
    <3>4. QED BY ONLY <1>1, <1>2, <3>2, <3>3 DEF IsInjective
  <2>3. q[1] = r[1]
    BY <2>1, <2>2, RankFair
  <2>4. QED BY <1>2, <1>5, <2>3
<1>8. QED BY <1>6, <1>7

-----------------------------------------------------------------------------
(***************************************************************************)
(* What is known of a match and of its results.                            *)
(***************************************************************************)
Rooms == [epoch : Nat, status : {"none", "active", "draining"}, entrants : SUBSET Players,
          elim : Seq(Players), announced : Seq(Players), reported : BOOLEAN]
Seats == [socket : Nat, away : -1..Grace] \cup {Absent}
Snakes == {"none", "alive", "dead"}
Writes == [step : {"idle", "set", "sadd"}, standings : Seq(Players), epoch : Nat]
Results == [standings : Seq(Players), epoch : Nat]
Sockets == [player : Players, epoch : Nat] \cup {Absent}

SeatedIn(s) == {p \in Players : s[p] # Absent}

(* Whoever is seated or has a snake was in the match, who is not eliminated *)
(* is seated and alive, and what was announced ranks the match.             *)
MatchOK(r, s, k) ==
  /\ r \in Rooms /\ s \in [Players -> Seats] /\ k \in [Players -> Snakes]
  /\ IsInjective(r.elim) /\ ToSet(r.elim) \subseteq r.entrants
  /\ Cardinality(SeatedIn(s)) <= MaxPlayers
  /\ \A p \in Players : s[p] # Absent \/ k[p] # "none" => p \in r.entrants
  /\ \A p \in r.entrants \ ToSet(r.elim) : s[p] # Absent /\ k[p] = "alive"
  /\ r.status = "none" => r.entrants = {} /\ r.announced = <<>>
  /\ r.status # "none" => r.epoch > 0
  /\ r.announced # <<>> => r.status = "draining" /\ Rank(r.announced, r.entrants, r.elim)

(* A result is of an earlier match, or of one that was announced.           *)
Ranked(x, r) ==
  /\ x.epoch <= r.epoch
  /\ x.epoch = r.epoch /\ r.status # "none"
       => r.announced # <<>> /\ Rank(x.standings, r.entrants, r.elim)

MatchInv ==
  /\ MatchOK(room, seats, snake)
  /\ write \in Writes /\ stored \in Results
  /\ IsInjective(write.standings) /\ IsInjective(stored.standings)
  /\ Ranked(write, room) /\ Ranked(stored, room)
  /\ opened \in 0..MaxSockets /\ room.epoch <= opened
  /\ sockets \in [1..MaxSockets -> Sockets]
  /\ {queued, staked} \subseteq BOOLEAN

(* The match goes on: a new one, a closed one, one nobody has announced, or  *)
(* the same one with more players out.                                      *)
GoesOn(r, q) ==
  \/ r.epoch < q.epoch
  \/ r.epoch = q.epoch /\ q.status = "none"
  \/ r.epoch = q.epoch /\ r.status # "none" /\ r.announced = <<>>
  \/ /\ r.epoch = q.epoch /\ r.status # "none"
     /\ q.announced # <<>> /\ q.entrants = r.entrants
     /\ \E A \in SUBSET r.entrants : Grows(r.elim, q.elim, A)

(* A result stays fair as the match goes on.                               *)
LEMMA RankedStays ==
  ASSUME NEW r \in Rooms, NEW q \in Rooms, ToSet(r.elim) \subseteq r.entrants, GoesOn(r, q),
         NEW x, x.epoch \in Nat, Ranked(x, r)
  PROVE  Ranked(x, q)
<1>1. r.epoch \in Nat /\ q.epoch \in Nat /\ r.entrants \subseteq Players /\ r.elim \in Seq(Players)
  BY DEF Rooms
<1>2. IsFiniteSet(r.entrants)
  BY <1>1, RoomConstants, FS_Subset
<1>3. /\ x.epoch <= r.epoch
      /\ x.epoch = r.epoch /\ r.status # "none"
           => r.announced # <<>> /\ Rank(x.standings, r.entrants, r.elim)
  BY DEF Ranked
<1>4. CASE r.epoch < q.epoch
  BY <1>1, <1>3, <1>4 DEF Ranked
<1>5. CASE r.epoch = q.epoch /\ q.status = "none"
  BY <1>3, <1>5 DEF Ranked
<1>6. CASE r.epoch = q.epoch /\ r.status # "none" /\ r.announced = <<>>
  BY <1>3, <1>6 DEF Ranked
<1>7. ASSUME r.epoch = q.epoch, r.status # "none", q.announced # <<>>, q.entrants = r.entrants,
             NEW A \in SUBSET r.entrants, Grows(r.elim, q.elim, A)
      PROVE  Ranked(x, q)
  <2>1. ASSUME Rank(x.standings, r.entrants, r.elim)
        PROVE  Rank(x.standings, q.entrants, q.elim)
    <3>1. Rank(x.standings, r.entrants, q.elim)
      BY <1>1, <1>2, <1>7, <2>1, RankGrows
    <3>2. QED BY <1>7, <3>1
  <2>2. QED BY <1>3, <1>7, <2>1 DEF Ranked
<1>8. QED BY <1>4, <1>5, <1>6, <1>7 DEF GoesOn

(* The players of D die and those of G leave, and are eliminated.           *)
Thins(r, s, k, D, G, q, t, l) ==
  /\ D \subseteq r.entrants /\ G \subseteq r.entrants
  /\ q \in Rooms /\ q.epoch = r.epoch /\ q.status = r.status /\ q.entrants = r.entrants
  /\ q.announced = r.announced /\ Grows(r.elim, q.elim, D \cup G)
  /\ t \in [Players -> Seats] /\ l \in [Players -> Snakes]
  /\ \A p \in Players : t[p] = Absent <=> p \in G \/ s[p] = Absent
  /\ \A p \in Players \ (D \cup G) : l[p] = k[p]

(* Deaths and departures leave a match sound.                              *)
LEMMA Thinned ==
  ASSUME NEW r, NEW s, NEW k, MatchOK(r, s, k), NEW D, NEW G, NEW q, NEW t, NEW l,
         Thins(r, s, k, D, G, q, t, l)
  PROVE  MatchOK(q, t, l) /\ GoesOn(r, q)
<1>0. /\ D \subseteq r.entrants /\ G \subseteq r.entrants
      /\ q \in Rooms /\ q.epoch = r.epoch /\ q.status = r.status /\ q.entrants = r.entrants
      /\ q.announced = r.announced /\ Grows(r.elim, q.elim, D \cup G)
      /\ t \in [Players -> Seats] /\ l \in [Players -> Snakes]
      /\ \A p \in Players : t[p] = Absent <=> p \in G \/ s[p] = Absent
      /\ \A p \in Players \ (D \cup G) : l[p] = k[p]
  BY DEF Thins
<1>1. /\ r \in Rooms /\ s \in [Players -> Seats] /\ k \in [Players -> Snakes]
      /\ IsInjective(r.elim) /\ ToSet(r.elim) \subseteq r.entrants
      /\ Cardinality(SeatedIn(s)) <= MaxPlayers
      /\ \A p \in Players : s[p] # Absent \/ k[p] # "none" => p \in r.entrants
      /\ \A p \in r.entrants \ ToSet(r.elim) : s[p] # Absent /\ k[p] = "alive"
      /\ r.status = "none" => r.entrants = {} /\ r.announced = <<>>
      /\ r.status # "none" => r.epoch > 0
      /\ r.announced # <<>> => r.status = "draining" /\ Rank(r.announced, r.entrants, r.elim)
  BY DEF MatchOK
<1>2. r.elim \in Seq(Players) /\ r.entrants \subseteq Players /\ IsFiniteSet(r.entrants)
  <2>1. r.elim \in Seq(Players) /\ r.entrants \subseteq Players
    BY <1>1 DEF Rooms
  <2>2. QED BY <2>1, RoomConstants, FS_Subset
<1>3. IsInjective(q.elim) /\ ToSet(q.elim) = ToSet(r.elim) \cup (D \cup G)
  BY <1>0 DEF Grows
<1>4. Cardinality(SeatedIn(t)) <= MaxPlayers
  <2>1. SeatedIn(t) \subseteq SeatedIn(s) /\ SeatedIn(s) \subseteq Players
    BY <1>0 DEF SeatedIn
  <2>2. IsFiniteSet(SeatedIn(s))
    BY <2>1, RoomConstants, FS_Subset
  <2>3. /\ Cardinality(SeatedIn(t)) <= Cardinality(SeatedIn(s)) /\ IsFiniteSet(SeatedIn(t))
    BY <2>1, <2>2, FS_Subset
  <2>4. Cardinality(SeatedIn(t)) \in Nat /\ Cardinality(SeatedIn(s)) \in Nat
    BY <2>2, <2>3, FS_CardinalityType
  <2>5. QED BY ONLY <1>1, <2>3, <2>4, RoomConstants
<1>5. \A p \in Players : t[p] # Absent \/ l[p] # "none" => p \in q.entrants
  BY <1>0, <1>1
<1>6. \A p \in q.entrants \ ToSet(q.elim) : t[p] # Absent /\ l[p] = "alive"
  BY <1>0, <1>1, <1>2, <1>3
<1>7. q.announced # <<>> => q.status = "draining" /\ Rank(q.announced, q.entrants, q.elim)
  <2>1. SUFFICES ASSUME r.announced # <<>> PROVE q.status = "draining" /\ Rank(r.announced, r.entrants, q.elim)
    BY <1>0
  <2>2. Rank(r.announced, r.entrants, r.elim) /\ r.status = "draining"
    BY <1>1, <2>1
  <2>3. D \cup G \subseteq r.entrants
    BY <1>0
  <2>4. QED BY <1>0, <1>1, <1>2, <2>2, <2>3, RankGrows
<1>8. MatchOK(q, t, l)
  <2>1. ToSet(q.elim) \subseteq q.entrants
    BY <1>0, <1>1, <1>3
  <2>2. (q.status = "none" => q.entrants = {} /\ q.announced = <<>>) /\ (q.status # "none" => q.epoch > 0)
    BY <1>0, <1>1
  <2>3. QED BY <1>0, <1>3, <1>4, <1>5, <1>6, <1>7, <2>1, <2>2 DEF MatchOK
<1>9. GoesOn(r, q)
  <2>1. D \cup G \in SUBSET r.entrants
    BY <1>0
  <2>2. CASE q.status = "none" \/ r.announced = <<>>
    BY <1>0, <2>2 DEF GoesOn
  <2>3. CASE q.status # "none" /\ r.announced # <<>>
    BY <1>0, <2>1, <2>3 DEF GoesOn
  <2>4. QED BY <2>2, <2>3
<1>10. QED BY <1>8, <1>9

(* The fields of a room that nobody has joined.                            *)
LEMMA EmptyRooms ==
  ASSUME NEW n \in Nat, NEW x \in {"none", "active"}
  PROVE  /\ emptyRoom(n, x) \in Rooms /\ emptyRoom(n, x).epoch = n /\ emptyRoom(n, x).status = x
         /\ emptyRoom(n, x).entrants = {} /\ emptyRoom(n, x).elim = <<>>
         /\ emptyRoom(n, x).announced = <<>>
<1>1. <<>> \in Seq(Players)
  OBVIOUS
<1>2. QED BY <1>1 DEF emptyRoom, Rooms

(* A room nobody is in is sound.                                            *)
LEMMA EmptyIsSound ==
  ASSUME NEW n \in Nat, NEW x \in {"none", "active"}, x = "active" => n > 0,
         NEW s \in [Players -> Seats], NEW k \in [Players -> Snakes],
         \A p \in Players : s[p] = Absent /\ k[p] = "none"
  PROVE  MatchOK(emptyRoom(n, x), s, k)
<1> DEFINE q == emptyRoom(n, x)
<1>1. /\ q \in Rooms /\ q.epoch = n /\ q.status = x
      /\ q.entrants = {} /\ q.elim = <<>> /\ q.announced = <<>>
  BY EmptyRooms
<1> HIDE DEF q
<1>2. SeatedIn(s) = {}
  BY DEF SeatedIn
<1>3. Cardinality(SeatedIn(s)) <= MaxPlayers
  BY <1>2, FS_EmptySet, RoomConstants
<1>4. IsInjective(q.elim) /\ ToSet(q.elim) = {}
  BY <1>1 DEF IsInjective, ToSet
<1>5. MatchOK(q, s, k)
  BY <1>1, <1>3, <1>4 DEF MatchOK
<1>6. QED BY <1>5 DEF q

(* The room a socket finds, or the one that is made for it.                 *)
LEMMA Ensured ==
  ASSUME NEW r, NEW s, NEW k, MatchOK(r, s, k),
         NEW q, q = IF r.status = "none" THEN emptyRoom(r.epoch + 1, "active") ELSE r
  PROVE  /\ MatchOK(q, s, k) /\ GoesOn(r, q)
         /\ q.status # "none" /\ q.epoch \in Nat /\ q.epoch <= r.epoch + 1
<1>1. r \in Rooms /\ r.epoch \in Nat /\ r.elim \in Seq(Players) /\ IsInjective(r.elim)
  BY DEF MatchOK, Rooms
<1>2. CASE r.status = "none"
  <2>1. q = emptyRoom(r.epoch + 1, "active") /\ r.epoch + 1 \in Nat /\ r.epoch + 1 > 0
    BY <1>1, <1>2
  <2>2. q.epoch = r.epoch + 1 /\ q.status = "active"
    BY <2>1, EmptyRooms
  <2>3. /\ s \in [Players -> Seats] /\ k \in [Players -> Snakes]
        /\ \A p \in Players : s[p] = Absent /\ k[p] = "none"
    BY <1>2 DEF MatchOK
  <2>4. MatchOK(q, s, k)
    BY <2>1, <2>3, EmptyIsSound
  <2>5. QED BY <1>1, <2>2, <2>4 DEF GoesOn
<1>3. CASE r.status # "none"
  <2>1. q = r
    BY <1>3
  <2>2. Grows(r.elim, r.elim, {})
    BY <1>1 DEF Grows
  <2>3. GoesOn(r, r)
    <3>1. {} \in SUBSET r.entrants
      OBVIOUS
    <3>2. CASE r.announced = <<>>
      BY <1>3, <3>2 DEF GoesOn
    <3>3. CASE r.announced # <<>>
      BY <1>3, <2>2, <3>1, <3>3 DEF GoesOn
    <3>4. QED BY <3>2, <3>3
  <2>4. QED BY <1>1, <1>3, <2>1, <2>3
<1>4. QED BY <1>2, <1>3

(* addPlayer.                                                               *)
LEMMA Seating ==
  ASSUME NEW r, NEW s, NEW k, MatchOK(r, s, k), r.status = "active",
         NEW p \in Players, NEW chair \in [socket : Nat, away : -1..Grace],
         Cardinality(SeatedIn(s)) < MaxPlayers \/ s[p] # Absent,
         NEW q \in Rooms, q = [r EXCEPT !.entrants = @ \cup {p}],
         NEW t, t = [s EXCEPT ![p] = chair],
         NEW l, l = IF s[p] # Absent THEN k ELSE [k EXCEPT ![p] = "alive"]
  PROVE  MatchOK(q, t, l) /\ GoesOn(r, q)
<1>1. /\ r \in Rooms /\ s \in [Players -> Seats] /\ k \in [Players -> Snakes]
      /\ IsInjective(r.elim) /\ ToSet(r.elim) \subseteq r.entrants
      /\ Cardinality(SeatedIn(s)) <= MaxPlayers
      /\ \A x \in Players : s[x] # Absent \/ k[x] # "none" => x \in r.entrants
      /\ \A x \in r.entrants \ ToSet(r.elim) : s[x] # Absent /\ k[x] = "alive"
      /\ r.status # "none" => r.epoch > 0
      /\ r.announced = <<>>
  BY DEF MatchOK
<1>2. /\ q.epoch = r.epoch /\ q.status = "active" /\ q.elim = r.elim /\ q.announced = <<>>
      /\ q.entrants = r.entrants \cup {p} /\ q.epoch > 0
  BY <1>1 DEF Rooms
<1>3. chair # Absent /\ chair \in Seats
  <2>1. DOMAIN chair = {"socket", "away"} /\ DOMAIN Absent = {"none"}
    BY DEF Absent
  <2>2. QED BY <2>1 DEF Seats
<1>4. /\ t \in [Players -> Seats] /\ t[p] = chair /\ \A x \in Players \ {p} : t[x] = s[x]
  BY <1>1, <1>3
<1>5. /\ l \in [Players -> Snakes] /\ \A x \in Players \ {p} : l[x] = k[x]
      /\ s[p] = Absent => l[p] = "alive"
      /\ s[p] # Absent => l[p] = k[p]
  BY <1>1 DEF Snakes
<1>6. Cardinality(SeatedIn(t)) <= MaxPlayers
  <2>1. SeatedIn(t) = SeatedIn(s) \cup {p} /\ SeatedIn(s) \subseteq Players
    BY <1>3, <1>4 DEF SeatedIn
  <2>2. IsFiniteSet(SeatedIn(s)) /\ Cardinality(SeatedIn(s)) \in Nat
    BY <2>1, RoomConstants, FS_Subset, FS_CardinalityType
  <2>3. CASE s[p] # Absent
    <3>1. SeatedIn(t) = SeatedIn(s)
      BY <2>1, <2>3 DEF SeatedIn
    <3>2. QED BY <1>1, <3>1
  <2>4. CASE s[p] = Absent
    <3>1. p \notin SeatedIn(s)
      BY <2>4 DEF SeatedIn
    <3>2. Cardinality(SeatedIn(t)) = Cardinality(SeatedIn(s)) + 1
      BY <2>1, <2>2, <3>1, FS_AddElement
    <3>3. QED BY <2>2, <2>4, <3>2, RoomConstants
  <2>5. QED BY <2>3, <2>4
<1>7. \A x \in Players : t[x] # Absent \/ l[x] # "none" => x \in q.entrants
  BY <1>1, <1>2, <1>4, <1>5
<1>8. \A x \in q.entrants \ ToSet(q.elim) : t[x] # Absent /\ l[x] = "alive"
  <2>1. SUFFICES ASSUME NEW x \in q.entrants \ ToSet(q.elim) PROVE t[x] # Absent /\ l[x] = "alive"
    OBVIOUS
  <2>2. r.entrants \subseteq Players
    BY <1>1 DEF Rooms
  <2>3. CASE x = p
    BY <1>1, <1>2, <1>3, <1>4, <1>5, <2>1, <2>3
  <2>4. CASE x # p
    BY <1>1, <1>2, <1>4, <1>5, <2>1, <2>2, <2>4
  <2>5. QED BY <2>3, <2>4
<1>9. MatchOK(q, t, l)
  <2>1. ToSet(q.elim) \subseteq q.entrants /\ IsInjective(q.elim)
    BY <1>1, <1>2
  <2>2. QED BY <1>2, <1>4, <1>5, <1>6, <1>7, <1>8, <2>1 DEF MatchOK
<1>10. GoesOn(r, q)
  BY <1>1, <1>2 DEF GoesOn
<1>11. QED BY <1>9, <1>10

(* A snake that comes back is of a player who is seated.                    *)
LEMMA Respawned ==
  ASSUME NEW r, NEW s, NEW k, MatchOK(r, s, k), NEW p \in Players, s[p] # Absent
  PROVE  MatchOK(r, s, [k EXCEPT ![p] = "alive"])
<1> DEFINE l == [k EXCEPT ![p] = "alive"]
<1>1. /\ r \in Rooms /\ k \in [Players -> Snakes]
      /\ \A x \in Players : s[x] # Absent \/ k[x] # "none" => x \in r.entrants
      /\ \A x \in r.entrants \ ToSet(r.elim) : s[x] # Absent /\ k[x] = "alive"
  BY DEF MatchOK
<1>2. l \in [Players -> Snakes] /\ l[p] = "alive" /\ \A x \in Players \ {p} : l[x] = k[x]
  BY <1>1 DEF Snakes
<1>3. r.entrants \subseteq Players
  BY <1>1 DEF Rooms
<1> HIDE DEF l
<1>4. /\ \A x \in Players : s[x] # Absent \/ l[x] # "none" => x \in r.entrants
      /\ \A x \in r.entrants \ ToSet(r.elim) : s[x] # Absent /\ l[x] = "alive"
  BY <1>1, <1>2, <1>3
<1>5. MatchOK(r, s, l)
  BY <1>2, <1>4 DEF MatchOK
<1>6. QED BY <1>5 DEF l

(* A room that drains was not announced.                                    *)
LEMMA Drained ==
  ASSUME NEW r, NEW s, NEW k, MatchOK(r, s, k), r.status = "active",
         NEW q, q = [r EXCEPT !.status = "draining"]
  PROVE  MatchOK(q, s, k) /\ GoesOn(r, q) /\ q.epoch = r.epoch
<1>1. r \in Rooms /\ r.announced = <<>> /\ r.epoch > 0
  BY DEF MatchOK
<1>2. /\ q \in Rooms /\ q.epoch = r.epoch /\ q.status = "draining" /\ q.elim = r.elim
      /\ q.announced = <<>> /\ q.entrants = r.entrants
  BY <1>1 DEF Rooms
<1>3. MatchOK(q, s, k)
  BY <1>1, <1>2 DEF MatchOK
<1>4. QED BY <1>1, <1>2, <1>3 DEF GoesOn

(* The match as it is, but for the mark that it was reported.               *)
LEMMA Marked ==
  ASSUME NEW r, NEW s, NEW k, MatchOK(r, s, k), NEW b \in BOOLEAN,
         NEW q, q = [r EXCEPT !.reported = b]
  PROVE  MatchOK(q, s, k) /\ GoesOn(r, q) /\ q.epoch = r.epoch
<1>1. /\ r \in Rooms /\ s \in [Players -> Seats] /\ k \in [Players -> Snakes] /\ IsInjective(r.elim)
  BY DEF MatchOK
<1>2. /\ q \in Rooms /\ q.epoch = r.epoch /\ q.status = r.status /\ q.elim = r.elim
      /\ q.announced = r.announced /\ q.entrants = r.entrants /\ r.elim \in Seq(Players)
  BY <1>1 DEF Rooms
<1>3. Grows(r.elim, q.elim, {}) /\ {} \in SUBSET r.entrants
  BY <1>1, <1>2 DEF Grows
<1>4. MatchOK(q, s, k)
  BY <1>2 DEF MatchOK
<1>5. GoesOn(r, q)
  <2>1. CASE r.status = "none" \/ r.announced = <<>>
    BY <1>2, <2>1 DEF GoesOn
  <2>2. CASE r.status # "none" /\ r.announced # <<>>
    BY <1>2, <1>3, <2>2 DEF GoesOn
  <2>3. QED BY <2>1, <2>2
<1>6. QED BY <1>2, <1>4, <1>5

World == [room : Rooms, seats : [Players -> Seats], snake : [Players -> Snakes], write : Writes]
Good(w) == w \in World /\ MatchOK(w.room, w.seats, w.snake) /\ IsInjective(w.write.standings)

(* RankedStays, for sound matches.                                         *)
LEMMA Stays ==
  ASSUME NEW r, NEW s, NEW k, MatchOK(r, s, k), NEW q, NEW t, NEW l, MatchOK(q, t, l),
         GoesOn(r, q), NEW x, x.epoch \in Nat, Ranked(x, r)
  PROVE  Ranked(x, q)
<1>1. r \in Rooms /\ q \in Rooms /\ ToSet(r.elim) \subseteq r.entrants
  BY DEF MatchOK
<1>2. QED BY <1>1, RankedStays

(* The orders of a finite set name all of it.                               *)
LEMMA OrdersName ==
  ASSUME NEW S, S \subseteq Players, NEW f \in Orders(S)
  PROVE  f \in Seq(Players) /\ ToSet(f) = S
<1>1. IsFiniteSet(S) /\ Cardinality(S) \in Nat
  BY RoomConstants, FS_Subset, FS_CardinalityType
<1>2. f \in [1..Cardinality(S) -> S] /\ IsInjective(f)
  BY DEF Orders
<1>3. f \in Seq(S) /\ Len(f) = Cardinality(S)
  BY <1>1, <1>2
<1>4. ToSet(f) = S
  BY <1>1, <1>2, <1>3, DistinctLength
<1>5. f \in Seq(Players)
  BY <1>3
<1>6. QED BY <1>4, <1>5

(* The deaths and the evictions of a tick.                                  *)
LEMMA ElimGrows ==
  ASSUME NEW e \in Seq(Players), IsInjective(e), NEW d \in Seq(Players), NEW g \in Seq(Players)
  PROVE  Grows(e, inOrder(Eliminate, inOrder(eliminated, e, d), g), ToSet(d) \cup ToSet(g))
<1> DEFINE f == inOrder(Eliminate, e, d)
           h == inOrder(Eliminate, f, g)
<1>1. inOrder(eliminated, e, d) = inOrder(Eliminate, e, d)
  BY DEF inOrder, eliminated
<1>2. Grows(e, f, ToSet(d))
  BY InOrder
<1>3. f \in Seq(Players) /\ IsInjective(f)
  BY <1>2 DEF Grows
<1>4. Grows(f, h, ToSet(g))
  <2> HIDE DEF f
  <2>1. QED BY <1>3, InOrder
<1> HIDE DEF f, h
<1>5. Grows(e, h, ToSet(d) \cup ToSet(g))
  BY <1>2, <1>4, GrowsTrans
<1>6. QED BY <1>1, <1>5 DEF f, h

(* A seat that waits for its player stays a seat, within the grace.        *)
LEMMA Waits ==
  ASSUME NEW x \in Seats, x = Absent \/ x.away < Grace
  PROVE  LET y == IF x = Absent \/ x.away < 0 THEN x ELSE [x EXCEPT !.away = @ + 1]
         IN  y \in Seats /\ (y = Absent <=> x = Absent)
<1>1. CASE x = Absent \/ x.away < 0
  BY <1>1
<1>2. CASE ~(x = Absent \/ x.away < 0)
  <2> DEFINE y == [x EXCEPT !.away = @ + 1]
  <2>1. x \in [socket : Nat, away : -1..Grace] /\ x.away \in 0..(Grace - 1) /\ Grace \in Nat
    BY <1>2, RoomConstants DEF Seats
  <2>2. y \in [socket : Nat, away : -1..Grace]
    BY <2>1
  <2>3. DOMAIN y = {"socket", "away"} /\ DOMAIN Absent = {"none"}
    BY <2>2 DEF Absent
  <2>4. y # Absent
    BY <2>3
  <2>5. QED BY <1>2, <2>2, <2>4 DEF Seats
<1>3. QED BY <1>1, <1>2

(* tick.                                                                   *)
LEMMA Ticked ==
  ASSUME NEW w, Good(w),
         NEW D, D \subseteq {p \in Players : w.snake[p] = "alive"}, NEW d \in Orders(D),
         NEW g \in Orders({p \in Players : w.seats[p] # Absent /\ w.seats[p].away >= Grace}),
         NEW u, u = tick(w, d, g)
  PROVE  Good(u) /\ GoesOn(w.room, u.room) /\ u.write = w.write /\ u.room.epoch = w.room.epoch
<1> DEFINE G == {p \in Players : w.seats[p] # Absent /\ w.seats[p].away >= Grace}
           r == w.room
           E == inOrder(Eliminate, inOrder(eliminated, r.elim, d), g)
           q == [r EXCEPT !.elim = E]
           pass(x) == IF x = Absent \/ x.away < 0 THEN x ELSE [x EXCEPT !.away = @ + 1]
           t == [p \in Players |-> IF p \in ToSet(g) THEN Absent ELSE pass(w.seats[p])]
           l == [p \in Players |-> IF p \in ToSet(g) THEN "none"
                                    ELSE IF p \in ToSet(d) THEN "dead" ELSE w.snake[p]]
<1>1. /\ w \in World /\ MatchOK(r, w.seats, w.snake) /\ IsInjective(w.write.standings)
      /\ r \in Rooms /\ w.seats \in [Players -> Seats] /\ w.snake \in [Players -> Snakes]
      /\ w.write \in Writes
  BY DEF Good, World
<1>2. d \in Seq(Players) /\ ToSet(d) = D /\ g \in Seq(Players) /\ ToSet(g) = G
  BY OrdersName
<1>3. r.elim \in Seq(Players) /\ IsInjective(r.elim) /\ r.entrants \subseteq Players
  BY <1>1 DEF MatchOK, Rooms
<1>4. Grows(r.elim, E, D \cup G)
  <2>1. Grows(r.elim, E, ToSet(d) \cup ToSet(g))
    BY <1>2, <1>3, ElimGrows
  <2>2. QED BY <1>2, <2>1
<1>5. D \subseteq r.entrants /\ G \subseteq r.entrants
  BY <1>1 DEF MatchOK
<1>6. u = [w EXCEPT !.seats = t, !.snake = l, !.room.elim = E]
  BY DEF tick
<1> HIDE DEF E
<1>7. /\ q \in Rooms /\ q.epoch = r.epoch /\ q.status = r.status /\ q.entrants = r.entrants
      /\ q.announced = r.announced /\ q.elim = E
  <2>1. E \in Seq(Players)
    BY <1>4 DEF Grows
  <2>2. QED BY <1>1, <2>1 DEF Rooms
<1>8. t \in [Players -> Seats] /\ \A p \in Players : t[p] = Absent <=> p \in G \/ w.seats[p] = Absent
  <2>1. SUFFICES ASSUME NEW p \in Players
                 PROVE  t[p] \in Seats /\ (t[p] = Absent <=> p \in G \/ w.seats[p] = Absent)
    BY Zenon
  <2>2. w.seats[p] \in Seats
    BY <1>1
  <2>3. CASE p \in G
    BY <1>2, <2>3 DEF Seats
  <2>4. CASE p \notin G
    <3>1. w.seats[p] = Absent \/ w.seats[p].away < Grace
      <4>1. w.seats[p] # Absent => w.seats[p].away \in -1..Grace
        BY <2>2 DEF Seats
      <4>2. QED BY <2>4, <4>1, RoomConstants
    <3>2. pass(w.seats[p]) \in Seats /\ (pass(w.seats[p]) = Absent <=> w.seats[p] = Absent)
      BY <2>2, <3>1, Waits
    <3>3. t[p] = pass(w.seats[p])
      BY <1>2, <2>4
    <3> HIDE DEF t, pass, G
    <3>4. QED BY <2>4, <3>2, <3>3
  <2>5. QED BY <2>3, <2>4
<1>9. l \in [Players -> Snakes] /\ \A p \in Players \ (D \cup G) : l[p] = w.snake[p]
  BY <1>1, <1>2 DEF Snakes
<1> HIDE DEF q, t, l, G
<1>10. MatchOK(q, t, l) /\ GoesOn(r, q)
  <2>1. Thins(r, w.seats, w.snake, D, G, q, t, l)
    <3>1. Grows(r.elim, q.elim, D \cup G)
      BY <1>4, <1>7
    <3>2. QED BY <1>5, <1>7, <1>8, <1>9, <3>1 DEF Thins
  <2>2. QED BY <1>1, <2>1, Thinned
<1>11. u = [w EXCEPT !.seats = t, !.snake = l, !.room = q]
  BY <1>1, <1>6 DEF World, q
<1>12. /\ u \in World /\ u.room = q /\ u.seats = t /\ u.snake = l /\ u.write = w.write
  BY <1>1, <1>7, <1>8, <1>9, <1>11 DEF World
<1>13. QED BY <1>1, <1>7, <1>10, <1>12 DEF Good

(* A step that changes nothing.                                            *)
LEMMA StandsStill ==
  ASSUME NEW w, Good(w)
  PROVE  /\ w.room \in Rooms /\ w.room.epoch \in Nat /\ w.write \in Writes /\ w.write.epoch \in Nat
         /\ GoesOn(w.room, w.room)
<1>1. /\ w.room \in Rooms /\ w.write \in Writes /\ IsInjective(w.room.elim)
      /\ w.room.elim \in Seq(Players) /\ w.room.epoch \in Nat
  <2>1. w.room \in Rooms /\ w.write \in Writes /\ MatchOK(w.room, w.seats, w.snake)
    BY DEF Good, World
  <2>2. QED BY <2>1 DEF MatchOK, Rooms
<1>2. Grows(w.room.elim, w.room.elim, {}) /\ {} \in SUBSET w.room.entrants
  BY <1>1 DEF Grows
<1>3. CASE w.room.status = "none" \/ w.room.announced = <<>>
  BY <1>1, <1>3 DEF GoesOn, Writes
<1>4. CASE w.room.status # "none" /\ w.room.announced # <<>>
  BY <1>1, <1>2, <1>4 DEF GoesOn, Writes
<1>5. QED BY <1>3, <1>4

(* A match that is over has at most one player who is not eliminated, and   *)
(* its result ranks everybody.                                              *)
LEMMA ResolvedRanks ==
  ASSUME NEW w, Good(w), isResolved(w)
  PROVE  /\ Rank(buildResult(w), w.room.entrants, w.room.elim) /\ buildResult(w) # <<>>
         /\ w.room.status # "none"
<1> DEFINE S == w.room.entrants
           e == w.room.elim
           left == S \ ToSet(e)
           in == {p \in Players : w.seats[p] # Absent /\ w.snake[p] # "none"}
<1>1. w.room \in Rooms /\ MatchOK(w.room, w.seats, w.snake)
  BY DEF Good, World
<1>2. S \subseteq Players /\ e \in Seq(Players) /\ IsInjective(e) /\ ToSet(e) \subseteq S
  BY <1>1 DEF MatchOK, Rooms
<1>3. left \subseteq in /\ in \subseteq Players
  BY <1>1, <1>2 DEF MatchOK
<1>4. IsFiniteSet(in) /\ IsFiniteSet(left) /\ IsFiniteSet(S)
  BY <1>2, <1>3, RoomConstants, FS_Subset
<1>5. Cardinality(left) <= Cardinality(in) /\ Cardinality(left) \in Nat /\ Cardinality(in) \in Nat
  BY <1>3, <1>4, FS_Subset, FS_CardinalityType
<1>6. Cardinality(in) <= 1 /\ Cardinality(S) >= 2 /\ w.room.status # "none"
  BY DEF isResolved, aliveCount
<1>7. Cardinality(left) <= 1
  BY ONLY <1>5, <1>6
<1>8. S # {}
  BY <1>6, FS_EmptySet
<1> DEFINE b == SetToSeq(left) \o Reverse(e)
<1>9. Rank(b, S, e)
  BY <1>2, <1>4, <1>7, RankBuilt
<1> HIDE DEF b, S, e
<1>10. b # <<>>
  BY <1>2, <1>4, <1>8, <1>9, RankFirst
<1>11. buildResult(w) = b
  BY DEF buildResult, b, S, e
<1>12. QED BY <1>6, <1>9, <1>10, <1>11 DEF S, e

(* The end is announced with the ranking of that moment.                    *)
LEMMA Announced ==
  ASSUME NEW w, Good(w), NEW a, a = announceEnd(w)
  PROVE  /\ Good(a) /\ GoesOn(w.room, a.room) /\ a.write = w.write
         /\ a.room.epoch = w.room.epoch
         /\ isResolved(a) => a.room.announced # <<>>
<1>1. CASE ~isResolved(w) \/ w.room.announced # <<>>
  <2>1. a = w
    BY <1>1 DEF announceEnd
  <2>2. QED BY <1>1, <2>1, StandsStill
<1>2. CASE isResolved(w) /\ w.room.announced = <<>>
  <2> DEFINE b == buildResult(w)
             r == w.room
             q == [r EXCEPT !.announced = b, !.status = "draining"]
  <2>1. Rank(b, r.entrants, r.elim) /\ b # <<>> /\ r.status # "none"
    BY <1>2, ResolvedRanks
  <2>2. w \in World /\ r \in Rooms /\ MatchOK(r, w.seats, w.snake) /\ IsInjective(w.write.standings)
    BY DEF Good, World
  <2>3. b \in Seq(Players)
    BY <2>1 DEF Rank
  <2>4. a = [w EXCEPT !.room.announced = b, !.room.status = "draining"]
    BY <1>2 DEF announceEnd
  <2> HIDE DEF b
  <2>5. /\ q \in Rooms /\ q.epoch = r.epoch /\ q.status = "draining" /\ q.announced = b
        /\ q.entrants = r.entrants /\ q.elim = r.elim
    BY <2>2, <2>3 DEF Rooms
  <2>6. a = [w EXCEPT !.room = q]
    BY <2>2, <2>4 DEF World, Rooms
  <2> HIDE DEF q
  <2>7. a \in World /\ a.room = q /\ a.seats = w.seats /\ a.snake = w.snake /\ a.write = w.write
    BY <2>2, <2>5, <2>6 DEF World
  <2>8. MatchOK(q, w.seats, w.snake)
    BY <2>1, <2>2, <2>5 DEF MatchOK
  <2>9. GoesOn(r, q)
    BY <1>2, <2>1, <2>5 DEF GoesOn
  <2>10. QED BY <2>1, <2>2, <2>5, <2>7, <2>8, <2>9 DEF Good
<1>3. QED BY <1>1, <1>2

(* The standings that are handed over rank the announced match.             *)
LEMMA Reported ==
  ASSUME NEW w, Good(w), isResolved(w) => w.room.announced # <<>>, Ranked(w.write, w.room),
         NEW u, u = reportFinishedMatches(w)
  PROVE  /\ Good(u) /\ GoesOn(w.room, u.room) /\ u.room.epoch = w.room.epoch
         /\ Ranked(u.write, u.room)
<1>1. CASE ~hasResult(w)
  <2>1. u = w
    BY <1>1 DEF reportFinishedMatches
  <2>2. QED BY <2>1, StandsStill
<1>2. CASE hasResult(w)
  <2> DEFINE b == buildResult(w)
             r == w.room
             q == [r EXCEPT !.reported = TRUE]
             x == [step |-> "set", standings |-> b, epoch |-> r.epoch]
  <2>1. isResolved(w)
    BY <1>2 DEF hasResult
  <2>2. Rank(b, r.entrants, r.elim) /\ r.status # "none" /\ r.announced # <<>>
    BY <2>1, ResolvedRanks
  <2>3. w \in World /\ r \in Rooms /\ MatchOK(r, w.seats, w.snake) /\ r.epoch \in Nat
    BY StandsStill DEF Good
  <2>4. b \in Seq(Players) /\ IsInjective(b)
    BY <2>2 DEF Rank
  <2>5. u = [w EXCEPT !.room.reported = TRUE, !.write = x]
    BY <1>2 DEF reportFinishedMatches
  <2> HIDE DEF b
  <2>6. x \in Writes /\ x.standings = b /\ x.epoch = r.epoch
    BY <2>3, <2>4 DEF Writes
  <2>7. /\ q \in Rooms /\ q.epoch = r.epoch /\ q.status = r.status /\ q.announced = r.announced
        /\ q.entrants = r.entrants /\ q.elim = r.elim
    BY <2>3 DEF Rooms
  <2>8. MatchOK(q, w.seats, w.snake) /\ GoesOn(r, q)
    BY ZenonT(30), <2>3, Marked
  <2>9. u = [w EXCEPT !.room = q, !.write = x]
    BY <2>3, <2>5 DEF World
  <2> HIDE DEF q, x
  <2>10. u \in World /\ u.room = q /\ u.seats = w.seats /\ u.snake = w.snake /\ u.write = x
    BY <2>3, <2>6, <2>7, <2>9 DEF World
  <2>11. Ranked(x, q)
    BY <2>2, <2>3, <2>6, <2>7 DEF Ranked
  <2>12. QED BY <2>4, <2>6, <2>7, <2>8, <2>10, <2>11 DEF Good
<1>3. QED BY <1>1, <1>2

(* Closing the room.                                                        *)
LEMMA Closed ==
  ASSUME NEW w, Good(w), NEW u, u = closed(w)
  PROVE  Good(u) /\ GoesOn(w.room, u.room) /\ u.room.epoch = w.room.epoch /\ u.write = w.write
<1> DEFINE q == emptyRoom(w.room.epoch, "none")
           t == [p \in Players |-> Absent]
           l == [p \in Players |-> "none"]
<1>1. w \in World /\ w.room \in Rooms /\ w.room.epoch \in Nat /\ IsInjective(w.write.standings)
  BY StandsStill DEF Good
<1>2. q \in Rooms /\ q.epoch = w.room.epoch /\ q.status = "none"
  BY <1>1, EmptyRooms
<1>3. /\ t \in [Players -> Seats] /\ l \in [Players -> Snakes]
      /\ \A p \in Players : t[p] = Absent /\ l[p] = "none"
  BY DEF Seats, Snakes
<1>4. u = [w EXCEPT !.room = q, !.seats = t, !.snake = l]
  BY DEF closed
<1> HIDE DEF t, l
<1>5. MatchOK(q, t, l)
  BY <1>1, <1>3, EmptyIsSound
<1> HIDE DEF q
<1>6. u \in World /\ u.room = q /\ u.seats = t /\ u.snake = l /\ u.write = w.write
  BY <1>1, <1>2, <1>3, <1>4 DEF World
<1>7. QED BY <1>1, <1>2, <1>5, <1>6 DEF Good, GoesOn

(* reapEmptyRooms.                                                         *)
LEMMA Reaped ==
  ASSUME NEW w, Good(w), NEW u, u = reapEmptyRooms(w)
  PROVE  Good(u) /\ GoesOn(w.room, u.room) /\ u.room.epoch = w.room.epoch /\ u.write = w.write
<1>1. u = closed(w) \/ u = w
  BY DEF reapEmptyRooms
<1>2. QED BY <1>1, Closed, StandsStill

(* The invariant holds before the first socket.                            *)
LEMMA MatchInvHolds == RoomInit => MatchInv
<1> SUFFICES ASSUME RoomInit PROVE MatchInv
  OBVIOUS
<1>1. /\ room = emptyRoom(0, "none") /\ seats = [p \in Players |-> Absent]
      /\ snake = [p \in Players |-> "none"] /\ sockets = [s \in 1..MaxSockets |-> Absent]
      /\ write = NoWrite /\ stored = NoResult /\ queued = FALSE /\ staked \in BOOLEAN /\ opened = 0
  BY DEF RoomInit
<1>2. MatchOK(room, seats, snake)
  <2>1. seats \in [Players -> Seats] /\ snake \in [Players -> Snakes]
    BY <1>1 DEF Seats, Snakes
  <2>2. \A p \in Players : seats[p] = Absent /\ snake[p] = "none"
    BY <1>1
  <2>3. QED BY <1>1, <2>1, <2>2, EmptyIsSound
<1>3. room.epoch = 0 /\ room.status = "none"
  BY <1>1, EmptyRooms
<1>4. /\ write \in Writes /\ write.epoch = 0 /\ IsInjective(write.standings)
      /\ stored \in Results /\ stored.epoch = 0 /\ IsInjective(stored.standings)
  <2>1. <<>> \in Seq(Players) /\ IsInjective(<<>>)
    BY DEF IsInjective
  <2>2. QED BY <1>1, <2>1 DEF NoWrite, NoResult, Writes, Results
<1>5. Ranked(write, room) /\ Ranked(stored, room)
  BY <1>3, <1>4 DEF Ranked
<1>6. sockets \in [1..MaxSockets -> Sockets]
  BY <1>1 DEF Sockets
<1>7. opened \in 0..MaxSockets /\ room.epoch <= opened
  BY <1>1, <1>3, RoomConstants
<1>8. QED BY <1>1, <1>2, <1>4, <1>5, <1>6, <1>7 DEF MatchInv

(* What a step has to show.                                                 *)
LEMMA MatchGoesOn ==
  ASSUME MatchInv, MatchOK(room', seats', snake'), GoesOn(room, room'),
         room'.epoch <= opened', opened' \in 0..MaxSockets,
         \/ UNCHANGED write
         \/ write' \in Writes /\ IsInjective(write'.standings) /\ Ranked(write', room'),
         UNCHANGED stored, UNCHANGED staked, queued' \in BOOLEAN,
         sockets' \in [1..MaxSockets -> Sockets]
  PROVE  MatchInv'
<1>1. /\ MatchOK(room, seats, snake) /\ write \in Writes /\ stored \in Results
      /\ IsInjective(write.standings) /\ IsInjective(stored.standings)
      /\ Ranked(write, room) /\ Ranked(stored, room) /\ staked \in BOOLEAN
  BY DEF MatchInv
<1>2. write.epoch \in Nat /\ stored.epoch \in Nat
  BY <1>1 DEF Writes, Results
<1>3. Ranked(stored, room') /\ Ranked(write, room')
  BY <1>1, <1>2, Stays
<1>4. /\ write' \in Writes /\ IsInjective(write'.standings) /\ Ranked(write', room')
  BY <1>1, <1>3
<1>5. /\ stored' \in Results /\ IsInjective(stored'.standings) /\ Ranked(stored', room')
      /\ staked' \in BOOLEAN
  BY <1>1, <1>3
<1>6. QED BY <1>4, <1>5 DEF MatchInv

(* What the invariant says of the room, its seats and its snakes.          *)
LEMMA MatchIs ==
  ASSUME MatchInv
  PROVE  /\ MatchOK(room, seats, snake) /\ room \in Rooms /\ room.epoch \in Nat
         /\ seats \in [Players -> Seats] /\ snake \in [Players -> Snakes]
         /\ IsInjective(room.elim) /\ room.elim \in Seq(Players)
         /\ GoesOn(room, room) /\ Good(Now)
         /\ Now.room = room /\ Now.seats = seats /\ Now.snake = snake /\ Now.write = write
         /\ sockets \in [1..MaxSockets -> Sockets] /\ queued \in BOOLEAN
         /\ opened \in Nat /\ opened <= MaxSockets /\ room.epoch <= opened
<1>1. MatchOK(room, seats, snake) /\ write \in Writes /\ IsInjective(write.standings)
  BY DEF MatchInv
<1>2. /\ room \in Rooms /\ seats \in [Players -> Seats] /\ snake \in [Players -> Snakes]
      /\ IsInjective(room.elim)
  BY <1>1 DEF MatchOK
<1>3. Now.room = room /\ Now.seats = seats /\ Now.snake = snake /\ Now.write = write /\ Now \in World
  BY <1>1, <1>2 DEF Now, World
<1>4. Good(Now)
  BY <1>1, <1>3 DEF Good
<1>5. GoesOn(room, room) /\ room.epoch \in Nat
  BY <1>3, <1>4, StandsStill
<1>6. room.elim \in Seq(Players)
  BY <1>2 DEF Rooms
<1>7. /\ sockets \in [1..MaxSockets -> Sockets] /\ queued \in BOOLEAN
      /\ opened \in 0..MaxSockets /\ room.epoch <= opened
  BY DEF MatchInv
<1>8. opened \in Nat /\ opened <= MaxSockets
  BY <1>7, RoomConstants
<1>9. QED BY <1>1, <1>2, <1>3, <1>4, <1>5, <1>6, <1>7, <1>8

(* A player who connects.                                                  *)
LEMMA ConnectionSound ==
  ASSUME MatchInv, NEW p \in Players, connection(p)
  PROVE  MatchInv'
<1> DEFINE s == opened + 1
           r == ensureRoom
<1>1. /\ MatchOK(room, seats, snake) /\ room \in Rooms /\ room.epoch \in Nat
      /\ sockets \in [1..MaxSockets -> Sockets] /\ queued \in BOOLEAN
      /\ opened \in Nat /\ room.epoch <= opened
  BY MatchIs
<1>2. opened < MaxSockets /\ opened' = s /\ UNCHANGED <<write, stored, queued, staked>>
  BY DEF connection
<1>3. /\ MatchOK(r, seats, snake) /\ GoesOn(room, r)
      /\ r.status # "none" /\ r.epoch \in Nat /\ r.epoch <= room.epoch + 1
  BY <1>1, Ensured DEF ensureRoom
<1>4. s \in 1..MaxSockets /\ r.epoch <= opened' /\ opened' \in 0..MaxSockets
  BY ONLY <1>1, <1>2, <1>3, RoomConstants
<1>5. CASE r.status = "draining" \/ (isFull /\ seats[p] = Absent)
  <2>1. room' = r /\ UNCHANGED <<seats, snake, sockets>>
    BY <1>5 DEF connection
  <2> HIDE DEF r, s
  <2>2. QED BY <1>1, <1>2, <1>3, <1>4, <2>1, MatchGoesOn
<1>6. CASE ~(r.status = "draining" \/ (isFull /\ seats[p] = Absent))
  <2> DEFINE chair == [socket |-> s, away |-> -1]
             q == [r EXCEPT !.entrants = @ \cup {p}]
             t == [seats EXCEPT ![p] = chair]
             l == IF seats[p] # Absent THEN snake ELSE [snake EXCEPT ![p] = "alive"]
  <2>1. /\ sockets' = [sockets EXCEPT ![s] = [player |-> p, epoch |-> r.epoch]]
        /\ seats' = t /\ room' = q /\ snake' = l
    BY <1>6 DEF connection, addPlayer
  <2>2. r \in Rooms /\ r.status = "active"
    BY <1>3, <1>6 DEF MatchOK, Rooms
  <2>3. chair \in [socket : Nat, away : -1..Grace]
    BY <1>1, RoomConstants
  <2>4. Cardinality(SeatedIn(seats)) < MaxPlayers \/ seats[p] # Absent
    <3>1. Seated = SeatedIn(seats)
      BY DEF Seated, SeatedIn
    <3>2. Cardinality(SeatedIn(seats)) \in Nat
      <4>1. SeatedIn(seats) \subseteq Players
        BY DEF SeatedIn
      <4>2. QED BY <4>1, RoomConstants, FS_Subset, FS_CardinalityType
    <3>3. ~(Cardinality(SeatedIn(seats)) >= MaxPlayers) \/ seats[p] # Absent
      BY <1>6, <3>1 DEF isFull
    <3>4. QED BY ONLY <3>2, <3>3, RoomConstants
  <2>5. sockets' \in [1..MaxSockets -> Sockets]
    <3>1. [player |-> p, epoch |-> r.epoch] \in Sockets
      BY <1>3 DEF Sockets
    <3> HIDE DEF r, s
    <3>2. QED BY <1>1, <2>1, <3>1
  <2>6. q \in Rooms /\ q.epoch = r.epoch
    BY <2>2 DEF Rooms
  <2> HIDE DEF r, s, chair, q, t, l
  <2>7. MatchOK(q, t, l) /\ GoesOn(r, q)
    BY <1>3, <2>2, <2>3, <2>4, <2>6, Seating DEF q, t, l
  <2>8. GoesOn(room, q)
    <3>1. CASE room.status = "none"
      <4>1. r.epoch = room.epoch + 1
        BY <1>1, <3>1, EmptyRooms DEF r, ensureRoom
      <4>2. QED BY <1>1, <2>6, <4>1 DEF GoesOn
    <3>2. CASE room.status # "none"
      <4>1. r = room
        BY <3>2 DEF r, ensureRoom
      <4>2. QED BY <2>7, <4>1
    <3>3. QED BY <3>1, <3>2
  <2>9. MatchOK(room', seats', snake') /\ GoesOn(room, room') /\ room'.epoch <= opened'
    BY <1>4, <2>1, <2>6, <2>7, <2>8
  <2>10. UNCHANGED write /\ UNCHANGED stored /\ UNCHANGED staked /\ queued' \in BOOLEAN
    BY <1>1, <1>2
  <2>11. QED BY ONLY MatchInv, <1>4, <2>5, <2>9, <2>10, MatchGoesOn
<1>7. QED BY <1>5, <1>6

(* A player who leaves.                                                    *)
LEMMA LeaveSound ==
  ASSUME MatchInv, NEW s \in 1..MaxSockets, leave(s)
  PROVE  MatchInv'
<1>1. /\ MatchOK(room, seats, snake) /\ room \in Rooms /\ room.epoch \in Nat
      /\ seats \in [Players -> Seats] /\ snake \in [Players -> Snakes]
      /\ IsInjective(room.elim) /\ room.elim \in Seq(Players) /\ GoesOn(room, room)
      /\ sockets \in [1..MaxSockets -> Sockets] /\ queued \in BOOLEAN
      /\ opened \in Nat /\ opened <= MaxSockets /\ room.epoch <= opened
  BY MatchIs
<1>2. /\ sockets' = [sockets EXCEPT ![s] = Absent] /\ sockets[s] # Absent
      /\ UNCHANGED write /\ UNCHANGED stored /\ UNCHANGED staked /\ UNCHANGED queued /\ UNCHANGED opened
  BY DEF leave, Close, Live
<1>3. sockets' \in [1..MaxSockets -> Sockets] /\ opened' \in 0..MaxSockets /\ queued' \in BOOLEAN
  BY <1>1, <1>2, RoomConstants DEF Sockets
<1>4. MatchOK(room', seats', snake') /\ GoesOn(room, room') /\ room'.epoch = room.epoch
  <2>1. CASE Current(s) /\ seats[sockets[s].player] # Absent
    <3> DEFINE p == sockets[s].player
               gone == <<p>>
               e == inOrder(Eliminate, room.elim, gone)
               q == [room EXCEPT !.elim = e]
               t == [x \in Players |-> IF x \in ToSet(gone) THEN Absent ELSE seats[x]]
               l == [x \in Players |-> IF x \in ToSet(gone) THEN "none" ELSE snake[x]]
    <3>1. p \in Players
      BY <1>1, <1>2 DEF Sockets
    <3>2. room' = q /\ seats' = t /\ snake' = l
      BY <2>1 DEF leave, removePlayer
    <3>3. gone \in Seq(Players) /\ ToSet(gone) = {p}
      <4>1. gone \in Seq(Players) /\ DOMAIN gone = {1} /\ gone[1] = p
        BY <3>1
      <4>2. QED BY <4>1 DEF ToSet
    <3>4. Grows(room.elim, e, {p})
      BY <1>1, <3>3, InOrder
    <3>5. p \in room.entrants
      BY <1>1, <2>1, <3>1 DEF MatchOK
    <3> HIDE DEF e
    <3>6. /\ q \in Rooms /\ q.epoch = room.epoch /\ q.status = room.status
          /\ q.entrants = room.entrants /\ q.announced = room.announced /\ q.elim = e
      <4>1. e \in Seq(Players)
        BY <3>4 DEF Grows
      <4>2. QED BY <1>1, <4>1 DEF Rooms
    <3>7. /\ t \in [Players -> Seats] /\ l \in [Players -> Snakes]
          /\ \A x \in Players : t[x] = Absent <=> x \in {p} \/ seats[x] = Absent
          /\ \A x \in Players \ ({} \cup {p}) : l[x] = snake[x]
      BY <1>1, <3>3 DEF Seats, Snakes
    <3> HIDE DEF q, t, l, p, gone
    <3>8. Thins(room, seats, snake, {}, {p}, q, t, l)
      <4>1. Grows(room.elim, q.elim, {} \cup {p})
        BY <3>4, <3>6
      <4>2. QED BY <3>5, <3>6, <3>7, <4>1 DEF Thins
    <3>9. QED BY <1>1, <3>2, <3>6, <3>8, Thinned
  <2>2. CASE ~(Current(s) /\ seats[sockets[s].player] # Absent)
    <3>1. UNCHANGED <<room, seats, snake>>
      BY <2>2 DEF leave
    <3>2. QED BY <1>1, <3>1
  <2>3. QED BY <2>1, <2>2
<1>5. room'.epoch <= opened'
  BY <1>1, <1>2, <1>4
<1>6. QED BY <1>2, <1>3, <1>4, <1>5, MatchGoesOn

(* A socket that is lost.                                                  *)
LEMMA MarkDisconnectedSound ==
  ASSUME MatchInv, NEW s \in 1..MaxSockets, markDisconnected(s)
  PROVE  MatchInv'
<1>1. /\ MatchOK(room, seats, snake) /\ room \in Rooms /\ room.epoch \in Nat
      /\ seats \in [Players -> Seats] /\ snake \in [Players -> Snakes]
      /\ IsInjective(room.elim) /\ room.elim \in Seq(Players) /\ GoesOn(room, room)
      /\ sockets \in [1..MaxSockets -> Sockets] /\ queued \in BOOLEAN
      /\ opened \in Nat /\ opened <= MaxSockets /\ room.epoch <= opened
  BY MatchIs
<1>2. /\ sockets' = [sockets EXCEPT ![s] = Absent] /\ sockets[s] # Absent
      /\ UNCHANGED write /\ UNCHANGED stored /\ UNCHANGED staked /\ UNCHANGED queued /\ UNCHANGED opened
      /\ UNCHANGED room /\ UNCHANGED snake
  BY DEF markDisconnected, Close, Live
<1>3. sockets' \in [1..MaxSockets -> Sockets] /\ opened' \in 0..MaxSockets /\ queued' \in BOOLEAN
  BY <1>1, <1>2, RoomConstants DEF Sockets
<1>4. MatchOK(room, seats', snake)
  <2>1. CASE Current(s) /\ seats[sockets[s].player] # Absent
    <3> DEFINE p == sockets[s].player
               x == seats[p]
               y == [x EXCEPT !.away = 0]
               t == [seats EXCEPT ![p] = y]
    <3>1. p \in Players
      BY <1>1, <1>2 DEF Sockets
    <3>2. seats' = t
      BY <2>1 DEF markDisconnected
    <3>3. y \in Seats /\ y # Absent
      <4>1. x \in [socket : Nat, away : -1..Grace]
        BY <1>1, <2>1, <3>1 DEF Seats
      <4>2. y \in [socket : Nat, away : -1..Grace]
        BY <4>1, RoomConstants
      <4>3. DOMAIN y = {"socket", "away"} /\ DOMAIN Absent = {"none"}
        BY <4>2 DEF Absent
      <4>4. QED BY <4>2, <4>3 DEF Seats
    <3> HIDE DEF y
    <3>4. t \in [Players -> Seats] /\ \A z \in Players : t[z] = Absent <=> seats[z] = Absent
      BY <1>1, <2>1, <3>1, <3>3
    <3> HIDE DEF t
    <3>5. SeatedIn(t) = SeatedIn(seats)
      BY <3>4 DEF SeatedIn
    <3>6. \A z \in room.entrants \ ToSet(room.elim) : t[z] # Absent
      <4>1. room.entrants \subseteq Players
        BY <1>1 DEF Rooms
      <4>2. QED BY <1>1, <3>4, <4>1 DEF MatchOK
    <3>7. MatchOK(room, t, snake)
      BY <1>1, <3>4, <3>5, <3>6 DEF MatchOK
    <3>8. QED BY <3>2, <3>7
  <2>2. CASE ~(Current(s) /\ seats[sockets[s].player] # Absent)
    <3>1. UNCHANGED seats
      BY <2>2 DEF markDisconnected
    <3>2. QED BY <1>1, <3>1
  <2>3. QED BY <2>1, <2>2
<1>5. MatchOK(room', seats', snake') /\ GoesOn(room, room') /\ room'.epoch <= opened'
  BY <1>1, <1>2, <1>4
<1>6. QED BY <1>2, <1>3, <1>5, MatchGoesOn

(* A snake that comes back.                                                *)
LEMMA RespawnSound ==
  ASSUME MatchInv, NEW s \in 1..MaxSockets, respawn(s)
  PROVE  MatchInv'
<1>1. /\ MatchOK(room, seats, snake) /\ GoesOn(room, room)
      /\ sockets \in [1..MaxSockets -> Sockets] /\ queued \in BOOLEAN
      /\ opened \in Nat /\ opened <= MaxSockets /\ room.epoch <= opened
  BY MatchIs
<1>2. /\ sockets[s] # Absent /\ seats[sockets[s].player] # Absent
      /\ snake' = [snake EXCEPT ![sockets[s].player] = "alive"]
      /\ UNCHANGED <<room, seats, sockets, write, stored, queued, staked, opened>>
  BY DEF respawn, Live
<1>3. sockets[s].player \in Players
  BY <1>1, <1>2 DEF Sockets
<1>4. MatchOK(room, seats, snake')
  BY <1>1, <1>2, <1>3, Respawned
<1>5. MatchOK(room', seats', snake') /\ GoesOn(room, room') /\ room'.epoch <= opened' /\ opened' \in 0..MaxSockets
  BY <1>1, <1>2, <1>4, RoomConstants
<1>6. QED BY <1>1, <1>2, <1>5, MatchGoesOn

(* A pass of the tick loop: every part of it keeps the match sound and its *)
(* results fair.                                                           *)
LEMMA RunTickSound ==
  ASSUME MatchInv, runTick
  PROVE  MatchInv'
<1>1. /\ MatchOK(room, seats, snake) /\ Good(Now)
      /\ Now.room = room /\ Now.seats = seats /\ Now.snake = snake /\ Now.write = write
      /\ sockets \in [1..MaxSockets -> Sockets] /\ queued \in BOOLEAN
      /\ opened \in Nat /\ opened <= MaxSockets /\ room.epoch <= opened
  BY MatchIs
<1>2. UNCHANGED <<sockets, stored, queued, staked, opened>>
  BY DEF runTick
<1>3. PICK d \in Deaths, gone \in Orders({p \in Players : expired(p)}) :
        \E w \in {tick(Now, d, gone)} : \E a \in {announceEnd(w)} : \E r \in {reportFinishedMatches(a)} :
          Becomes(reapEmptyRooms(r))
  BY DEF runTick
<1> DEFINE w == tick(Now, d, gone)
           a == announceEnd(w)
           r == reportFinishedMatches(a)
           u == reapEmptyRooms(r)
<1>4. room' = u.room /\ seats' = u.seats /\ snake' = u.snake /\ write' = u.write
  BY <1>3 DEF Becomes
<1>5. PICK D \in SUBSET {p \in Players : snake[p] = "alive"} : d \in Orders(D)
  BY DEF Deaths
<1>6. gone \in Orders({p \in Players : Now.seats[p] # Absent /\ Now.seats[p].away >= Grace})
  <2>1. {p \in Players : expired(p)}
          = {p \in Players : Now.seats[p] # Absent /\ Now.seats[p].away >= Grace}
    BY <1>1 DEF expired
  <2>2. QED BY <2>1
<1>7. Good(w) /\ GoesOn(room, w.room) /\ w.write = write /\ w.room.epoch = room.epoch
  <2>1. D \subseteq {p \in Players : Now.snake[p] = "alive"}
    BY <1>1
  <2>2. QED BY <1>1, <1>5, <1>6, <2>1, Ticked
<1>8. write.epoch \in Nat /\ Ranked(write, room) /\ stored.epoch \in Nat /\ Ranked(stored, room)
      /\ staked \in BOOLEAN
      /\ stored \in Results /\ IsInjective(stored.standings)
  BY DEF MatchInv, Writes, Results
<1> HIDE DEF w
<1>9. Ranked(write, w.room) /\ Ranked(stored, w.room)
  BY <1>1, <1>7, <1>8, Stays DEF Good
<1>10. /\ Good(a) /\ GoesOn(w.room, a.room) /\ a.write = write /\ a.room.epoch = room.epoch
       /\ isResolved(a) => a.room.announced # <<>>
  BY <1>7, Announced
<1> HIDE DEF a
<1>11. Ranked(a.write, a.room) /\ Ranked(stored, a.room)
  BY <1>7, <1>8, <1>9, <1>10, Stays DEF Good
<1>12. /\ Good(r) /\ GoesOn(a.room, r.room) /\ r.room.epoch = room.epoch /\ Ranked(r.write, r.room)
  BY <1>10, <1>11, Reported
<1> HIDE DEF r
<1>13. Ranked(stored, r.room) /\ r.write.epoch \in Nat
  <2>1. Ranked(stored, r.room)
    BY <1>8, <1>10, <1>11, <1>12, Stays DEF Good
  <2>2. QED BY <1>12, <2>1, StandsStill
<1>14. Good(u) /\ GoesOn(r.room, u.room) /\ u.room.epoch = room.epoch /\ u.write = r.write
  BY <1>12, Reaped
<1> HIDE DEF u
<1>15. Ranked(u.write, u.room) /\ Ranked(stored, u.room)
  BY <1>8, <1>12, <1>13, <1>14, Stays DEF Good
<1>16. /\ MatchOK(room', seats', snake') /\ write' \in Writes /\ IsInjective(write'.standings)
       /\ Ranked(write', room') /\ Ranked(stored', room') /\ room'.epoch <= opened'
  <2>1. MatchOK(u.room, u.seats, u.snake) /\ u.write \in Writes /\ IsInjective(u.write.standings)
    BY <1>14 DEF Good, World
  <2>2. room'.epoch <= opened'
    BY <1>1, <1>2, <1>4, <1>14
  <2>3. stored' = stored
    BY <1>2
  <2>4. QED BY <1>4, <1>15, <2>1, <2>2, <2>3
<1>17. QED BY <1>1, <1>2, <1>8, <1>16, RoomConstants DEF MatchInv

(* The write that rests.                                                   *)
LEMMA NothingWritten ==
  ASSUME NEW r, NEW s, NEW k, MatchOK(r, s, k)
  PROVE  NoWrite \in Writes /\ IsInjective(NoWrite.standings) /\ Ranked(NoWrite, r)
<1>1. <<>> \in Seq(Players) /\ IsInjective(<<>>)
  BY DEF IsInjective
<1>2. NoWrite \in Writes /\ NoWrite.standings = <<>> /\ NoWrite.epoch = 0
  BY <1>1 DEF NoWrite, Writes
<1>3. r.epoch \in Nat /\ (r.status # "none" => r.epoch > 0)
  BY DEF MatchOK, Rooms
<1>4. QED BY <1>1, <1>2, <1>3 DEF Ranked

(* The result is set, then queued.                                         *)
LEMMA WrittenSound ==
  ASSUME MatchInv, Written
  PROVE  MatchInv'
<1>1. /\ MatchOK(room, seats, snake) /\ write \in Writes /\ stored \in Results
      /\ IsInjective(write.standings) /\ IsInjective(stored.standings)
      /\ Ranked(write, room) /\ Ranked(stored, room)
      /\ sockets \in [1..MaxSockets -> Sockets] /\ queued \in BOOLEAN /\ staked \in BOOLEAN
      /\ opened \in 0..MaxSockets /\ room.epoch <= opened
  BY DEF MatchInv
<1>2. UNCHANGED <<room, seats, snake, sockets, staked, opened>>
  BY DEF Written
<1>3. /\ write' \in Writes /\ IsInjective(write'.standings) /\ Ranked(write', room)
      /\ stored' \in Results /\ IsInjective(stored'.standings) /\ Ranked(stored', room)
      /\ queued' \in BOOLEAN
  <2>1. CASE write.step = "set"
    <3>1. /\ stored' = [standings |-> write.standings, epoch |-> write.epoch]
          /\ write' = [write EXCEPT !.step = "sadd"] /\ UNCHANGED queued
      BY <2>1 DEF Written
    <3>2. /\ write' \in Writes /\ write'.standings = write.standings /\ write'.epoch = write.epoch
          /\ stored' \in Results /\ stored'.standings = write.standings /\ stored'.epoch = write.epoch
      BY <1>1, <3>1 DEF Writes, Results
    <3>3. QED BY <1>1, <3>1, <3>2 DEF Ranked
  <2>2. CASE write.step # "set"
    <3>1. queued' = TRUE /\ write' = NoWrite /\ UNCHANGED stored
      BY <2>2 DEF Written
    <3>2. NoWrite \in Writes /\ IsInjective(NoWrite.standings) /\ Ranked(NoWrite, room)
      BY <1>1, NothingWritten
    <3>3. QED BY <1>1, <3>1, <3>2
  <2>3. QED BY <2>1, <2>2
<1>4. QED BY <1>1, <1>2, <1>3 DEF MatchInv

(* A write that fails.                                                     *)
LEMMA WriteFailsSound ==
  ASSUME MatchInv, WriteFails
  PROVE  MatchInv'
<1>1. /\ MatchOK(room, seats, snake) /\ GoesOn(room, room)
      /\ sockets \in [1..MaxSockets -> Sockets] /\ queued \in BOOLEAN
      /\ opened \in Nat /\ opened <= MaxSockets /\ room.epoch <= opened
  BY MatchIs
<1>2. /\ room' = unmarkReported /\ write' = NoWrite
      /\ UNCHANGED <<seats, snake, sockets, stored, queued, staked, opened>>
  BY DEF WriteFails
<1>3. MatchOK(room', seats, snake) /\ GoesOn(room, room') /\ room'.epoch = room.epoch
  <2>1. room' = [room EXCEPT !.reported = FALSE] \/ room' = room
    BY <1>2 DEF unmarkReported
  <2>2. QED BY <1>1, <2>1, Marked
<1>4. NoWrite \in Writes /\ IsInjective(NoWrite.standings) /\ Ranked(NoWrite, room')
  BY <1>3, NothingWritten
<1>5. MatchOK(room', seats', snake') /\ room'.epoch <= opened' /\ opened' \in 0..MaxSockets
  BY <1>1, <1>2, <1>3, RoomConstants
<1>6. QED BY <1>1, <1>2, <1>3, <1>4, <1>5, MatchGoesOn

(* The rooms drain.                                                        *)
LEMMA DrainSound ==
  ASSUME MatchInv, drain
  PROVE  MatchInv'
<1>1. /\ MatchOK(room, seats, snake)
      /\ sockets \in [1..MaxSockets -> Sockets] /\ queued \in BOOLEAN
      /\ opened \in Nat /\ opened <= MaxSockets /\ room.epoch <= opened
  BY MatchIs
<1>2. /\ room.status = "active" /\ room' = [room EXCEPT !.status = "draining"]
      /\ UNCHANGED <<seats, snake, sockets, write, stored, queued, staked, opened>>
  BY DEF drain
<1>3. MatchOK(room', seats, snake) /\ GoesOn(room, room') /\ room'.epoch = room.epoch
  BY <1>1, <1>2, Drained
<1>4. MatchOK(room', seats', snake') /\ room'.epoch <= opened' /\ opened' \in 0..MaxSockets
  BY <1>1, <1>2, <1>3, RoomConstants
<1>5. QED BY <1>1, <1>2, <1>3, <1>4, MatchGoesOn

(* The deadline of the drain.                                              *)
LEMMA DrainDeadlineSound ==
  ASSUME MatchInv, drainDeadline
  PROVE  MatchInv'
<1>1. /\ Good(Now) /\ Now.room = room /\ Now.write = write /\ queued \in BOOLEAN
      /\ opened \in Nat /\ opened <= MaxSockets /\ room.epoch <= opened /\ room.epoch \in Nat
  BY MatchIs
<1> DEFINE u == closed(Now)
<1>2. /\ room' = u.room /\ seats' = u.seats /\ snake' = u.snake /\ write' = u.write
      /\ sockets' = [s \in 1..MaxSockets |-> Absent] /\ opened' = MaxSockets
      /\ UNCHANGED <<stored, queued, staked>>
  BY DEF drainDeadline, Becomes
<1>3. Good(u) /\ GoesOn(room, u.room) /\ u.room.epoch = room.epoch /\ u.write = write
  BY <1>1, Closed
<1> HIDE DEF u
<1>4. MatchOK(room', seats', snake') /\ GoesOn(room, room') /\ write' = write
  BY <1>2, <1>3 DEF Good
<1>5. /\ room'.epoch <= opened' /\ opened' \in 0..MaxSockets /\ sockets' \in [1..MaxSockets -> Sockets]
  BY <1>1, <1>2, <1>3, RoomConstants DEF Sockets
<1>6. QED BY <1>1, <1>2, <1>4, <1>5, MatchGoesOn

(* Every step keeps the invariant.                                         *)
LEMMA RoomNextSound ==
  ASSUME MatchInv, [RoomNext]_roomVars
  PROVE  MatchInv'
<1>1. CASE UNCHANGED roomVars
  BY <1>1 DEF roomVars, MatchInv
<1>2. ASSUME NEW p \in Players, connection(p) PROVE MatchInv'
  BY <1>2, ConnectionSound
<1>3. ASSUME NEW s \in 1..MaxSockets, leave(s) \/ markDisconnected(s) \/ respawn(s) PROVE MatchInv'
  BY <1>3, LeaveSound, MarkDisconnectedSound, RespawnSound
<1>4. QED
  BY <1>1, <1>2, <1>3, RunTickSound, WrittenSound, WriteFailsSound, DrainSound, DrainDeadlineSound
     DEF RoomNext

(* The invariant implies the property of the run.                          *)
LEMMA MatchInvIsFair == MatchInv => ResultInv
<1> SUFFICES ASSUME MatchInv PROVE ResultInv
  OBVIOUS
<1>1. /\ MatchOK(room, seats, snake) /\ write \in Writes /\ stored \in Results
      /\ IsInjective(write.standings) /\ IsInjective(stored.standings)
      /\ Ranked(stored, room)
      /\ sockets \in [1..MaxSockets -> Sockets] /\ {queued, staked} \subseteq BOOLEAN
      /\ opened \in 0..MaxSockets /\ room.epoch <= opened
  BY DEF MatchInv
<1>2. /\ room \in Rooms /\ room.epoch \in Nat /\ room.entrants \subseteq Players
      /\ room.elim \in Seq(Players) /\ room.announced \in Seq(Players)
      /\ IsInjective(room.elim) /\ ToSet(room.elim) \subseteq room.entrants
      /\ room.announced # <<>> => /\ room.status = "draining"
                                  /\ Rank(room.announced, room.entrants, room.elim)
      /\ seats \in [Players -> Seats] /\ snake \in [Players -> Snakes]
  BY <1>1 DEF MatchOK, Rooms
<1>3. RoomTypeOK
  <2>1. room.status \in {"none", "active", "draining"} /\ room.reported \in BOOLEAN
    BY <1>2 DEF Rooms
  <2>2. room.epoch \in 0..MaxSockets
    BY <1>1, <1>2, RoomConstants
  <2>3. IsInjective(room.announced)
    BY <1>2 DEF Rank, IsInjective
  <2>4. ASSUME NEW e \in Seq(Players) PROVE ToSet(e) \subseteq Players
    BY DEF ToSet
  <2>5. \A e \in {room.elim, room.announced, stored.standings, write.standings} :
          ToSet(e) \subseteq Players /\ IsInjective(e)
    <3>1. stored.standings \in Seq(Players) /\ write.standings \in Seq(Players)
      BY <1>1 DEF Writes, Results
    <3>2. QED BY <1>1, <1>2, <2>3, <2>4, <3>1
  <2>6. \A p \in Players : /\ snake[p] \in {"none", "alive", "dead"}
                           /\ seats[p] # Absent => seats[p].away \in -1..Grace
    BY <1>2 DEF Seats, Snakes
  <2>7. Cardinality(Seated) <= MaxPlayers
    BY <1>1 DEF MatchOK, Seated, SeatedIn
  <2>8. \A s \in 1..MaxSockets : Live(s) => sockets[s].player \in Players
    BY <1>1 DEF Live, Sockets
  <2>9. write.step \in {"idle", "set", "sadd"}
    BY <1>1 DEF Writes
  <2>10. room.entrants \subseteq Players /\ {queued, staked} \subseteq BOOLEAN
    BY <1>1, <1>2
  <2>11. QED BY <2>1, <2>2, <2>5, <2>6, <2>7, <2>8, <2>9, <2>10 DEF RoomTypeOK
<1>4. ASSUME stored.epoch > 0, stored.epoch = room.epoch, room.status # "none"
      PROVE  Rank(stored.standings, room.entrants, room.elim) /\ room.announced # <<>>
  BY <1>1, <1>4 DEF Ranked
<1>5. ResultIsFair
  BY <1>2, <1>4, RankFair DEF ResultIsFair
<1>6. AnnouncedIsPaid
  <2>1. SUFFICES ASSUME stored.epoch > 0, stored.epoch = room.epoch, room.announced # <<>>
                 PROVE  stored.standings[1] = room.announced[1]
    BY DEF AnnouncedIsPaid
  <2>2. /\ Rank(room.announced, room.entrants, room.elim)
        /\ Rank(stored.standings, room.entrants, room.elim)
    BY <1>2, <1>4, <2>1
  <2>3. IsFiniteSet(room.entrants)
    BY <1>2, RoomConstants, FS_Subset
  <2>4. room.entrants # {}
    <3>1. ToSet(room.announced) = room.entrants /\ Len(room.announced) # 0 /\ Len(room.announced) \in Nat
      BY <1>2, <2>1, <2>2 DEF Rank
    <3>2. room.announced[1] \in ToSet(room.announced)
      BY <1>2, <3>1 DEF ToSet
    <3>3. QED BY <3>1, <3>2
  <2>5. QED BY <1>2, <2>2, <2>3, <2>4, RankFirst
<1>7. QED BY <1>3, <1>5, <1>6 DEF ResultInv

(***************************************************************************)
(* However deaths, departures, evictions and failed writes fall, for any   *)
(* players, seats, grace, sockets and failures: the result in Redis ranks  *)
(* everybody who was in the match, nobody ahead of a player who outlasted  *)
(* them, with the announced winner first (buildResult).                    *)
(***************************************************************************)
THEOREM ResultIsPaidFairly == RoomSpec => []ResultInv
<1>1. RoomInit => MatchInv
  BY MatchInvHolds
<1>2. MatchInv /\ [RoomNext]_roomVars => MatchInv'
  BY RoomNextSound
<1>3. MatchInv => ResultInv
  BY MatchInvIsFair
<1>4. QED BY <1>1, <1>2, <1>3, PTL DEF RoomSpec

-----------------------------------------------------------------------------
(***************************************************************************)
(* MatchCycle.                                                             *)
(***************************************************************************)

(***************************************************************************)
(* The inductive invariant.                                                *)
(***************************************************************************)

Job == [state : {"absent", "waiting", "active", "completed", "failed"},
        attempts : 0..(Attempts - 1), game : 0..MaxGames]

Steps == {"idle", "find", "create", "pool", "create-room", "open", "close", "seal", "settle",
          "cancel", "refund", "history", "reset", "enqueue", "complete"}

Exec == [cycle : 0..Windows, stage : 0..7, step : Steps, game : 0..MaxGames]

Game == [cycle : -1..Windows, status : {"none", "PENDING", "RUNNING", "COMPLETED", "CANCELLED"},
         room : {"none", "open", "started"}, escrow : BOOLEAN, launched : BOOLEAN,
         reported : {"none", "valid", "invalid"}, settled : BOOLEAN, archived : BOOLEAN]

Lobby == [players : 0..MaxQueue, game : 0..MaxGames]

Ensure == [step : {"idle", "bind", "check"}, game : 0..MaxGames]

Typed ==
  /\ job \in [Cycles -> [1..7 -> Job]]
  /\ exec \in [Workers -> Exec]
  /\ game \in [Games -> Game]
  /\ lobby \in Lobby
  /\ ensure \in Ensure
  /\ windows \in 0..Windows

Added(w, s) == job[w][s].state # "absent"

(* A job is about a game of its own window, and only a settled game is     *)
(* sent to the archive.                                                    *)
JobOK(w, s) ==
  Added(w, s) =>
    /\ s > 1 => job[w][s].game \in Games /\ game[job[w][s].game].cycle = w
    /\ s = 7 => game[job[w][s].game].settled

(* A worker runs a job that is there, with the job's game; create-game     *)
(* goes on with a game of its window, end-match with one that is settled.  *)
ExecOK(k) ==
  LET e == exec[k] IN
  e.step # "idle" =>
    /\ e.cycle \in Cycles /\ e.stage \in 1..7 /\ Added(e.cycle, e.stage)
    /\ e.stage > 1 => e.game = job[e.cycle][e.stage].game
    /\ e.step \in {"find", "create"} => e.stage = 1
    /\ e.step \in {"pool", "create-room"} => e.stage = 2
    /\ e.step = "open" => e.stage = 3
    /\ e.step \in {"close", "seal"} => e.stage = 4
    /\ e.step \in {"settle", "cancel"} => e.stage = 6
    /\ e.step \in {"history", "reset"} => e.stage = 7
    /\ e.step = "refund" => e.game \in Games
    /\ e.step = "enqueue" => /\ e.game \in Games /\ game[e.game].cycle = e.cycle
                             /\ e.stage = 6 => game[e.game].settled

(* A game with an escrow row is the one its window's create-pool carries.  *)
EscrowOK(g) ==
  game[g].escrow /\ game[g].cycle \in Cycles =>
    Added(game[g].cycle, 2) /\ job[game[g].cycle][2].game = g

GInv ==
  /\ Typed
  /\ \A w \in Cycles, s \in 1..7 : JobOK(w, s)
  /\ \A k \in Workers : ExecOK(k)
  /\ \A g \in Games : EscrowOK(g)
  /\ ensure.step = "check" => ensure.game \in Games
  /\ ArchivedIsSettled

(***************************************************************************)
(* The seven stages.                                                       *)
(***************************************************************************)

LEMMA StageFacts ==
  /\ Stages = 1..7 /\ Len(CYCLE_STAGES) = 7
  /\ CYCLE_STAGES[1] = "create-game" /\ CYCLE_STAGES[2] = "create-pool"
  /\ CYCLE_STAGES[3] = "open-lobby" /\ CYCLE_STAGES[4] = "close-lobby"
  /\ CYCLE_STAGES[5] = "start-match" /\ CYCLE_STAGES[6] = "end-match"
  /\ CYCLE_STAGES[7] = "archive-game"
BY DEF Stages, CYCLE_STAGES

LEMMA FirstStage == stageOf("create-game") = 1
<1>1. 1 \in Stages /\ CYCLE_STAGES[1] = "create-game"
  BY StageFacts
<1>2. \A s \in Stages : CYCLE_STAGES[s] = "create-game" => s = 1
  BY StageFacts
<1>3. QED BY <1>1, <1>2 DEF stageOf

LEMMA FirstSteps ==
  /\ FirstStep(1) = "find" /\ FirstStep(2) = "pool" /\ FirstStep(3) = "open"
  /\ FirstStep(4) = "close" /\ FirstStep(5) = "enqueue" /\ FirstStep(6) = "settle"
  /\ FirstStep(7) = "history"
BY StageFacts DEF FirstStep

LEMMA NextStages ==
  ASSUME NEW s \in 1..7
  PROVE  nextStage(s) = IF s < 7 THEN s + 1 ELSE 0
BY StageFacts DEF nextStage, None

LEMMA Sizes ==
  /\ Windows \in Nat \ {0} /\ MaxGames \in Nat \ {0} /\ MaxWorkers \in Nat \ {0}
  /\ MinPlayers \in Nat \ {0} /\ MaxQueue \in Nat \ {0} /\ Attempts \in Nat \ {0}
BY CycleConstants

(***************************************************************************)
(* The queue.                                                              *)
(***************************************************************************)

(* A job that is there stays, with its game.                               *)
JobsKept ==
  \A w \in Cycles, s \in 1..7 :
    Added(w, s) => Added(w, s)' /\ job'[w][s].game = job[w][s].game

LEMMA EnqueueKeeps ==
  ASSUME Typed, NEW w \in Cycles, NEW s \in 1..7, NEW g \in 0..MaxGames,
         job' = enqueueStage(w, s, g)
  PROVE  /\ job' \in [Cycles -> [1..7 -> Job]]
         /\ JobsKept
         /\ Added(w, s)'
         /\ \A v \in Cycles, t \in 1..7 : Added(v, t)' /\ ~Added(v, t) =>
              v = w /\ t = s /\ job'[v][t].game = g
<1> DEFINE new == [state |-> "waiting", attempts |-> 0, game |-> g]
<1>1. CASE job[w][s].state = "absent"
  <2>1. job' = [job EXCEPT ![w][s] = new]
    BY <1>1 DEF enqueueStage
  <2>2. new \in Job /\ new.state # "absent" /\ new.game = g
    BY Sizes DEF Job
  <2> HIDE DEF new
  <2>3. /\ job \in [Cycles -> [1..7 -> Job]]
        /\ job' \in [Cycles -> [1..7 -> Job]] /\ job'[w][s] = new
        /\ \A v \in Cycles, t \in 1..7 : v # w \/ t # s => job'[v][t] = job[v][t]
    BY <2>1, <2>2 DEF Typed
  <2>4. QED BY <1>1, <2>2, <2>3 DEF JobsKept, Added
<1>2. CASE job[w][s].state # "absent"
  BY <1>2 DEF enqueueStage, JobsKept, Added, Typed
<1>3. QED BY <1>1, <1>2

(* Nor does what happens to a delivered job change which jobs are there.   *)
JobsSame ==
  \A w \in Cycles, s \in 1..7 :
    (Added(w, s)' <=> Added(w, s)) /\ job'[w][s].game = job[w][s].game

MarkedDone(w, s, state, attempts) ==
  job' = [job EXCEPT ![w][s].state = state, ![w][s].attempts = attempts]

LEMMA StateKeeps ==
  ASSUME Typed, NEW w \in Cycles, NEW s \in 1..7, Added(w, s),
         NEW state \in {"waiting", "completed", "failed"},
         NEW attempts \in 0..(Attempts - 1),
         MarkedDone(w, s, state, attempts)
  PROVE  job' \in [Cycles -> [1..7 -> Job]] /\ JobsSame
<1> DEFINE new == [job[w][s] EXCEPT !.state = state, !.attempts = attempts]
<1>1. job \in [Cycles -> [1..7 -> Job]] /\ job[w][s] \in Job
  BY DEF Typed
<1>2. job' = [job EXCEPT ![w][s] = new]
  BY <1>1 DEF MarkedDone
<1>3. new \in Job /\ new.state = state /\ new.game = job[w][s].game
  BY <1>1 DEF Job
<1> HIDE DEF new
<1>4. /\ job' \in [Cycles -> [1..7 -> Job]] /\ job'[w][s] = new
      /\ \A v \in Cycles, t \in 1..7 : v # w \/ t # s => job'[v][t] = job[v][t]
  BY ONLY <1>1, <1>2, <1>3, w \in Cycles, s \in 1..7
<1>5. QED BY <1>3, <1>4 DEF JobsSame, Added

LEMMA ActiveKeeps ==
  ASSUME Typed, NEW w \in Cycles, NEW s \in 1..7, Added(w, s),
         job' = [job EXCEPT ![w][s].state = "active"]
  PROVE  job' \in [Cycles -> [1..7 -> Job]] /\ JobsSame
<1> DEFINE new == [job[w][s] EXCEPT !.state = "active"]
<1>1. job \in [Cycles -> [1..7 -> Job]] /\ job[w][s] \in Job
  BY DEF Typed
<1>2. job' = [job EXCEPT ![w][s] = new]
  BY <1>1
<1>3. new \in Job /\ new.state = "active" /\ new.game = job[w][s].game
  BY <1>1 DEF Job
<1> HIDE DEF new
<1>4. /\ job' \in [Cycles -> [1..7 -> Job]] /\ job'[w][s] = new
      /\ \A v \in Cycles, t \in 1..7 : v # w \/ t # s => job'[v][t] = job[v][t]
  BY ONLY <1>1, <1>2, <1>3, w \in Cycles, s \in 1..7
<1>5. QED BY <1>3, <1>4 DEF JobsSame, Added

LEMMA WorkerParts ==
  ASSUME GInv, NEW k \in Workers
  PROVE  /\ exec \in [Workers -> Exec] /\ exec[k] \in Exec /\ ExecOK(k)
         /\ exec[k].cycle \in 0..Windows /\ exec[k].stage \in 0..7
         /\ exec[k].step \in Steps /\ exec[k].game \in 0..MaxGames
BY DEF GInv, Typed, Exec

LEMMA BusyParts ==
  ASSUME GInv, NEW k \in Workers, exec[k].step # "idle"
  PROVE  /\ exec[k].cycle \in Cycles /\ exec[k].stage \in 1..7
         /\ Added(exec[k].cycle, exec[k].stage)
         /\ job[exec[k].cycle][exec[k].stage] \in Job
         /\ exec[k].stage > 1 => /\ exec[k].game = job[exec[k].cycle][exec[k].stage].game
                                 /\ exec[k].game \in Games
                                 /\ game[exec[k].game].cycle = exec[k].cycle
         /\ exec[k].stage = 7 => game[exec[k].game].settled
<1>1. ExecOK(k)
  BY DEF GInv
<1>2. /\ exec[k].cycle \in Cycles /\ exec[k].stage \in 1..7
      /\ Added(exec[k].cycle, exec[k].stage)
      /\ exec[k].stage > 1 => exec[k].game = job[exec[k].cycle][exec[k].stage].game
  BY <1>1 DEF ExecOK
<1>3. JobOK(exec[k].cycle, exec[k].stage)
  BY <1>2 DEF GInv
<1>4. job[exec[k].cycle][exec[k].stage] \in Job
  BY <1>2 DEF GInv, Typed
<1>5. LET g == job[exec[k].cycle][exec[k].stage].game
      IN  /\ exec[k].stage > 1 => g \in Games /\ game[g].cycle = exec[k].cycle
          /\ exec[k].stage = 7 => game[g].settled
  BY <1>2, <1>3 DEF JobOK
<1>6. exec[k].stage = 7 => exec[k].stage > 1
  OBVIOUS
<1>7. QED BY <1>2, <1>4, <1>5, <1>6

(* A stage that throws waits for another try or has failed for good.       *)
LEMMA ThrowWrites ==
  ASSUME NEW k, Throw(k), Mine(k).state = "active"
  PROVE  \/ SetMine(k, "failed", 0)
         \/ ~isFinalAttempt(Mine(k).attempts + 1) /\ SetMine(k, "waiting", Mine(k).attempts + 1)
<1>1. CASE isFinalAttempt(Mine(k).attempts + 1)
  BY <1>1 DEF Throw
<1>2. CASE ~isFinalAttempt(Mine(k).attempts + 1)
  BY <1>2 DEF Throw
<1>3. QED BY <1>1, <1>2

LEMMA ThrowKeeps ==
  ASSUME GInv, NEW k \in Workers, exec[k].step # "idle", Throw(k)
  PROVE  /\ job' \in [Cycles -> [1..7 -> Job]] /\ JobsSame
         /\ \/ exec' = [exec EXCEPT ![k] = IdleWorker]
            \/ exec[k].game # None /\ exec' = [exec EXCEPT ![k] = [exec[k] EXCEPT !.step = "refund"]]
<1> DEFINE w == exec[k].cycle
           s == exec[k].stage
           made == job[w][s].attempts + 1
<1>0. w \in Cycles /\ s \in 1..7 /\ Added(w, s) /\ Typed
  BY BusyParts DEF GInv
<1>1. job[w][s] \in Job
  BY BusyParts
<1>2. CASE job[w][s].state # "active"
  <2>1. UNCHANGED job
    BY <1>2 DEF Throw, Mine
  <2>2. QED BY <1>0, <1>2, <2>1 DEF Throw, Mine, JobsSame, Added, Typed
<1>3. CASE job[w][s].state = "active"
  <2>1. \/ exec' = [exec EXCEPT ![k] = IdleWorker]
        \/ exec[k].game # None /\ exec' = [exec EXCEPT ![k] = [exec[k] EXCEPT !.step = "refund"]]
    BY <1>3 DEF Throw, Mine
  <2>2. \/ SetMine(k, "failed", 0)
        \/ ~isFinalAttempt(made) /\ SetMine(k, "waiting", made)
    BY <1>3, ThrowWrites DEF Mine
  <2>3. 0 \in 0..(Attempts - 1) /\ (~isFinalAttempt(made) => made \in 0..(Attempts - 1))
    BY <1>1, Sizes DEF Job, isFinalAttempt
  <2> HIDE DEF made
  <2>4. ASSUME SetMine(k, "failed", 0)
        PROVE  job' \in [Cycles -> [1..7 -> Job]] /\ JobsSame
    <3>1. MarkedDone(w, s, "failed", 0)
      BY <2>4 DEF SetMine, MarkedDone
    <3> HIDE DEF w, s
    <3>2. QED BY <3>1, <2>3, <1>0, StateKeeps
  <2>5. ASSUME ~isFinalAttempt(made), SetMine(k, "waiting", made)
        PROVE  job' \in [Cycles -> [1..7 -> Job]] /\ JobsSame
    <3>1. MarkedDone(w, s, "waiting", made)
      BY <2>5 DEF SetMine, MarkedDone
    <3> HIDE DEF w, s
    <3>2. QED BY <3>1, <2>3, <2>5, <1>0, StateKeeps
  <2>6. QED BY <2>1, <2>2, <2>4, <2>5
<1>4. QED BY <1>2, <1>3

LEMMA SameKept ==
  ASSUME JobsSame
  PROVE  JobsKept
BY DEF JobsSame, JobsKept

LEMMA UnchangedSame ==
  ASSUME UNCHANGED job
  PROVE  JobsSame
BY DEF JobsSame, Added

(* The steps that add a job, and all the others.                           *)
Adds(k) == EnqueueNext(k) /\ exec[k].stage < 7

LEMMA JobsStep ==
  ASSUME GInv, [Next]_vars
  PROVE  \/ startCycle \/ handleSchedulerTick
         \/ \E k \in Workers : Adds(k)
         \/ job' \in [Cycles -> [1..7 -> Job]] /\ JobsSame
<1> DEFINE Quiet == job' \in [Cycles -> [1..7 -> Job]] /\ JobsSame
<1>1. ASSUME UNCHANGED job PROVE Quiet
  BY <1>1, UnchangedSame DEF GInv, Typed
<1>2. ASSUME NEW k \in Workers, Complete(k) PROVE Quiet
  <2> DEFINE w == exec[k].cycle
             s == exec[k].stage
  <2>1. w \in Cycles /\ s \in 1..7 /\ Added(w, s) /\ Typed
    BY <1>2, BusyParts DEF Complete, At, GInv
  <2>2. CASE job[w][s].state = "active"
    <3>1. MarkedDone(w, s, "completed", 0)
      BY <1>2, <2>2 DEF Complete, Mine, SetMine, MarkedDone
    <3> HIDE DEF w, s
    <3>2. 0 \in 0..(Attempts - 1)
      BY Sizes
    <3>3. QED BY <2>1, <3>1, <3>2, StateKeeps
  <2>3. CASE job[w][s].state # "active"
    BY <1>1, <1>2, <2>3 DEF Complete, Mine
  <2>4. QED BY <2>2, <2>3
<1>3. ASSUME NEW k \in Workers, EnqueueNext(k) PROVE Adds(k) \/ Quiet
  <2>1. exec[k].stage \in 1..7
    BY <1>3, BusyParts DEF EnqueueNext, At
  <2>2. exec[k].stage = 7 => UNCHANGED job
    BY <1>3, <2>1, NextStages DEF EnqueueNext, None
  <2>3. QED BY <1>1, <1>3, <2>1, <2>2 DEF Adds
<1>4. ASSUME NEW k \in Workers, endMatch(k) PROVE Quiet
  <2>1. exec[k].step # "idle" /\ (Throw(k) \/ UNCHANGED job)
    BY <1>4 DEF endMatch, At
  <2>2. QED BY <1>1, <2>1, ThrowKeeps
<1>5. ASSUME NEW k \in Workers, CallFails(k) PROVE Quiet
  BY <1>5, ThrowKeeps DEF CallFails
<1>6. ASSUME NEW k \in Workers, Crash(k) PROVE Quiet
  <2> DEFINE w == exec[k].cycle
             s == exec[k].stage
             a == job[w][s].attempts
  <2>1. w \in Cycles /\ s \in 1..7 /\ Added(w, s) /\ a \in 0..(Attempts - 1) /\ Typed
    BY <1>6, BusyParts DEF Crash, At, Job, GInv
  <2>2. CASE job[w][s].state = "active"
    <3>1. MarkedDone(w, s, "waiting", a)
      BY <1>6, <2>2 DEF Crash, Mine, SetMine, MarkedDone
    <3> HIDE DEF w, s, a
    <3>2. QED BY <2>1, <3>1, StateKeeps
  <2>3. CASE job[w][s].state # "active"
    BY <1>1, <1>6, <2>3 DEF Crash, Mine
  <2>4. QED BY <2>2, <2>3
<1>7. ASSUME NEW k \in Workers, NEW w \in Cycles, NEW s \in Stages, runStage(k, w, s) PROVE Quiet
  <2>1. s \in 1..7 /\ Added(w, s) /\ job' = [job EXCEPT ![w][s].state = "active"]
    BY <1>7, StageFacts DEF runStage, Added
  <2>2. QED BY <2>1, ActiveKeeps DEF GInv
<1>8. ASSUME NEW k \in Workers, StageStep(k)
      PROVE  Complete(k) \/ EnqueueNext(k) \/ endMatch(k) \/ UNCHANGED job
  BY <1>8 DEF StageStep, createGame, InsertGame, createPool, CreateRoomOnChain, openLobby,
              closeLobby, startRoom, refundAbandonedMatch, archiveGame, ResetLobby
<1>9. ASSUME NEW k \in Workers, NEW other \in Workers, Stalled(k, other) PROVE UNCHANGED job
  BY <1>9 DEF Stalled
<1>10. Ensurer => UNCHANGED job
  BY DEF Ensurer, ensureRooms, bindGame, EnsureOnChain
<1>11. ASSUME NEW g \in Games, settleFinished(g) \/ Report(g) PROVE UNCHANGED job
  BY <1>11 DEF settleFinished, Report
<1>12. Join \/ performLaunch \/ UNCHANGED vars => UNCHANGED job
  BY DEF Join, performLaunch, vars
<1> HIDE DEF Quiet
<1>13. UNCHANGED job => Quiet
  BY <1>1 DEF Quiet
<1>14. Quiet \/ startCycle \/ handleSchedulerTick \/ \E k \in Workers : Adds(k)
  BY <1>2, <1>3, <1>4, <1>5, <1>6, <1>7, <1>8, <1>9, <1>10, <1>11, <1>12, <1>13 DEF Next
<1>15. QED BY <1>14 DEF Quiet

LEMMA JobsStayTyped ==
  ASSUME GInv, [Next]_vars
  PROVE  job' \in [Cycles -> [1..7 -> Job]] /\ JobsKept
<1>t. Typed /\ 1 \in 1..7 /\ None \in 0..MaxGames
  BY Sizes DEF GInv, None
<1>1. CASE startCycle
  <2>1. windows + 1 \in Cycles /\ job' = enqueueStage(windows + 1, 1, None)
    BY <1>t, <1>1, FirstStage, Sizes DEF startCycle, Typed, Cycles
  <2>2. QED BY <1>t, <2>1, EnqueueKeeps
<1>2. CASE handleSchedulerTick
  <2>1. windows \in Cycles /\ job' = enqueueStage(windows, 1, None)
    BY <1>t, <1>2, FirstStage, Sizes DEF handleSchedulerTick, Typed, Cycles
  <2>2. QED BY <1>t, <2>1, EnqueueKeeps
<1>3. ASSUME NEW k \in Workers, Adds(k) PROVE job' \in [Cycles -> [1..7 -> Job]] /\ JobsKept
  <2> DEFINE w == exec[k].cycle
             s == exec[k].stage + 1
             g == exec[k].game
  <2>1. w \in Cycles /\ s \in 1..7 /\ g \in 0..MaxGames
    BY <1>3, BusyParts, WorkerParts DEF Adds, EnqueueNext, At
  <2>2. job' = enqueueStage(w, s, g)
    BY <1>3, BusyParts, NextStages DEF Adds, EnqueueNext, At, None
  <2> HIDE DEF w, s, g
  <2>3. QED BY <1>t, <2>1, <2>2, EnqueueKeeps
<1>4. QED BY <1>1, <1>2, <1>3, JobsStep, SameKept

(* A job that was not there is about the game of its window.               *)
LEMMA NewJobs ==
  ASSUME GInv, [Next]_vars, NEW v \in Cycles, NEW t \in 1..7, Added(v, t)', ~Added(v, t)
  PROVE  \/ t = 1
         \/ /\ t > 1 /\ job'[v][t].game \in Games /\ game[job'[v][t].game].cycle = v
            /\ t = 7 => game[job'[v][t].game].settled
<1>t. Typed /\ 1 \in 1..7 /\ None \in 0..MaxGames
  BY Sizes DEF GInv, None
<1>1. CASE startCycle
  <2>1. windows + 1 \in Cycles /\ job' = enqueueStage(windows + 1, 1, None)
    BY <1>t, <1>1, FirstStage, Sizes DEF startCycle, Typed, Cycles
  <2>2. QED BY <1>t, <2>1, EnqueueKeeps
<1>2. CASE handleSchedulerTick
  <2>1. windows \in Cycles /\ job' = enqueueStage(windows, 1, None)
    BY <1>t, <1>2, FirstStage, Sizes DEF handleSchedulerTick, Typed, Cycles
  <2>2. QED BY <1>t, <2>1, EnqueueKeeps
<1>3. ASSUME NEW k \in Workers, Adds(k)
      PROVE  /\ t > 1 /\ job'[v][t].game \in Games /\ game[job'[v][t].game].cycle = v
             /\ t = 7 => game[job'[v][t].game].settled
  <2> DEFINE w == exec[k].cycle
             s == exec[k].stage + 1
             g == exec[k].game
  <2>1. /\ w \in Cycles /\ s \in 1..7 /\ s > 1 /\ g \in 0..MaxGames
        /\ ExecOK(k) /\ exec[k].step = "enqueue" /\ exec[k].stage \in 1..7
    BY <1>3, BusyParts, WorkerParts DEF Adds, EnqueueNext, At
  <2>2. job' = enqueueStage(w, s, g)
    BY <1>3, BusyParts, NextStages DEF Adds, EnqueueNext, At, None
  <2>3. g \in Games /\ game[g].cycle = w /\ (s = 7 => game[g].settled)
    BY <2>1 DEF ExecOK
  <2> HIDE DEF w, s, g
  <2>4. v = w /\ t = s /\ job'[v][t].game = g
    BY <1>t, <2>1, <2>2, EnqueueKeeps
  <2>5. QED BY <2>1, <2>3, <2>4
<1>4. ~JobsSame
  BY DEF JobsSame
<1>5. QED BY <1>1, <1>2, <1>3, <1>4, JobsStep

(***************************************************************************)
(* The games.                                                              *)
(***************************************************************************)

(* A window's game stays its own, and a settled one settled.               *)
GamesKept ==
  \A g \in Games : /\ game[g].cycle \in Cycles => game'[g].cycle = game[g].cycle
                   /\ game[g].settled => game'[g].settled

(* A row that is no newly opened escrow and not newly archived.            *)
RowOK(g, r) ==
  /\ r \in Game
  /\ game[g].cycle \in Cycles => r.cycle = game[g].cycle
  /\ game[g].settled => r.settled
  /\ r.escrow => game[g].escrow /\ r.cycle = game[g].cycle
  /\ r.archived => game[g].archived

GamesCalm == game' \in [Games -> Game] /\ \A g \in Games : RowOK(g, game'[g])

LEMMA SameCalm ==
  ASSUME Typed, UNCHANGED game
  PROVE  GamesCalm
<1>1. game \in [Games -> Game]
  BY DEF Typed
<1>2. ASSUME NEW g \in Games PROVE RowOK(g, game[g])
  BY <1>1 DEF RowOK
<1>3. QED BY <1>1, <1>2 DEF GamesCalm

LEMMA RowCalm ==
  ASSUME Typed, NEW g \in Games, NEW r, RowOK(g, r), game' = [game EXCEPT ![g] = r]
  PROVE  GamesCalm
<1>1. game \in [Games -> Game] /\ r \in Game
  BY DEF Typed, RowOK
<1>2. ASSUME NEW h \in Games PROVE RowOK(h, game'[h])
  <2>1. CASE h = g
    <3>1. game'[h] = r
      BY <1>1, <2>1
    <3>2. QED BY <2>1, <3>1
  <2>2. CASE h # g
    <3>1. game'[h] = game[h]
      BY <1>1, <2>2
    <3>2. QED BY <1>1, <3>1 DEF RowOK
  <2>3. QED BY <2>1, <2>2
<1>3. QED BY <1>1, <1>2 DEF GamesCalm

LEMMA NewGameCalm ==
  ASSUME Typed, NEW g \in Games, NEW cycle \in 0..Windows, NewGame(g, cycle)
  PROVE  GamesCalm /\ game'[g].cycle = cycle
<1> DEFINE r == [Unused EXCEPT !.cycle = cycle, !.status = "PENDING"]
<1>1. /\ game[g] = Unused /\ game' = [game EXCEPT ![g] = r] /\ game \in [Games -> Game]
  BY DEF NewGame, Typed
<1>2. /\ r \in Game /\ ~r.settled /\ ~r.escrow /\ ~r.archived /\ r.cycle = cycle
      /\ Unused.cycle \notin Cycles /\ ~Unused.settled
  <2>1. cycle \in -1..Windows /\ -1 \notin Cycles
    BY Sizes DEF Cycles
  <2>2. /\ Unused.cycle = -1 /\ ~Unused.settled /\ ~Unused.escrow /\ ~Unused.archived
    BY DEF Unused
  <2>3. Unused \in Game
    BY <1>1
  <2>4. QED BY <2>1, <2>2, <2>3 DEF Game
<1> HIDE DEF r
<1>3. RowOK(g, r)
  BY <1>1, <1>2 DEF RowOK
<1>4. game'[g] = r
  BY <1>1
<1>5. QED BY <1>1, <1>2, <1>3, <1>4, RowCalm

LEMMA RoomCalm ==
  ASSUME Typed, NEW g \in Games, NEW v \in {"none", "open", "started"},
         game' = [game EXCEPT ![g].room = v]
  PROVE  GamesCalm
<1> DEFINE r == [game[g] EXCEPT !.room = v]
<1>1. game \in [Games -> Game] /\ game[g] \in Game /\ game' = [game EXCEPT ![g] = r]
  BY DEF Typed
<1>2. RowOK(g, r)
  BY <1>1 DEF RowOK, Game
<1> HIDE DEF r
<1>3. QED BY <1>1, <1>2, RowCalm

LEMMA StatusCalm ==
  ASSUME Typed, NEW g \in Games, NEW v \in {"RUNNING", "CANCELLED"},
         game' = [game EXCEPT ![g].status = v]
  PROVE  GamesCalm
<1> DEFINE r == [game[g] EXCEPT !.status = v]
<1>1. game \in [Games -> Game] /\ game[g] \in Game /\ game' = [game EXCEPT ![g] = r]
  BY DEF Typed
<1>2. RowOK(g, r)
  BY <1>1 DEF RowOK, Game
<1> HIDE DEF r
<1>3. QED BY <1>1, <1>2, RowCalm

LEMMA SettledCalm ==
  ASSUME Typed, NEW g \in Games, game' = settled(g)
  PROVE  GamesCalm /\ game'[g].settled
<1> DEFINE r == [game[g] EXCEPT !.settled = TRUE, !.status = "COMPLETED"]
<1>1. game \in [Games -> Game] /\ game[g] \in Game /\ game' = [game EXCEPT ![g] = r]
  BY DEF Typed, settled
<1>2. RowOK(g, r) /\ r.settled
  BY <1>1 DEF RowOK, Game
<1> HIDE DEF r
<1>3. game'[g] = r
  BY <1>1
<1>4. QED BY <1>1, <1>2, <1>3, RowCalm

LEMMA LaunchedCalm ==
  ASSUME Typed, NEW g \in Games, game' = [game EXCEPT ![g].launched = TRUE]
  PROVE  GamesCalm
<1> DEFINE r == [game[g] EXCEPT !.launched = TRUE]
<1>1. game \in [Games -> Game] /\ game[g] \in Game /\ game' = [game EXCEPT ![g] = r]
  BY DEF Typed
<1>2. RowOK(g, r)
  BY <1>1 DEF RowOK, Game
<1> HIDE DEF r
<1>3. QED BY <1>1, <1>2, RowCalm

LEMMA ReportedCalm ==
  ASSUME Typed, NEW g \in Games, NEW v \in {"valid", "invalid"},
         game' = [game EXCEPT ![g].reported = v]
  PROVE  GamesCalm
<1> DEFINE r == [game[g] EXCEPT !.reported = v]
<1>1. game \in [Games -> Game] /\ game[g] \in Game /\ game' = [game EXCEPT ![g] = r]
  BY DEF Typed
<1>2. RowOK(g, r)
  BY <1>1 DEF RowOK, Game
<1> HIDE DEF r
<1>3. QED BY <1>1, <1>2, RowCalm

(* The steps that write an escrow row or a history, and all the others.    *)
Pools(k) == At(k, "pool") /\ game' = [game EXCEPT ![exec[k].game].escrow = TRUE]

Archives(k) == At(k, "history") /\ game' = [game EXCEPT ![exec[k].game].archived = TRUE]

LEMMA StageParts ==
  ASSUME GInv, NEW k \in Workers,
         exec[k].step \in {"pool", "create-room", "open", "close", "seal", "settle", "cancel",
                           "history", "reset"}
  PROVE  /\ exec[k].game \in Games /\ exec[k].stage > 1
         /\ game[exec[k].game].cycle = exec[k].cycle /\ exec[k].cycle \in Cycles
<1>1. exec[k].step # "idle" /\ ExecOK(k)
  BY DEF GInv
<1>2. exec[k].stage > 1
  BY <1>1 DEF ExecOK
<1>3. QED BY <1>1, <1>2, BusyParts

LEMMA CreateRoomCalm ==
  ASSUME Typed, NEW g \in Games, game' = createRoom(g)
  PROVE  GamesCalm
<1> DEFINE v == IF game[g].room = "none" THEN "open" ELSE game[g].room
<1>1. v \in {"none", "open", "started"} /\ game' = [game EXCEPT ![g].room = v]
  BY DEF createRoom, Typed, Game
<1> HIDE DEF v
<1>2. QED BY <1>1, RoomCalm

LEMMA GamesStep ==
  ASSUME GInv, [Next]_vars
  PROVE  GamesCalm \/ \E k \in Workers : Pools(k) \/ Archives(k)
<1>t. Typed /\ game \in [Games -> Game]
  BY DEF GInv, Typed
<1>0. ASSUME UNCHANGED game PROVE GamesCalm
  BY <1>t, <1>0, SameCalm
<1>1. ASSUME NEW k \in Workers, InsertGame(k) PROVE GamesCalm
  <2>1. exec[k].cycle \in 0..Windows
    BY WorkerParts
  <2>2. PICK g \in Games : NewGame(g, exec[k].cycle)
    BY <1>1 DEF InsertGame
  <2>3. QED BY <1>t, <2>1, <2>2, NewGameCalm
<1>2. ASSUME NEW k \in Workers, createPool(k) PROVE GamesCalm \/ Pools(k)
  BY <1>0, <1>2 DEF createPool, Pools
<1>3. ASSUME NEW k \in Workers, CreateRoomOnChain(k) PROVE GamesCalm
  <2>1. exec[k].game \in Games
    BY <1>3, StageParts DEF CreateRoomOnChain, At
  <2>2. game' = createRoom(exec[k].game) \/ UNCHANGED game
    BY <1>3 DEF CreateRoomOnChain
  <2>3. QED BY <1>0, <1>t, <2>1, <2>2, CreateRoomCalm
<1>4. ASSUME NEW k \in Workers, closeLobby(k) PROVE GamesCalm
  <2>1. exec[k].game \in Games
    BY <1>4, StageParts DEF closeLobby, At
  <2>2. game' = [game EXCEPT ![exec[k].game].status = "RUNNING"] \/ UNCHANGED game
    BY <1>4 DEF closeLobby
  <2>3. QED BY <1>0, <1>t, <2>1, <2>2, StatusCalm
<1>5. ASSUME NEW k \in Workers, startRoom(k) PROVE GamesCalm
  <2> DEFINE g == exec[k].game
             v == IF game[g].room = "open" THEN "started" ELSE game[g].room
  <2>1. g \in Games
    BY <1>5, StageParts DEF startRoom, At
  <2>2. v \in {"none", "open", "started"} /\ game' = [game EXCEPT ![g].room = v]
    BY <1>5, <1>t, <2>1 DEF startRoom, Game
  <2> HIDE DEF v, g
  <2>3. QED BY <1>t, <2>1, <2>2, RoomCalm
<1>6. ASSUME NEW k \in Workers, endMatch(k) PROVE GamesCalm
  <2>1. exec[k].game \in Games
    BY <1>6, StageParts DEF endMatch, At
  <2>2. game' = settled(exec[k].game) \/ UNCHANGED game
    BY <1>6 DEF endMatch
  <2>3. QED BY <1>0, <1>t, <2>1, <2>2, SettledCalm
<1>7. ASSUME NEW k \in Workers, refundAbandonedMatch(k) PROVE GamesCalm
  <2>1. exec[k].game \in Games
    <3>1. CASE exec[k].step = "cancel"
      BY <3>1, StageParts
    <3>2. CASE exec[k].step = "refund"
      BY <3>2, WorkerParts DEF ExecOK
    <3>3. QED BY <1>7, <3>1, <3>2 DEF refundAbandonedMatch
  <2>2. game' = [game EXCEPT ![exec[k].game].status = "CANCELLED"] \/ UNCHANGED game
    BY <1>7 DEF refundAbandonedMatch
  <2>3. QED BY <1>0, <1>t, <2>1, <2>2, StatusCalm
<1>8. ASSUME NEW k \in Workers, archiveGame(k) PROVE Archives(k)
  BY <1>8 DEF archiveGame, Archives
<1>9. ASSUME NEW k \in Workers, StageStep(k)
      PROVE  \/ InsertGame(k) \/ createPool(k) \/ CreateRoomOnChain(k) \/ closeLobby(k)
             \/ startRoom(k) \/ endMatch(k) \/ refundAbandonedMatch(k) \/ archiveGame(k)
             \/ UNCHANGED game
  BY <1>9 DEF StageStep, createGame, openLobby, ResetLobby, EnqueueNext, Complete
<1>10. ASSUME NEW k \in Workers, NEW w \in Cycles, NEW s \in Stages, runStage(k, w, s)
       PROVE  UNCHANGED game
  BY <1>10 DEF runStage
<1>11. ASSUME NEW k \in Workers, CallFails(k) \/ Crash(k) PROVE UNCHANGED game
  BY <1>11 DEF CallFails, Crash
<1>12. ASSUME NEW k \in Workers, NEW other \in Workers, Stalled(k, other) PROVE UNCHANGED game
  BY <1>12 DEF Stalled
<1>13. ASSUME bindGame PROVE GamesCalm
  <2>1. PICK g \in Games : NewGame(g, 0)
    BY <1>13 DEF bindGame
  <2>2. QED BY <1>t, <2>1, Sizes, NewGameCalm
<1>14. ASSUME EnsureOnChain PROVE GamesCalm
  <2>1. ensure.game \in Games /\ (game' = createRoom(ensure.game) \/ UNCHANGED game)
    BY <1>14 DEF EnsureOnChain, GInv
  <2>2. QED BY <1>0, <1>t, <2>1, CreateRoomCalm
<1>15. ASSUME NEW g \in Games, settleFinished(g) PROVE GamesCalm
  BY <1>t, <1>15, SettledCalm DEF settleFinished
<1>16. ASSUME NEW g \in Games, Report(g) PROVE GamesCalm
  <2>1. PICK r \in {"valid", "invalid"} : game' = [game EXCEPT ![g].reported = r]
    BY <1>16 DEF Report
  <2>2. QED BY <1>t, <2>1, ReportedCalm
<1>17. ASSUME performLaunch PROVE GamesCalm
  <2>1. CASE lobby.game # None /\ game[lobby.game].cycle > 0
    <3>1. lobby.game \in Games /\ game' = [game EXCEPT ![lobby.game].launched = TRUE]
      BY <1>17, <2>1, <1>t, Sizes DEF performLaunch, Typed, Lobby, None, Games
    <3>2. QED BY <1>t, <3>1, LaunchedCalm
  <2>2. CASE ~(lobby.game # None /\ game[lobby.game].cycle > 0)
    BY <1>17, <2>2, <1>0 DEF performLaunch
  <2>3. QED BY <2>1, <2>2
<1>18. startCycle \/ handleSchedulerTick \/ ensureRooms \/ Join \/ UNCHANGED vars
         => UNCHANGED game
  BY DEF startCycle, handleSchedulerTick, ensureRooms, Join, vars
<1>19. QED BY <1>0, <1>1, <1>2, <1>3, <1>4, <1>5, <1>6, <1>7, <1>8, <1>9, <1>10, <1>11, <1>12,
              <1>13, <1>14, <1>15, <1>16, <1>17, <1>18 DEF Next, Ensurer

LEMMA PoolWrites ==
  ASSUME GInv, NEW k \in Workers, Pools(k)
  PROVE  LET g == exec[k].game IN
         /\ g \in Games /\ game' \in [Games -> Game]
         /\ game'[g].cycle = game[g].cycle /\ game'[g].settled = game[g].settled
         /\ game'[g].archived = game[g].archived
         /\ game[g].cycle = exec[k].cycle /\ Added(exec[k].cycle, 2)
         /\ job[exec[k].cycle][2].game = g
         /\ \A h \in Games : h # g => game'[h] = game[h]
<1> DEFINE g == exec[k].game
           r == [game[g] EXCEPT !.escrow = TRUE]
<1>1. g \in Games /\ game[g].cycle = exec[k].cycle
  BY StageParts DEF Pools, At
<1>2. exec[k].stage = 2
  BY DEF Pools, At, GInv, ExecOK
<1>3. Added(exec[k].cycle, 2) /\ job[exec[k].cycle][2].game = g
  BY <1>2, BusyParts DEF Pools, At
<1>4. game \in [Games -> Game] /\ game[g] \in Game /\ game' = [game EXCEPT ![g] = r]
  BY <1>1 DEF Pools, GInv, Typed
<1>5. /\ r \in Game /\ r.cycle = game[g].cycle /\ r.settled = game[g].settled
      /\ r.archived = game[g].archived
  BY <1>4 DEF Game
<1> HIDE DEF r, g
<1>6. /\ game' \in [Games -> Game] /\ game'[g] = r
      /\ \A h \in Games : h # g => game'[h] = game[h]
  BY <1>1, <1>4, <1>5
<1>7. QED BY <1>1, <1>3, <1>5, <1>6 DEF g

LEMMA ArchiveWrites ==
  ASSUME GInv, NEW k \in Workers, Archives(k)
  PROVE  LET g == exec[k].game IN
         /\ g \in Games /\ game' \in [Games -> Game]
         /\ game'[g].cycle = game[g].cycle /\ game'[g].settled /\ game[g].settled
         /\ game'[g].escrow = game[g].escrow
         /\ \A h \in Games : h # g => game'[h] = game[h]
<1> DEFINE g == exec[k].game
           r == [game[g] EXCEPT !.archived = TRUE]
<1>1. g \in Games
  BY StageParts DEF Archives, At
<1>2. exec[k].stage = 7
  BY DEF Archives, At, GInv, ExecOK
<1>3. game[g].settled
  BY <1>2, BusyParts DEF Archives, At
<1>4. game \in [Games -> Game] /\ game[g] \in Game /\ game' = [game EXCEPT ![g] = r]
  BY <1>1 DEF Archives, GInv, Typed
<1>5. /\ r \in Game /\ r.cycle = game[g].cycle /\ r.settled = game[g].settled
      /\ r.escrow = game[g].escrow
  BY <1>4 DEF Game
<1> HIDE DEF r, g
<1>6. /\ game' \in [Games -> Game] /\ game'[g] = r
      /\ \A h \in Games : h # g => game'[h] = game[h]
  BY <1>1, <1>4, <1>5
<1>7. QED BY <1>1, <1>3, <1>5, <1>6 DEF g

LEMMA GamesStayTyped ==
  ASSUME GInv, [Next]_vars
  PROVE  game' \in [Games -> Game] /\ GamesKept
<1>1. CASE GamesCalm
  BY <1>1 DEF GamesCalm, GamesKept, RowOK
<1>2. ASSUME NEW k \in Workers, Pools(k) PROVE game' \in [Games -> Game] /\ GamesKept
  BY <1>2, PoolWrites DEF GamesKept
<1>3. ASSUME NEW k \in Workers, Archives(k) PROVE game' \in [Games -> Game] /\ GamesKept
  BY <1>3, ArchiveWrites DEF GamesKept
<1>4. QED BY <1>1, <1>2, <1>3, GamesStep

LEMMA ArchivesStaySettled ==
  ASSUME GInv, [Next]_vars
  PROVE  ArchivedIsSettled'
<1>0. ArchivedIsSettled
  BY DEF GInv
<1>1. CASE GamesCalm
  BY <1>0, <1>1 DEF GamesCalm, RowOK, ArchivedIsSettled
<1>2. ASSUME NEW k \in Workers, Pools(k) PROVE ArchivedIsSettled'
  BY <1>0, <1>2, PoolWrites DEF ArchivedIsSettled
<1>3. ASSUME NEW k \in Workers, Archives(k) PROVE ArchivedIsSettled'
  BY <1>0, <1>3, ArchiveWrites DEF ArchivedIsSettled
<1>4. QED BY <1>1, <1>2, <1>3, GamesStep

LEMMA EscrowsStayOne ==
  ASSUME GInv, [Next]_vars, NEW g \in Games
  PROVE  EscrowOK(g)'
<1>0. EscrowOK(g) /\ JobsKept /\ 2 \in 1..7
  BY JobsStayTyped DEF GInv
<1>1. ASSUME game'[g].escrow => game[g].escrow /\ game'[g].cycle = game[g].cycle
      PROVE  EscrowOK(g)'
  BY <1>0, <1>1 DEF EscrowOK, JobsKept
<1>2. CASE GamesCalm
  BY <1>1, <1>2 DEF GamesCalm, RowOK
<1>3. ASSUME NEW k \in Workers, Pools(k) PROVE EscrowOK(g)'
  <2>1. CASE exec[k].game = g
    <3>1. Added(exec[k].cycle, 2) /\ job[exec[k].cycle][2].game = g /\ game'[g].cycle = exec[k].cycle
      BY <1>3, <2>1, PoolWrites
    <3>2. QED BY <1>0, <3>1 DEF EscrowOK, JobsKept
  <2>2. CASE exec[k].game # g
    BY <1>1, <1>3, <2>2, PoolWrites
  <2>3. QED BY <2>1, <2>2
<1>4. ASSUME NEW k \in Workers, Archives(k) PROVE EscrowOK(g)'
  <2>1. game'[g].escrow => game[g].escrow /\ game'[g].cycle = game[g].cycle
    BY <1>4, ArchiveWrites
  <2>2. QED BY <1>1, <2>1
<1>5. QED BY <1>2, <1>3, <1>4, GamesStep

LEMMA JobsStayOK ==
  ASSUME GInv, [Next]_vars, NEW w \in Cycles, NEW s \in 1..7
  PROVE  JobOK(w, s)'
<1>0. JobOK(w, s) /\ JobsKept /\ GamesKept /\ (s = 7 => s > 1)
  BY JobsStayTyped, GamesStayTyped DEF GInv
<1>1. CASE Added(w, s)
  BY <1>0, <1>1 DEF JobOK, JobsKept, GamesKept
<1>2. CASE ~Added(w, s)
  <2>1. ASSUME Added(w, s)'
        PROVE  \/ s = 1
               \/ /\ s > 1 /\ job'[w][s].game \in Games /\ game[job'[w][s].game].cycle = w
                  /\ s = 7 => game[job'[w][s].game].settled
    BY <1>2, <2>1, NewJobs
  <2>2. QED BY <1>0, <2>1 DEF JobOK, GamesKept
<1>3. QED BY <1>1, <1>2

(***************************************************************************)
(* The workers.                                                            *)
(***************************************************************************)

WorkersOK == exec \in [Workers -> Exec] /\ \A k \in Workers : ExecOK(k)

LEMMA OthersStayOK ==
  ASSUME GInv, JobsKept, GamesKept, NEW k \in Workers, exec'[k] = exec[k]
  PROVE  ExecOK(k)'
<1>1. ExecOK(k)
  BY DEF GInv
<1>2. QED BY SMTT(30), <1>1 DEF ExecOK, JobsKept, GamesKept

LEMMA ExecMove ==
  ASSUME GInv, JobsKept, GamesKept, NEW k \in Workers, NEW e \in Exec,
         exec' = [exec EXCEPT ![k] = e], exec'[k] = e => ExecOK(k)'
  PROVE  WorkersOK'
<1>1. /\ exec' \in [Workers -> Exec] /\ exec'[k] = e
      /\ \A j \in Workers : j # k => exec'[j] = exec[j]
  BY DEF GInv, Typed
<1>2. \A j \in Workers : ExecOK(j)'
  BY <1>1, OthersStayOK
<1>3. QED BY <1>1, <1>2 DEF WorkersOK

LEMMA SameMove ==
  ASSUME GInv, JobsKept, GamesKept, UNCHANGED exec
  PROVE  WorkersOK'
<1>1. \A j \in Workers : exec'[j] = exec[j]
  OBVIOUS
<1>2. \A j \in Workers : ExecOK(j)'
  BY <1>1, OthersStayOK
<1>3. QED BY <1>2 DEF WorkersOK, GInv, Typed

LEMMA IdleMove ==
  ASSUME GInv, JobsKept, GamesKept, NEW k \in Workers, exec' = [exec EXCEPT ![k] = IdleWorker]
  PROVE  WorkersOK'
<1>1. IdleWorker \in Exec /\ IdleWorker.step = "idle"
  BY Sizes DEF IdleWorker, Exec, Steps, None
<1>2. exec'[k] = IdleWorker => ExecOK(k)'
  BY <1>1 DEF ExecOK
<1>3. QED BY <1>1, <1>2, ExecMove

(* What a stage goes on with.                                              *)
Allowed(k, step) ==
  /\ step \in {"create", "create-room", "seal", "cancel", "reset", "enqueue", "complete"}
  /\ step = "create" => exec[k].stage = 1
  /\ step = "create-room" => exec[k].stage = 2
  /\ step = "seal" => exec[k].stage = 4
  /\ step = "cancel" => exec[k].stage = 6
  /\ step = "reset" => exec[k].stage = 7
  /\ step = "enqueue" => exec[k].stage > 1 /\ (exec[k].stage = 6 => game'[exec[k].game].settled)

LEMMA StepMove ==
  ASSUME GInv, JobsKept, GamesKept, NEW k \in Workers, exec[k].step # "idle", NEW step,
         Allowed(k, step), Step(k, step)
  PROVE  WorkersOK'
<1> DEFINE e == [exec[k] EXCEPT !.step = step]
<1>1. exec[k] \in Exec /\ exec' = [exec EXCEPT ![k] = e]
  BY WorkerParts DEF Step
<1>2. step \in Steps
  BY DEF Allowed, Steps
<1>3. /\ e \in Exec /\ e.step = step /\ e.cycle = exec[k].cycle /\ e.stage = exec[k].stage
      /\ e.game = exec[k].game
  BY <1>1, <1>2 DEF Exec
<1> HIDE DEF e
<1>4. /\ exec[k].cycle \in Cycles /\ exec[k].stage \in 1..7 /\ job'[exec[k].cycle][exec[k].stage].state # "absent"
      /\ exec[k].stage > 1 => /\ exec[k].game = job'[exec[k].cycle][exec[k].stage].game
                              /\ exec[k].game \in Games
                              /\ game'[exec[k].game].cycle = exec[k].cycle
  <2>1. /\ exec[k].cycle \in Cycles /\ exec[k].stage \in 1..7
        /\ Added(exec[k].cycle, exec[k].stage)
        /\ exec[k].stage > 1 => /\ exec[k].game = job[exec[k].cycle][exec[k].stage].game
                                /\ exec[k].game \in Games
                                /\ game[exec[k].game].cycle = exec[k].cycle
    BY BusyParts
  <2>2. /\ job'[exec[k].cycle][exec[k].stage].state # "absent"
        /\ job'[exec[k].cycle][exec[k].stage].game = job[exec[k].cycle][exec[k].stage].game
    BY <2>1 DEF JobsKept, Added
  <2>3. exec[k].stage > 1 => game'[exec[k].game].cycle = game[exec[k].game].cycle
    BY <2>1 DEF GamesKept
  <2>4. QED BY <2>1, <2>2, <2>3
<1>5. exec'[k] = e => ExecOK(k)'
  BY <1>3, <1>4 DEF ExecOK, Allowed, Added
<1>6. QED BY <1>1, <1>3, <1>5, ExecMove

LEMMA RefundMove ==
  ASSUME GInv, JobsKept, GamesKept, NEW k \in Workers, exec[k].step # "idle",
         exec[k].game # None, exec' = [exec EXCEPT ![k] = [exec[k] EXCEPT !.step = "refund"]]
  PROVE  WorkersOK'
<1> DEFINE e == [exec[k] EXCEPT !.step = "refund"]
<1>1. exec[k] \in Exec /\ exec' = [exec EXCEPT ![k] = e]
  BY WorkerParts
<1>2. "refund" \in Steps /\ exec[k].game \in Games
  BY WorkerParts, Sizes DEF Steps, None, Games
<1>3. /\ e \in Exec /\ e.step = "refund" /\ e.cycle = exec[k].cycle /\ e.stage = exec[k].stage
      /\ e.game = exec[k].game
  BY <1>1, <1>2 DEF Exec
<1> HIDE DEF e
<1>4. /\ exec[k].cycle \in Cycles /\ exec[k].stage \in 1..7 /\ job'[exec[k].cycle][exec[k].stage].state # "absent"
      /\ exec[k].stage > 1 => exec[k].game = job'[exec[k].cycle][exec[k].stage].game
  BY BusyParts DEF JobsKept, Added
<1>5. exec'[k] = e => ExecOK(k)'
  BY <1>2, <1>3, <1>4 DEF ExecOK, Added
<1>6. QED BY <1>1, <1>3, <1>5, ExecMove

LEMMA ThrowMove ==
  ASSUME GInv, JobsKept, GamesKept, NEW k \in Workers, exec[k].step # "idle", Throw(k)
  PROVE  WorkersOK'
<1>1. \/ exec' = [exec EXCEPT ![k] = IdleWorker]
      \/ exec[k].game # None /\ exec' = [exec EXCEPT ![k] = [exec[k] EXCEPT !.step = "refund"]]
  BY ThrowKeeps
<1>2. QED BY <1>1, IdleMove, RefundMove

LEMMA DeliverMove ==
  ASSUME GInv, JobsKept, GamesKept, NEW k \in Workers, NEW w \in Cycles, NEW s \in 1..7,
         Added(w, s), Deliver(k, w, s)
  PROVE  WorkersOK'
<1> DEFINE e == [cycle |-> w, stage |-> s, step |-> FirstStep(s), game |-> job[w][s].game]
<1>1. exec' = [exec EXCEPT ![k] = e]
  BY DEF Deliver
<1>2. /\ FirstStep(s) \in Steps
      /\ FirstStep(s) = "find" => s = 1
      /\ FirstStep(s) = "pool" => s = 2
      /\ FirstStep(s) = "open" => s = 3
      /\ FirstStep(s) = "close" => s = 4
      /\ FirstStep(s) = "enqueue" => s = 5
      /\ FirstStep(s) = "settle" => s = 6
      /\ FirstStep(s) = "history" => s = 7
      /\ FirstStep(s) \in {"find", "pool", "open", "close", "enqueue", "settle", "history"}
  BY FirstSteps DEF Steps
<1>3. job[w][s].game \in 0..MaxGames /\ w \in 0..Windows /\ s \in 0..7 /\ JobOK(w, s)
  <2>1. job[w][s] \in Job /\ JobOK(w, s)
    BY DEF GInv, Typed
  <2>2. w \in 0..Windows /\ s \in 0..7
    BY DEF Cycles
  <2>3. QED BY <2>1, <2>2 DEF Job
<1>4. e \in Exec /\ e.cycle = w /\ e.stage = s /\ e.step = FirstStep(s) /\ e.game = job[w][s].game
  BY <1>2, <1>3 DEF Exec
<1> HIDE DEF e
<1>5. /\ Added(w, s)' /\ job'[w][s].game = job[w][s].game
      /\ s > 1 => job[w][s].game \in Games /\ game'[job[w][s].game].cycle = w
  BY <1>3 DEF JobOK, JobsKept, GamesKept
<1>6. exec'[k] = e => ExecOK(k)'
  BY <1>2, <1>4, <1>5 DEF ExecOK
<1>7. QED BY <1>1, <1>4, <1>6, ExecMove

LEMMA GameMove ==
  ASSUME GInv, JobsKept, GamesKept, NEW k \in Workers, exec[k].step # "idle",
         exec[k].stage = 1, NEW g \in Games, game'[g].cycle = exec[k].cycle,
         exec' = [exec EXCEPT ![k].game = g, ![k].step = "enqueue"]
  PROVE  WorkersOK'
<1> DEFINE e == [exec[k] EXCEPT !.game = g, !.step = "enqueue"]
<1>1. exec \in [Workers -> Exec] /\ exec[k] \in Exec
  BY WorkerParts
<1>2. exec' = [exec EXCEPT ![k] = e]
  BY <1>1
<1>3. "enqueue" \in Steps /\ g \in 0..MaxGames
  BY DEF Steps, Games
<1>4. /\ e \in Exec /\ e.step = "enqueue" /\ e.cycle = exec[k].cycle /\ e.stage = 1 /\ e.game = g
  BY <1>1, <1>3 DEF Exec
<1> HIDE DEF e
<1>5. exec[k].cycle \in Cycles /\ job'[exec[k].cycle][1].state # "absent"
  <2>1. exec[k].cycle \in Cycles /\ Added(exec[k].cycle, 1) /\ 1 \in 1..7
    BY BusyParts
  <2>2. QED BY <2>1 DEF JobsKept, Added
<1>6. exec'[k] = e => ExecOK(k)'
  BY <1>4, <1>5 DEF ExecOK, Added
<1>7. QED BY <1>2, <1>4, <1>6, ExecMove

LEMMA WorkersStayOK ==
  ASSUME GInv, [Next]_vars
  PROVE  WorkersOK'
<1>k. JobsKept /\ GamesKept
  BY JobsStayTyped, GamesStayTyped
<1>1. ASSUME UNCHANGED exec PROVE WorkersOK'
  BY <1>k, <1>1, SameMove
<1>2. ASSUME NEW k \in Workers, createGame(k) PROVE WorkersOK'
  <2>1. exec[k].step # "idle" /\ exec[k].stage = 1 /\ UNCHANGED game
    BY <1>2 DEF createGame, At, GInv, ExecOK
  <2>2. CASE Step(k, "create")
    <3>1. Allowed(k, "create")
      BY <2>1 DEF Allowed
    <3>2. QED BY <1>k, <2>1, <2>2, <3>1, StepMove
  <2>3. ASSUME NEW g \in Games, game[g].cycle = exec[k].cycle,
               exec' = [exec EXCEPT ![k].game = g, ![k].step = "enqueue"]
        PROVE  WorkersOK'
    BY <1>k, <2>1, <2>3, GameMove
  <2>4. QED BY <1>2, <2>2, <2>3 DEF createGame
<1>3. ASSUME NEW k \in Workers, InsertGame(k) PROVE WorkersOK'
  <2>1. exec[k].step # "idle" /\ exec[k].stage = 1 /\ exec[k].cycle \in 0..Windows
    BY <1>3, WorkerParts DEF InsertGame, At, ExecOK
  <2>2. PICK g \in Games : /\ NewGame(g, exec[k].cycle)
                           /\ exec' = [exec EXCEPT ![k].game = g, ![k].step = "enqueue"]
    BY <1>3 DEF InsertGame
  <2>3. game'[g].cycle = exec[k].cycle
    BY <2>1, <2>2, NewGameCalm DEF GInv
  <2>4. QED BY <1>k, <2>1, <2>2, <2>3, GameMove
<1>4. ASSUME NEW k \in Workers, exec[k].step # "idle", exec[k].stage \in 2..5 \/ exec[k].stage = 7,
             Step(k, "enqueue")
      PROVE  WorkersOK'
  <2>1. Allowed(k, "enqueue")
    BY <1>4 DEF Allowed
  <2>2. QED BY <1>k, <1>4, <2>1, StepMove
<1>5. ASSUME NEW k \in Workers, exec[k].step # "idle", Step(k, "complete") PROVE WorkersOK'
  <2>1. Allowed(k, "complete")
    BY DEF Allowed
  <2>2. QED BY <1>k, <1>5, <2>1, StepMove
<1>6. ASSUME NEW k \in Workers, createPool(k) PROVE WorkersOK'
  <2>1. exec[k].step # "idle" /\ exec[k].stage = 2
    BY <1>6 DEF createPool, At, GInv, ExecOK
  <2>2. Allowed(k, "create-room")
    BY <2>1 DEF Allowed
  <2>3. Step(k, "enqueue") \/ Step(k, "create-room")
    BY <1>6 DEF createPool
  <2>4. QED BY <1>k, <1>4, <2>1, <2>2, <2>3, StepMove
<1>7. ASSUME NEW k \in Workers, CreateRoomOnChain(k) PROVE WorkersOK'
  <2>1. exec[k].step # "idle" /\ exec[k].stage = 2 /\ Step(k, "enqueue")
    BY <1>7 DEF CreateRoomOnChain, At, GInv, ExecOK
  <2>2. QED BY <1>4, <2>1
<1>8. ASSUME NEW k \in Workers, openLobby(k) PROVE WorkersOK'
  <2>1. exec[k].step # "idle" /\ exec[k].stage = 3 /\ Step(k, "enqueue")
    BY <1>8 DEF openLobby, At, GInv, ExecOK
  <2>2. QED BY <1>4, <2>1
<1>9. ASSUME NEW k \in Workers, closeLobby(k) PROVE WorkersOK'
  <2>1. exec[k].step # "idle" /\ exec[k].stage = 4 /\ (Step(k, "complete") \/ Step(k, "seal"))
    BY <1>9 DEF closeLobby, At, GInv, ExecOK
  <2>2. Allowed(k, "seal")
    BY <2>1 DEF Allowed
  <2>3. QED BY <1>k, <1>5, <2>1, <2>2, StepMove
<1>10. ASSUME NEW k \in Workers, startRoom(k) PROVE WorkersOK'
  <2>1. exec[k].step # "idle" /\ exec[k].stage = 4 /\ Step(k, "enqueue")
    BY <1>10 DEF startRoom, At, GInv, ExecOK
  <2>2. QED BY <1>4, <2>1
<1>11. ASSUME NEW k \in Workers, endMatch(k) PROVE WorkersOK'
  <2> DEFINE g == exec[k].game
  <2>1. exec[k].step # "idle" /\ exec[k].stage = 6 /\ g \in Games
    BY <1>11, StageParts DEF endMatch, At, GInv, ExecOK
  <2>2. Allowed(k, "cancel")
    BY <2>1 DEF Allowed
  <2>3. \/ Throw(k) \/ Step(k, "cancel")
        \/ Step(k, "enqueue") /\ ((game[g].settled /\ UNCHANGED game) \/ game' = settled(g))
    BY <1>11 DEF endMatch
  <2>4. ASSUME Step(k, "enqueue"), (game[g].settled /\ UNCHANGED game) \/ game' = settled(g)
        PROVE  WorkersOK'
    <3>1. game'[g].settled
      BY <2>1, <2>4, SettledCalm DEF GInv
    <3>2. Allowed(k, "enqueue")
      BY <2>1, <3>1 DEF Allowed
    <3>3. QED BY <1>k, <2>1, <2>4, <3>2, StepMove
  <2>5. QED BY <1>k, <2>1, <2>2, <2>3, <2>4, StepMove, ThrowMove
<1>12. ASSUME NEW k \in Workers, refundAbandonedMatch(k) PROVE WorkersOK'
  <2>1. exec[k].step # "idle" /\ exec \in [Workers -> Exec]
    BY <1>12, WorkerParts DEF refundAbandonedMatch
  <2>2. Step(k, "complete") \/ exec' = [exec EXCEPT ![k] = IdleWorker]
    BY <1>12, <2>1 DEF refundAbandonedMatch, Step
  <2>3. QED BY <1>k, <1>5, <2>1, <2>2, IdleMove
<1>13. ASSUME NEW k \in Workers, archiveGame(k) PROVE WorkersOK'
  <2>1. exec[k].step # "idle" /\ exec[k].stage = 7 /\ Step(k, "reset")
    BY <1>13 DEF archiveGame, At, GInv, ExecOK
  <2>2. Allowed(k, "reset")
    BY <2>1 DEF Allowed
  <2>3. QED BY <1>k, <2>1, <2>2, StepMove
<1>14. ASSUME NEW k \in Workers, ResetLobby(k) PROVE WorkersOK'
  <2>1. exec[k].step # "idle" /\ exec[k].stage = 7 /\ Step(k, "enqueue")
    BY <1>14 DEF ResetLobby, At, GInv, ExecOK
  <2>2. QED BY <1>4, <2>1
<1>15. ASSUME NEW k \in Workers, EnqueueNext(k) PROVE WorkersOK'
  BY <1>5, <1>15 DEF EnqueueNext, At
<1>16. ASSUME NEW k \in Workers, Complete(k) PROVE WorkersOK'
  BY <1>k, <1>16, IdleMove DEF Complete
<1>17. ASSUME NEW k \in Workers, NEW w \in Cycles, NEW s \in Stages, runStage(k, w, s)
       PROVE  WorkersOK'
  <2>1. s \in 1..7 /\ Added(w, s) /\ Deliver(k, w, s)
    BY <1>17, StageFacts DEF runStage, Added
  <2>2. QED BY <1>k, <2>1, DeliverMove
<1>18. ASSUME NEW k \in Workers, CallFails(k) PROVE WorkersOK'
  BY <1>k, <1>18, ThrowMove DEF CallFails
<1>19. ASSUME NEW k \in Workers, Crash(k) PROVE WorkersOK'
  BY <1>k, <1>19, IdleMove DEF Crash
<1>20. ASSUME NEW k \in Workers, NEW other \in Workers, Stalled(k, other) PROVE WorkersOK'
  <2>1. exec[k].step # "idle" /\ Deliver(other, exec[k].cycle, exec[k].stage)
    BY <1>20 DEF Stalled, At
  <2>2. exec[k].cycle \in Cycles /\ exec[k].stage \in 1..7 /\ Added(exec[k].cycle, exec[k].stage)
    BY <2>1, BusyParts
  <2>3. QED BY <1>k, <2>1, <2>2, DeliverMove
<1>21. startCycle \/ handleSchedulerTick \/ Ensurer \/ Join \/ performLaunch \/ UNCHANGED vars
         => UNCHANGED exec
  BY DEF startCycle, handleSchedulerTick, Ensurer, ensureRooms, bindGame, EnsureOnChain, Join,
         performLaunch, vars
<1>22. ASSUME NEW g \in Games, settleFinished(g) \/ Report(g) PROVE UNCHANGED exec
  BY <1>22 DEF settleFinished, Report
<1>23. ASSUME NEW k \in Workers, StageStep(k) PROVE WorkersOK'
  BY <1>23, <1>2, <1>3, <1>6, <1>7, <1>8, <1>9, <1>10, <1>11, <1>12, <1>13, <1>14, <1>15, <1>16
     DEF StageStep
<1>24. QED BY <1>1, <1>17, <1>18, <1>19, <1>20, <1>21, <1>22, <1>23 DEF Next

(***************************************************************************)
(* The lobby, the ensurer and the scheduler.                               *)
(***************************************************************************)

RestOK ==
  /\ lobby \in Lobby /\ ensure \in Ensure /\ windows \in 0..Windows
  /\ ensure.step = "check" => ensure.game \in Games

LEMMA RestStaysOK ==
  ASSUME GInv, [Next]_vars
  PROVE  RestOK'
<1>0. RestOK /\ lobby.players \in 0..MaxQueue /\ lobby.game \in 0..MaxGames
  BY DEF GInv, Typed, RestOK, Lobby
<1>e. emptyLobby \in Lobby /\ [step |-> "idle", game |-> None] \in Ensure
  BY Sizes DEF emptyLobby, Lobby, Ensure, None
<1>o. \A g \in 0..MaxGames : open(lobby, g) \in Lobby
  BY <1>0 DEF open, RestOK, Lobby
<1>1. ASSUME UNCHANGED <<lobby, ensure, windows>> PROVE RestOK'
  BY <1>0, <1>1 DEF RestOK
<1>2. CASE startCycle
  BY <1>0, <1>2, Sizes DEF startCycle, RestOK
<1>3. ASSUME NEW k \in Workers, openLobby(k) PROVE RestOK'
  BY <1>0, <1>o, <1>3, WorkerParts DEF openLobby, RestOK
<1>4. ASSUME NEW k \in Workers, ResetLobby(k) PROVE RestOK'
  BY <1>0, <1>e, <1>4 DEF ResetLobby, RestOK
<1>5. CASE ensureRooms
  <2>1. lobby.game # None => lobby.game \in Games
    BY <1>0, Sizes DEF None, Games
  <2>2. ensure' \in Ensure /\ (ensure'.step = "check" => ensure'.game \in Games)
    BY <1>0, <1>5, <2>1 DEF ensureRooms, Ensure
  <2>3. QED BY <1>0, <1>5, <2>2 DEF ensureRooms, RestOK
<1>6. CASE bindGame
  <2>1. PICK g \in Games : lobby' = open(lobby, g) /\ ensure' = [step |-> "check", game |-> g]
    BY <1>6 DEF bindGame
  <2>2. g \in 0..MaxGames
    BY Sizes DEF Games
  <2>3. ensure' \in Ensure /\ ensure'.game \in Games
    BY <2>1, <2>2 DEF Ensure
  <2>4. QED BY <1>0, <1>o, <1>6, <2>1, <2>2, <2>3 DEF bindGame, RestOK
<1>7. CASE EnsureOnChain
  BY <1>0, <1>e, <1>7 DEF EnsureOnChain, RestOK
<1>8. CASE Join
  <2>1. lobby.players + 1 \in 0..MaxQueue
    BY <1>0, <1>8, Sizes DEF Join
  <2>2. lobby' \in Lobby
    BY <1>0, <1>8, <2>1 DEF Join, RestOK, Lobby
  <2>3. QED BY <1>0, <1>8, <2>2 DEF Join, RestOK
<1>9. CASE performLaunch
  BY <1>0, <1>e, <1>9 DEF performLaunch, RestOK
<1>10. ASSUME NEW k \in Workers, StageStep(k)
       PROVE  openLobby(k) \/ ResetLobby(k) \/ UNCHANGED <<lobby, ensure, windows>>
  BY <1>10 DEF StageStep, createGame, InsertGame, createPool, CreateRoomOnChain, closeLobby,
               startRoom, endMatch, refundAbandonedMatch, archiveGame, EnqueueNext, Complete
<1>11. ASSUME NEW k \in Workers, CallFails(k) \/ Crash(k)
       PROVE  UNCHANGED <<lobby, ensure, windows>>
  BY <1>11 DEF CallFails, Crash
<1>12. ASSUME NEW k \in Workers, NEW other \in Workers, Stalled(k, other)
       PROVE  UNCHANGED <<lobby, ensure, windows>>
  BY <1>12 DEF Stalled
<1>13. ASSUME NEW k \in Workers, NEW w \in Cycles, NEW s \in Stages, runStage(k, w, s)
       PROVE  UNCHANGED <<lobby, ensure, windows>>
  BY <1>13 DEF runStage
<1>14. ASSUME NEW g \in Games, settleFinished(g) \/ Report(g)
       PROVE  UNCHANGED <<lobby, ensure, windows>>
  BY <1>14 DEF settleFinished, Report
<1>15. handleSchedulerTick \/ UNCHANGED vars => UNCHANGED <<lobby, ensure, windows>>
  BY DEF handleSchedulerTick, vars
<1>16. QED BY <1>1, <1>2, <1>3, <1>4, <1>5, <1>6, <1>7, <1>8, <1>9, <1>10, <1>11, <1>12, <1>13,
              <1>14, <1>15 DEF Next, Ensurer

(***************************************************************************)
(* The theorem.                                                            *)
(***************************************************************************)

LEMMA GInvInit ==
  ASSUME Init
  PROVE  GInv
<1>1. job \in [Cycles -> [1..7 -> Job]] /\ \A w \in Cycles, s \in 1..7 : ~Added(w, s)
  <2>1. [state |-> "absent", attempts |-> 0, game |-> None] \in Job
    BY Sizes DEF Job, None
  <2>2. QED BY <2>1, StageFacts DEF Init, Added
<1>2. IdleWorker \in Exec /\ IdleWorker.step = "idle"
  BY Sizes DEF IdleWorker, Exec, Steps, None
<1>3. exec \in [Workers -> Exec] /\ \A k \in Workers : exec[k].step = "idle"
  BY <1>2 DEF Init
<1>4. Unused \in Game /\ ~Unused.escrow /\ ~Unused.archived
  BY Sizes DEF Unused, Game
<1>5. game \in [Games -> Game] /\ \A g \in Games : ~game[g].escrow /\ ~game[g].archived
  BY <1>4 DEF Init
<1>6. lobby \in Lobby /\ ensure \in Ensure /\ windows \in 0..Windows /\ ensure.step = "idle"
  BY Sizes DEF Init, emptyLobby, Lobby, Ensure, None
<1>7. QED BY <1>1, <1>3, <1>5, <1>6
          DEF GInv, Typed, JobOK, ExecOK, EscrowOK, ArchivedIsSettled

LEMMA GInvStep ==
  ASSUME GInv, [Next]_vars
  PROVE  GInv'
<1>1. job' \in [Cycles -> [1..7 -> Job]] /\ game' \in [Games -> Game] /\ WorkersOK' /\ RestOK'
  BY JobsStayTyped, GamesStayTyped, WorkersStayOK, RestStaysOK
<1>2. \A w \in Cycles, s \in 1..7 : JobOK(w, s)'
  BY JobsStayOK
<1>3. \A g \in Games : EscrowOK(g)'
  BY EscrowsStayOne
<1>4. ArchivedIsSettled'
  BY ArchivesStaySettled
<1>5. QED BY <1>1, <1>2, <1>3, <1>4 DEF GInv, Typed, WorkersOK, RestOK

LEMMA GInvIsSafe == GInv => CycleInv
<1> SUFFICES ASSUME GInv PROVE CycleInv
  OBVIOUS
<1>1. TypeOK
  <2>1. \A k \in Workers : /\ exec[k].cycle \in 0..Windows /\ exec[k].stage \in 0..7
                           /\ exec[k].game \in 0..MaxGames
    BY WorkerParts
  <2>2. QED BY <2>1, StageFacts DEF GInv, Typed, TypeOK, Job, Game, Lobby
<1>2. OneGameDrivesCycle
  BY DEF GInv, EscrowOK, OneGameDrivesCycle
<1>3. QED BY <1>1, <1>2 DEF CycleInv, GInv

(* However often a stage is delivered, fails or is refunded, and whatever  *)
(* the ensurer and the settler do beside the cycle, one game drives each   *)
(* window and only a settled game is archived (enqueueStage, the failed    *)
(* handler), for any number of windows, games, workers and faults.         *)
THEOREM OneMatchPerCycle == Spec => []CycleInv
<1>1. Init => GInv
  BY GInvInit
<1>2. GInv /\ [Next]_vars => GInv'
  BY GInvStep
<1>3. QED BY <1>1, <1>2, GInvIsSafe, PTL DEF Spec

=============================================================================
