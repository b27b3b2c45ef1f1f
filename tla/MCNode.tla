------------------------------- MODULE MCNode -------------------------------
(***************************************************************************)
(* The realtime nodes, in two parts that share no state: the placement of  *)
(* players on them, and the room a match is played in.  A behaviour is one *)
(* of one part while the other rests, so the run is their state spaces     *)
(* side by side.  The placement is looked at twice: players who share the  *)
(* fleet, with a bound on what they begin in all; and one player whom      *)
(* every launch stages, on nodes that only beat, one of which may turn out *)
(* full.                                                                   *)
(***************************************************************************)
EXTENDS Placement, RealtimeRoom

CONSTANT MaxBegun   \* a launch or a lapse counts as two requests

VARIABLE part
nodeVars == <<part, placeVars, roomVars>>

NodeInit ==
  /\ part \in {"fleet", "launches", "room"}
  /\ PlaceInit /\ RoomInit
  /\ part = "room" => bound
  /\ part # "room" => staked
  /\ \A n \in Nodes : node[n].rooms # {} =>
       part = "launches" /\ n \in InRegion /\ node[n].rooms = OldRooms

Begun == requests + 2 * (lapses + Cardinality({l \in Launches : ~LaunchAt(l, "none")}))
Lone == CHOOSE p \in Clients : TRUE

NodeNext ==
  /\ part' = part
  /\ \/ part = "fleet" /\ PlaceNext /\ Begun' <= MaxBegun /\ UNCHANGED roomVars
     \/ /\ part = "launches" /\ PlaceNext /\ lapses' = 0
        /\ \A l \in Launches : launch'[l].todo \subseteq {Lone}
        /\ \A p \in Clients \ {Lone} : req'[p].pc = "idle"
        /\ UNCHANGED roomVars
     \/ part = "room" /\ RoomNext /\ UNCHANGED placeVars

\* Each part's fairness, of its own behaviours.
NodeFairness ==
  /\ \A n \in Nodes : /\ WF_placeVars(part = "fleet" /\ startHeartbeat(n) /\ Watch)
                      /\ WF_placeVars(part = "fleet" /\ drainNode(n) /\ Watch)
  /\ WF_roomVars(part = "room" /\ runTick) /\ WF_roomVars(part = "room" /\ Written)

NodeSpec == NodeInit /\ [][NodeNext]_nodeVars /\ NodeFairness
=============================================================================
