------------------------------- MODULE MCPlay -------------------------------
(***************************************************************************)
(* The parts of play that share no state, each on its own: the simulation  *)
(* of a room, its broad phase, the token buckets of a node, the snapshot   *)
(* on the wire, and one client with its seat.  A behaviour is one of one   *)
(* of them while the others rest, so the run is their state spaces         *)
(* side by side.  The client is there twice: with commands enough to empty *)
(* the budget of its guard, and with snapshots enough to interpolate       *)
(* between.                                                                *)
(***************************************************************************)
EXTENDS Simulation, SpatialHash, AdmissionGuards, WireProtocol, GameClient

SteeringClock == 1      \* the clock of a client that steers
FramesCommands == 2     \* the commands of a client that watches

VARIABLE part
playVars == <<part, simVars, hashVars, guardVars, wireVars, clientVars>>

PlayInit ==
  /\ part \in {"simulation", "hash", "guards", "wire", "steering", "frames"}
  /\ SimInit /\ HashInit /\ GuardInit /\ WireInit /\ ClientInit
  /\ part # "wire" => snapshot.snakes = <<>> /\ snapshot.food + snapshot.removedSnakes = 0
                      /\ snapshot.removedFood = origin /\ origin = 0

PlayNext ==
  /\ part' = part
  /\ \/ part = "simulation" /\ SimNext /\ UNCHANGED <<hashVars, guardVars, wireVars, clientVars>>
     \/ part = "hash" /\ HashNext /\ UNCHANGED <<simVars, guardVars, wireVars, clientVars>>
     \/ part = "guards" /\ GuardNext /\ UNCHANGED <<simVars, hashVars, wireVars, clientVars>>
     \/ part = "steering" /\ ClientNext /\ clock' <= SteeringClock
        /\ UNCHANGED <<simVars, hashVars, guardVars, wireVars>>
     \/ part = "frames" /\ ClientNext /\ engine'.sequence <= FramesCommands
        /\ UNCHANGED <<simVars, hashVars, guardVars, wireVars>>
     \/ part = "wire" /\ WireNext /\ UNCHANGED <<simVars, hashVars, guardVars, clientVars>>

PlaySpec == PlayInit /\ [][PlayNext]_playVars /\ ClientFairness
=============================================================================
