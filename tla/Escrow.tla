------------------------------- MODULE Escrow -------------------------------
(***************************************************************************)
(* What the arena program promises the players of a match, with no word of *)
(* how: no accounts, vaults, custody balances, seats or authorities.  A    *)
(* match takes one stake of the same size from each player, is played once *)
(* two have staked, and then either pays the whole pot out at one stroke   *)
(* or is void and hands every stake back.  Money leaves a player in no     *)
(* other way but a small charge on taking money out.                       *)
(***************************************************************************)
EXTENDS Integers, FiniteSets, Sums

CONSTANTS
  Players,
  Rooms,
  HouseShare,   \* the most the house keeps of a pot, in basis points
  ExitCharge    \* the most it charges for taking money out, in basis points

VARIABLES
  phase,   \* of each match
  ante,    \* the stake each match asks for
  stake,   \* what each player has in each match
  held,    \* the pot of each match
  money    \* what each player has outside every match

escrowVars == <<phase, ante, stake, held, money>>

Phases == {"none", "taking", "playing", "paid", "void"}

EscrowInit ==
  /\ phase = [r \in Rooms |-> "none"]
  /\ ante = [r \in Rooms |-> 0]
  /\ stake = [r \in Rooms |-> [p \in Players |-> 0]]
  /\ held = [r \in Rooms |-> 0]
  /\ money \in [Players -> Nat]

Stakers(r) == { p \in Players : stake[r][p] > 0 }

\* A match is offered, for a stake of any size.
Offer(r) ==
  /\ phase[r] = "none"
  /\ phase' = [phase EXCEPT ![r] = "taking"]
  /\ ante'[r] > 0
  /\ ante' = [ante EXCEPT ![r] = ante'[r]]
  /\ UNCHANGED <<stake, held, money>>

Stake(r, p) ==
  /\ phase[r] = "taking"
  /\ stake[r][p] = 0
  /\ money[p] >= ante[r]
  /\ stake' = [stake EXCEPT ![r][p] = ante[r]]
  /\ held' = [held EXCEPT ![r] = @ + ante[r]]
  /\ money' = [money EXCEPT ![p] = @ - ante[r]]
  /\ UNCHANGED <<phase, ante>>

Play(r) ==
  /\ phase[r] = "taking"
  /\ Cardinality(Stakers(r)) >= 2
  /\ phase' = [phase EXCEPT ![r] = "playing"]
  /\ UNCHANGED <<ante, stake, held, money>>

\* The whole pot goes out at once: to players who staked, but for the share of the house.
PayOut(r) ==
  LET gain == [p \in Players |-> money'[p] - money[p]]
  IN /\ phase[r] = "playing"
     /\ phase' = [phase EXCEPT ![r] = "paid"]
     /\ \A p \in Players : gain[p] >= 0 /\ (gain[p] > 0 => p \in Stakers(r))
     /\ Total(gain) <= held[r]
     /\ (held[r] - Total(gain)) * 10000 <= held[r] * HouseShare
     /\ stake' = [stake EXCEPT ![r] = [p \in Players |-> 0]]
     /\ held' = [held EXCEPT ![r] = 0]
     /\ UNCHANGED ante

\* A match that was not paid out may be called off.
CallOff(r) ==
  /\ phase[r] \in {"taking", "playing"}
  /\ phase' = [phase EXCEPT ![r] = "void"]
  /\ UNCHANGED <<ante, stake, held, money>>

\* A void match hands a player exactly the stake.
HandBack(r, p) ==
  /\ phase[r] = "void"
  /\ p \in Stakers(r)
  /\ money' = [money EXCEPT ![p] = @ + stake[r][p]]
  /\ held' = [held EXCEPT ![r] = @ - stake[r][p]]
  /\ stake' = [stake EXCEPT ![r][p] = 0]
  /\ UNCHANGED <<phase, ante>>

\* A match is forgotten only when it holds nothing.
Forget(r) ==
  /\ phase[r] \in {"paid", "void"}
  /\ held[r] = 0
  /\ Stakers(r) = {}
  /\ phase' = [phase EXCEPT ![r] = "none"]
  /\ ante' = [ante EXCEPT ![r] = 0]
  /\ UNCHANGED <<stake, held, money>>

Charge(p) ==
  /\ money'[p] < money[p]
  /\ (money[p] - money'[p]) * 10000 <= money[p] * ExitCharge
  /\ money' = [money EXCEPT ![p] = money'[p]]
  /\ UNCHANGED <<phase, ante, stake, held>>

EscrowNext ==
  \/ \E r \in Rooms : Offer(r) \/ Play(r) \/ PayOut(r) \/ CallOff(r) \/ Forget(r)
  \/ \E r \in Rooms, p \in Players : Stake(r, p) \/ HandBack(r, p)
  \/ \E p \in Players : Charge(p)

EscrowSpec == EscrowInit /\ [][EscrowNext]_escrowVars
=============================================================================
