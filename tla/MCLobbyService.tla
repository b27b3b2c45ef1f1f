--------------------------- MODULE MCLobbyService ---------------------------
(* Small instances of LobbyService: a free tier that needs one player, as  *)
(* practice does, and a paid tier that needs two, as all paid tiers do.    *)
EXTENDS LobbyService, TLC

CONSTANTS Free, Paid

MCMinPlayers == [t \in Tiers |-> IF t \in PaidTiers THEN 2 ELSE 1]
MCUnlimited == [t \in Tiers |-> Unlimited]
MCTwoSeats == [t \in Tiers |-> 2]
MCCountdown == [t \in Tiers |-> 2]
MCReadyCountdown == [t \in Tiers |-> 1]

Symmetry == Permutations(Players) \cup Permutations(Games)
=============================================================================
