----------------------------- MODULE ArenaEscrow -----------------------------
(***************************************************************************)
(* The arena program implements Escrow.  The mapping forgets where the     *)
(* money of a player lies (wallet or custody balance), how a stake was     *)
(* paid (join_room and lock_entry_fee, or enter_room), that unlocking a    *)
(* prize comes before paying it, and the records and rent left behind.     *)
(***************************************************************************)
EXTENDS ArenaProgram

PhaseOf(status) ==
  CASE status = "Absent" -> "none"
    [] status = "Open" -> "taking"
    [] status \in {"InProgress", "Unlocked"} -> "playing"
    [] status = "Settled" -> "paid"
    [] status = "Cancelled" -> "void"

StakeOf(r, p) == IF Live(r) /\ State(r, p) = "Locked" THEN seat[r][p].lockedAmount ELSE 0

HeldBy(r) == vault[r] - (IF Status(r) = "Absent" THEN 0 ELSE RENT)

E == INSTANCE Escrow WITH
       HouseShare <- MAX_FEE_BPS,
       ExitCharge <- MAX_WITHDRAWAL_FEE_BPS,
       phase <- [r \in Rooms |-> PhaseOf(Status(r))],
       ante <- [r \in Rooms |-> room[r].entryFee],
       stake <- [r \in Rooms |-> [p \in Players |-> StakeOf(r, p)]],
       held <- [r \in Rooms |-> HeldBy(r)],
       money <- [p \in Players |-> wallet[p] + balance[p]]

(* Every instruction, whoever sends it and in whatever order, is a step of *)
(* Escrow or changes nothing a player can see: a pot is paid out whole or  *)
(* handed back stake by stake, never both, and never before or after its   *)
(* time.                                                                   *)
ImplementsEscrow == E!EscrowSpec
=============================================================================
