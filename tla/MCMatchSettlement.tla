------------------------- MODULE MCMatchSettlement -------------------------
(***************************************************************************)
(* Small instances of MatchSettlement: matches of two players, and a third *)
(* who did not pay.                                                        *)
(***************************************************************************)
EXTENDS MatchSettlement

CONSTANTS p1, p2, p3

(* As deployed: the worker signs, nothing funds the escrow row. *)
Deployed ==
  [reported |-> {p1, p2}, escrow |-> "empty", canSignOnChain |-> TRUE,
   cancelDelayOver |-> FALSE, maxMishaps |-> 1]

(* The ledger alone, with the escrow funded by entry fees. *)
LedgerOnly == [Deployed EXCEPT !.escrow = "funded", !.canSignOnChain = FALSE]

(* A report naming a player who did not pay. *)
UnpaidReport == [Deployed EXCEPT !.reported = {p1, p2, p3}]

(* A room its players may cancel, and no escrow row. *)
Overdue == [Deployed EXCEPT !.escrow = "none", !.cancelDelayOver = TRUE, !.maxMishaps = 0]
OverdueUnpaid == [UnpaidReport EXCEPT !.cancelDelayOver = TRUE]

MCSafety == {Deployed, LedgerOnly, Overdue, OverdueUnpaid}
MCTwoMishaps == {[Deployed EXCEPT !.maxMishaps = 2]}
MCDeployed == {Deployed}
=============================================================================
