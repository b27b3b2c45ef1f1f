--------------------------- MODULE MCCustodyFunds ---------------------------
(***************************************************************************)
(* The books: a player's custody account under its clients and the         *)
(* reconciler, the adjustments of administrators, and the lists they page  *)
(* through.  The three share no state; a behaviour is one of one of them.  *)
(***************************************************************************)
EXTENDS CustodyFunds, BackOffice

VARIABLE part

Moves(pool) == [ok |-> TRUE, pool |-> pool, treasury |-> IF pool < 0 THEN fee(-pool) ELSE 0]

MCFees == [t \in Tiers |-> 50]
MCTransaction == [s \in Signatures |-> Moves(IF s = "in" THEN 75 ELSE -50)]
UpAndDown == {-1, 1}

BooksInit ==
  /\ part \in {"custody", "adjust", "lists"}
  /\ Init /\ OfficeInit
  /\ part # "custody" => \A i \in Intents : row[i].status = "none"

BooksNext ==
  /\ part' = part
  /\ \/ part = "custody" /\ Next /\ UNCHANGED officeVars
     \/ part = "adjust" /\ AdjustNext /\ UNCHANGED vars
     \/ part = "lists" /\ PageNext /\ UNCHANGED vars

\* Outside its part the custody account rests and its fairness asks nothing.
BooksSpec == BooksInit /\ [][BooksNext]_<<part, vars, officeVars>> /\ Fairness
=============================================================================
