-------------------------------- MODULE Sums --------------------------------
(***************************************************************************)
(* The total of a finite table of natural numbers, defined by counting: a  *)
(* table f gives rise to one unit <<x, i>> for every i in 1 .. f[x], and   *)
(* the total is the number of units.  The definition has no recursion, so  *)
(* totals can be reasoned about with the library's facts on cardinality.   *)
(***************************************************************************)
EXTENDS Naturals, FiniteSets

Units(f) == UNION { {x} \X (1 .. f[x]) : x \in DOMAIN f }

(* The sum of f[x] over the domain of f. *)
Total(f) == Cardinality(Units(f))

=============================================================================
