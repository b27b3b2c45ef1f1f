-------------------------------- MODULE Maps --------------------------------
(***************************************************************************)
(* JavaScript's Map, as a function from its keys to its values, and its    *)
(* loop over an array.  put says what :> and @@ of module TLC say, and     *)
(* inOrder what a fold says, in a form that proofs can expand.             *)
(***************************************************************************)
EXTENDS Naturals, Sequences

(* Map.set. *)
put(map, key, value) ==
  [k \in DOMAIN map \cup {key} |-> IF k = key THEN value ELSE map[k]]

(* From e, by one entry of s after the other. *)
inOrder(Op(_, _), e, s) ==
  LET upto[n \in 0 .. Len(s)] == IF n = 0 THEN e ELSE Op(upto[n - 1], s[n])
  IN  upto[Len(s)]
=============================================================================
