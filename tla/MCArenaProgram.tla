--------------------------- MODULE MCArenaProgram ---------------------------
(* Small instances of ArenaProgram; the values are given in the cfg files. *)
EXTENDS ArenaEscrow

=============================================================================
