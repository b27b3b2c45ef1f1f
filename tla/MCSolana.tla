------------------------------ MODULE MCSolana ------------------------------
(***************************************************************************)
(* The way from the code to the chain, in five parts that share no state:  *)
(* the instructions sent to the program, the pipeline that sends them, its *)
(* circuit breaker, the entry fee a player's page pays by itself, and the  *)
(* panel the player deposits and withdraws with.  A behaviour is one of    *)
(* one of them while the others rest, so the run is their state spaces     *)
(* side by side.                                                           *)
(***************************************************************************)
EXTENDS ArenaClient, TxPipeline, CircuitBreaker, EntryFee, CustodyPanel

VARIABLE part
solanaVars == <<part, callVars, txVars, breakerVars, entryVars, panelVars>>

\* Two rooms whose ids differ in length and share a prefix.
TwoRooms == {<<7>>, <<7, 1>>}

\* With two decimals: ".1", "1", an amount that is too fine, and none.
FewTexts ==
  { [whole |-> <<>>, fraction |-> <<1>>], [whole |-> <<1>>, fraction |-> <<>>],
    [whole |-> <<0>>, fraction |-> <<1, 5, 5>>], [whole |-> <<>>, fraction |-> <<>>] }

SolanaInit ==
  /\ part \in {"calls", "pipeline", "breaker", "entry", "panel"}
  /\ CallInit /\ TxInit /\ BreakerInit /\ EntryInit /\ PanelInit
  /\ part # "breaker" => healthy
  /\ part # "panel" => program = "deployed"
  /\ part # "entry" => publicKey
  /\ part # "calls" => configured /\ feeDestination = findTreasuryPda

\* A second game is prepared before an entry of the first lands, and two calls
\* run at once then only while an account stays connected.
FewCalls ==
  \/ chain'.games <= 1
  \/ /\ chain'.entered \cup chain'.bounced = {}
     /\ Cardinality(pays') <= 1 \/ (publicKey /\ publicKey')

SolanaNext ==
  /\ part' = part
  /\ \/ part = "calls" /\ CallNext /\ UNCHANGED <<txVars, breakerVars, entryVars, panelVars>>
     \/ part = "pipeline" /\ TxNext /\ UNCHANGED <<callVars, breakerVars, entryVars, panelVars>>
     \/ part = "breaker" /\ BreakerNext /\ UNCHANGED <<callVars, txVars, entryVars, panelVars>>
     \/ /\ part = "entry" /\ EntryNext /\ FewCalls
        /\ UNCHANGED <<callVars, txVars, breakerVars, panelVars>>
     \/ part = "panel" /\ PanelNext /\ UNCHANGED <<callVars, txVars, breakerVars, entryVars>>

\* The breaker's fairness, of its own behaviours.
SolanaFairness ==
  /\ WF_breakerVars(part = "breaker" /\ tick)
  /\ \A c \in Callers : /\ WF_breakerVars(part = "breaker" /\ execute(c))
                        /\ WF_breakerVars(part = "breaker" /\ settle(c))

SolanaSpec == SolanaInit /\ [][SolanaNext]_solanaVars /\ SolanaFairness
=============================================================================
