------------------------------ MODULE MCAccess ------------------------------
(***************************************************************************)
(* The way from a wallet to a seat, in two parts that share no state:      *)
(* signing in, and the page's way from the board to the arena.  A          *)
(* behaviour is one of one of them while the other rests, so the run is    *)
(* their state spaces side by side.                                        *)
(***************************************************************************)
EXTENDS WebSession, MatchLaunch

CONSTANT MaxBegun   \* a request counts as three faults, a change of a status as two

VARIABLE part
accessVars == <<part, vars, launchVars>>

AccessInit ==
  /\ part \in {"session", "launch"}
  /\ Init /\ LaunchInit
  /\ part # "session" => \A w \in Wallets : user[w] = "none"
  /\ part # "launch" => screen = "board"

Begun == 3 * Cardinality({r \in Requests \ {1} : request[r].pc # "new"})
         + 2 * Cardinality({c \in Changes : change[c].pc # "new"}) + faults

\* A shadowban takes the same steps as a ban: it is looked at by itself.
ShadowAlone == \A c \in Changes : change[c].status = "SHADOWBANNED" =>
                 \A d \in Changes \ {c} : change[d].pc = "new"

AccessNext ==
  /\ part' = part
  /\ \/ part = "session" /\ Next /\ Begun' <= MaxBegun /\ ShadowAlone' /\ UNCHANGED launchVars
     \/ part = "launch" /\ LaunchNext /\ UNCHANGED vars

\* Each part's fairness, of its own behaviours.
AccessFairness ==
  /\ \A r \in Requests : WF_vars(part = "session" /\ ServerStep(r) /\ UNCHANGED <<page, cookie>>)
  /\ WF_vars(part = "session" /\ Tick /\ UNCHANGED <<page, cookie>>)
  /\ WF_launchVars(part = "launch" /\ useLobbies)
  /\ WF_launchVars(part = "launch" /\ useMatchLaunch)
  /\ WF_launchVars(part = "launch" /\ useMatchmaking)
  /\ WF_launchVars(part = "launch" /\ \E t \in Rooms : enterMatch(t) \/ enterFailed(t))

AccessSpec == AccessInit /\ [][AccessNext]_accessVars /\ AccessFairness
=============================================================================
