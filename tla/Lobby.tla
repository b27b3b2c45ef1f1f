------------------------------- MODULE Lobby -------------------------------
(***************************************************************************)
(* The pure state machine of a room queue (packages/lobby/src/state.ts):   *)
(* given a lobby and an event it returns the next lobby.                   *)
(*                                                                         *)
(* Deadlines are kept relative to the clock: left is countdownEndsAt - now *)
(* and runs down to 0 as time passes, so "now >= countdownEndsAt" reads    *)
(* left = 0 and the deadline now + seconds reads seconds.  The roster is a *)
(* set and ready the subset that carries the flag: nothing depends on the  *)
(* order, nickname or joining time of an entry.  No transition of the      *)
(* reducer produces the status 'closed', so it is left out.                *)
(***************************************************************************)
EXTENDS Integers, FiniteSets

CONSTANTS
  Players,
  Tiers,
  PaidTiers,        \* tiers whose entryFeeLamports is positive
  MinPlayers,       \* minPlayers of every tier
  MaxPlayers,       \* maxPlayers of every tier, Unlimited for null
  Countdown,        \* countdownSeconds, in clock ticks
  ReadyCountdown,   \* readyCountdownSeconds
  Games,            \* game ids
  Null,             \* null
  Unlimited

ASSUME TiersAssumption ==
  /\ PaidTiers \subseteq Tiers
  /\ MinPlayers \in [Tiers -> Nat \ {0}]
  /\ MaxPlayers \in [Tiers -> Nat \cup {Unlimited}]
  /\ Countdown \in [Tiers -> Nat]
  /\ ReadyCountdown \in [Tiers -> Nat]
  /\ \A t \in Tiers : ReadyCountdown[t] <= Countdown[t]
  /\ IsFiniteSet(Players)
  /\ Null \notin Nat \cup Games \cup Tiers
  /\ Unlimited \notin Nat

LobbyStatus == {"waiting", "countdown", "launching"}

LobbyState ==
  [status : LobbyStatus, players : SUBSET Players, ready : SUBSET Players,
   left : Nat \cup {Null}, gameId : Games \cup {Null}, scheduled : BOOLEAN, version : Nat]

LobbyRejection == {"lobby-full", "already-joined", "not-joined", "lobby-launching"}

LobbyEvent ==
  [type : {"join", "leave"}, player : Players]
    \cup [type : {"ready"}, player : Players, ready : BOOLEAN]
    \cup [type : {"open"}, gameId : Games \cup {Null}, scheduled : BOOLEAN]
    \cup [type : {"launched"}, gameId : Games]
    \cup [type : {"tick", "close", "reset"}]

emptyLobby ==
  [status |-> "waiting", players |-> {}, ready |-> {}, left |-> Null, gameId |-> Null,
   scheduled |-> FALSE, version |-> 0]

Transition(s, changed, launch) ==
  [state |-> s, changed |-> changed, rejected |-> Null, shouldLaunch |-> launch]

unchanged(s, why) ==
  [state |-> s, changed |-> FALSE, rejected |-> why, shouldLaunch |-> FALSE]

isAtCapacity(count, t) == MaxPlayers[t] # Unlimited /\ count >= MaxPlayers[t]

(* The roster that a countdown's expiry keeps: in a paid tier only those   *)
(* whose payment has been confirmed.                                       *)
EveryoneKept(s, t) == s.players  \* mutant: those who did not pay stay

Kept(s, t) == IF t \in PaidTiers THEN s.ready ELSE s.players

(* The countdown has run out: launch if enough of the roster is left, go   *)
(* back to waiting with it otherwise.                                      *)
Expire(s, t) ==
  LET roster == Kept(s, t)
      kept == [s EXCEPT !.players = roster, !.ready = @ \cap roster, !.left = Null]
  IN IF t \in PaidTiers /\ Cardinality(s.ready) < MinPlayers[t]
     THEN Transition([kept EXCEPT !.status = "waiting"], TRUE, FALSE)
     ELSE Transition([kept EXCEPT !.status = "launching"], TRUE, TRUE)

(* The timer that the present roster calls for. *)
CandidateDeadline(s, t) ==
  IF s.ready = s.players \/ isAtCapacity(Cardinality(s.players), t)
  THEN ReadyCountdown[t]
  ELSE Countdown[t]

SettleKeepingCountdown(s, t, mutated) ==  \* mutant: a shrunk roster keeps its countdown
  IF s.scheduled THEN Transition(s, mutated, FALSE)
  ELSE IF s.status = "waiting" /\ Cardinality(s.players) >= MinPlayers[t]
  THEN Transition([s EXCEPT !.status = "countdown", !.left = CandidateDeadline(s, t)], TRUE, FALSE)
  ELSE IF s.status = "countdown" /\ s.left = 0 THEN Expire(s, t)
  ELSE Transition(s, mutated, FALSE)

(* settle: recomputes the status from the roster. *)
settle(s, t, mutated) ==
  CASE s.scheduled -> Transition(s, mutated, FALSE)
    [] ~s.scheduled /\ Cardinality(s.players) < MinPlayers[t] ->
         Transition([s EXCEPT !.status = "waiting", !.left = Null],
                    mutated \/ s.status # "waiting" \/ s.left # Null, FALSE)
    [] ~s.scheduled /\ Cardinality(s.players) >= MinPlayers[t] ->
         CASE s.status = "waiting" ->
                Transition([s EXCEPT !.status = "countdown", !.left = CandidateDeadline(s, t)],
                           TRUE, FALSE)
           [] s.status = "countdown" ->
                IF s.left = 0 THEN Expire(s, t)
                ELSE IF CandidateDeadline(s, t) < s.left
                THEN Transition([s EXCEPT !.left = CandidateDeadline(s, t)], TRUE, FALSE)
                ELSE Transition(s, mutated, FALSE)
           [] s.status = "launching" -> Transition(s, mutated, FALSE)

(***************************************************************************)
(* reduceLobby, one operator per event                                     *)
(***************************************************************************)

Join(s, p, t) ==
  CASE s.status = "launching" -> unchanged(s, "lobby-launching")
    [] s.status # "launching" /\ p \in s.players -> unchanged(s, "already-joined")
    [] s.status # "launching" /\ p \notin s.players ->
         IF isAtCapacity(Cardinality(s.players), t) THEN unchanged(s, "lobby-full")
         ELSE settle([s EXCEPT !.players = @ \cup {p}, !.version = @ + 1], t, TRUE)

Leave(s, p, t) ==
  CASE p \notin s.players -> unchanged(s, "not-joined")
    [] p \in s.players ->
         IF s.status = "launching" THEN unchanged(s, "lobby-launching")
         ELSE settle([s EXCEPT !.players = @ \ {p}, !.ready = @ \ {p}, !.version = @ + 1],
                     t, TRUE)

Ready(s, p, flag, t) ==
  CASE p \notin s.players -> unchanged(s, "not-joined")
    [] p \in s.players ->
         IF s.status = "launching" THEN unchanged(s, "lobby-launching")
         ELSE IF (p \in s.ready) = flag THEN unchanged(s, Null)
         ELSE settle([s EXCEPT !.ready = IF flag THEN @ \cup {p} ELSE @ \ {p},
                               !.version = @ + 1], t, TRUE)

(* Opens the lobby for a game, keeping the roster and its ready flags. *)
Open(s, gameId, scheduled) ==
  Transition([s EXCEPT !.status = "waiting", !.left = Null, !.gameId = gameId,
                       !.scheduled = scheduled, !.version = @ + 1], TRUE, FALSE)

Close(s) ==
  IF s.status = "launching" THEN unchanged(s, Null)
  ELSE Transition([s EXCEPT !.status = "launching", !.left = Null, !.version = @ + 1],
                  TRUE, FALSE)

Launched(s, gameId) ==
  Transition([s EXCEPT !.status = "launching", !.gameId = gameId, !.left = Null,
                       !.version = @ + 1], TRUE, FALSE)

Reset(s) == Transition([emptyLobby EXCEPT !.version = s.version + 1], TRUE, FALSE)

reduceLobby(s, e, t) ==
  CASE e.type = "join" -> Join(s, e.player, t)
    [] e.type = "leave" -> Leave(s, e.player, t)
    [] e.type = "ready" -> Ready(s, e.player, e.ready, t)
    [] e.type = "tick" -> settle(s, t, FALSE)
    [] e.type = "open" -> Open(s, e.gameId, e.scheduled)
    [] e.type = "close" -> Close(s)
    [] e.type = "launched" -> Launched(s, e.gameId)
    [] e.type = "reset" -> Reset(s)

(* One tick of the clock: what is left is floored at zero. *)
Elapse(s) == IF s.left \in Nat /\ s.left > 0 THEN [s EXCEPT !.left = @ - 1] ELSE s

=============================================================================
