----------------------------- MODULE MatchLaunch ----------------------------
(***************************************************************************)
(* One player's page from the room board to the arena (apps/web/src): the  *)
(* board polled every two seconds, joining and leaving a paid or a free    *)
(* room, the ticket taken when the room launches, and the play page, which *)
(* asks for one itself when it opens without.  The lobby service and the   *)
(* matchmaker are external, modelled from what the page sees of them.  A   *)
(* wallet too poor for a room only takes its join button away and is left  *)
(* out, as is signing in (AuthService, WebSession).                        *)
(***************************************************************************)
EXTENDS Integers

CONSTANT MaxLaunches \* matches of the paid room

ASSUME LaunchAssumption == MaxLaunches \in Nat \ {0}

NoTier == "none"
Rooms == {"paid", "free"}

VARIABLES lobby,      \* external: the player's queue, the paid room's status, the seat held
          board,      \* the lobby as last polled
          screen,     \* "board" or "play"
          ticket,     \* the store and the play page's mutation hold one
          mutation,   \* the join or leave in flight
          confirming, \* DepositConfirmDialog is open
          launcher    \* claimed, error, and the matchmake requests in flight

launchVars == <<lobby, board, screen, ticket, mutation, confirming, launcher>>

NoneInFlight == [t \in Rooms |-> 0]
NotClaimed == [claimed |-> NoTier, error |-> FALSE, entering |-> NoneInFlight,
               started |-> FALSE, mixed |-> FALSE]
NoAsk == [op |-> "none", tier |-> NoTier]

LaunchInit ==
  /\ lobby = [current |-> NoTier, status |-> "waiting", pending |-> NoTier, launched |-> 0]
  /\ board = lobby
  /\ screen \in {"board", "play"}
  /\ ticket = FALSE /\ mutation = NoAsk /\ confirming = FALSE /\ launcher = NotClaimed

(***************************************************************************)
(* The lobby service.                                                      *)
(***************************************************************************)
\* A launching room lets nobody in or out.
Locked(tier) == tier = "paid" /\ lobby.status = "launching"

serves(l) == lobby' = l /\ UNCHANGED <<board, screen, ticket, mutation, confirming, launcher>>

\* The paid room launches, and reopens with a seat held for its player: a poll
\* may fall between the two or step over both.  No matchmake request lasts
\* from one match to the next.
startMatch ==
  /\ lobby.status = "waiting" /\ lobby.launched < MaxLaunches /\ launcher.entering = NoneInFlight
  /\ serves([lobby EXCEPT !.status = "launching", !.launched = @ + 1])
reopen ==
  /\ lobby.status = "launching"
  /\ serves([lobby EXCEPT !.status = "waiting", !.current = IF @ = "paid" THEN NoTier ELSE @,
                          !.pending = IF lobby.current = "paid" THEN "paid" ELSE @])

\* A free room launches itself.
startFreeMatch ==
  /\ lobby.current = "free"
  /\ serves([lobby EXCEPT !.current = NoTier, !.pending = "free"])

\* The seat lasts a minute: many polls, and the request they lead to.  It
\* lapses under a page that was refused a ticket or plays another match.
seatLapses ==
  /\ lobby.pending # NoTier /\ (launcher.error \/ screen = "play") /\ launcher.entering = NoneInFlight
  /\ serves([lobby EXCEPT !.pending = NoTier])

(***************************************************************************)
(* The board: useLobbies, RoomSelect and its dialog.                       *)
(***************************************************************************)
useLobbies ==
  /\ board # lobby /\ board' = lobby
  /\ UNCHANGED <<lobby, screen, ticket, mutation, confirming, launcher>>

\* What the button of a room does.
deriveJoinState(tier) ==
  IF mutation.tier = tier \/ (board.status = "launching" /\ tier = "paid") THEN "none"
  ELSE IF board.current = tier THEN "leave" ELSE "join"

asks(op, tier) ==
  /\ screen = "board" /\ mutation = NoAsk
  /\ mutation' = [op |-> op, tier |-> tier]
  /\ UNCHANGED <<lobby, board, screen, ticket, launcher>>

\* The paid room opens a dialog first; the free room joins at once.
handleJoin(tier) ==
  /\ deriveJoinState(tier) = "join" /\ ~confirming
  /\ IF tier = "free" THEN asks("join", tier) /\ UNCHANGED confirming
     ELSE /\ screen = "board" /\ confirming' = TRUE
          /\ UNCHANGED <<lobby, board, screen, ticket, mutation, launcher>>

confirmJoin == confirming /\ asks("join", "paid") /\ UNCHANGED confirming

onCancel ==
  /\ screen = "board" /\ confirming /\ confirming' = FALSE
  /\ UNCHANGED <<lobby, board, screen, ticket, mutation, launcher>>

handleLeave(tier) == deriveJoinState(tier) = "leave" /\ ~confirming /\ asks("leave", tier)
                     /\ UNCHANGED confirming

unclaimed(tier) == [launcher EXCEPT !.entering[tier] = @ + 1]  \* mutant: the claim is not recorded

Requested(tier) == [launcher EXCEPT !.claimed = tier, !.entering[tier] = @ + 1]

\* The service does what was asked; the callbacks of a page that has gone do
\* not run.  A free room joined is played at once: playNow.
served ==
  LET free == mutation = [op |-> "join", tier |-> "free"]
  IN /\ mutation # NoAsk /\ mutation' = NoAsk /\ ~Locked(mutation.tier)
     /\ lobby' = IF mutation.op = "join" THEN [lobby EXCEPT !.current = mutation.tier]
                 ELSE [lobby EXCEPT !.current = IF @ = mutation.tier THEN NoTier ELSE @]
     /\ confirming' = (confirming /\ ~(mutation.op = "join" /\ screen = "board"))
     /\ free => launcher.entering["free"] < 2
     /\ launcher' = IF ~free THEN launcher
                  ELSE [(IF screen = "board" THEN Requested("free") ELSE launcher) EXCEPT !.mixed = TRUE]
     /\ UNCHANGED <<board, screen, ticket>>

\* Or refuses, or cannot be reached.
refused ==
  /\ mutation # NoAsk /\ mutation' = NoAsk
  /\ UNCHANGED <<lobby, board, screen, ticket, confirming, launcher>>

(***************************************************************************)
(* useMatchLaunch.                                                         *)
(***************************************************************************)
TierOf(b) == IF b.pending # NoTier THEN b.pending ELSE b.current

statusOnly(b) ==  \* mutant: only the polled status counts
  b.current = "paid" /\ b.status = "launching"
launching(b) == (b.current = "paid" /\ b.status = "launching") \/ b.pending # NoTier

\* Its effect depends on enterMatch, which depends on the mutation object and
\* so is new on every render: the effect runs at every render of the board, of
\* which there is one a second.
useMatchLaunch ==
  /\ screen = "board"
  /\ IF TierOf(board) = NoTier THEN launcher' = [launcher EXCEPT !.claimed = NoTier]
     ELSE /\ launching(board) /\ launcher.claimed # TierOf(board)
          /\ launcher.entering[TierOf(board)] < 2
          /\ launcher' = Requested(TierOf(board))
  /\ UNCHANGED <<lobby, board, screen, ticket, mutation, confirming>>

\* A matchmake request gets its ticket: the seat is used, the queue is left
\* without waiting for the answer, and the router moves to the arena, where
\* the board is unmounted.
enterMatch(tier) ==
  /\ launcher.entering[tier] > 0
  /\ lobby' = [lobby EXCEPT !.pending = IF @ = tier THEN NoTier ELSE @,
                            !.current = IF @ = tier /\ ~Locked(tier) THEN NoTier ELSE @]
  /\ screen' = "play" /\ ticket' = TRUE /\ confirming' = FALSE
  /\ launcher' = [launcher EXCEPT !.claimed = NoTier, !.error = FALSE, !.entering[tier] = @ - 1,
                              !.started = FALSE]
  /\ UNCHANGED <<board, mutation>>

\* Or does not: the guard is dropped and the error shown.
enterFailed(tier) ==
  /\ launcher.entering[tier] > 0
  /\ launcher' = [launcher EXCEPT !.entering[tier] = @ - 1, !.error = TRUE,
                              !.claimed = IF screen = "board" THEN NoTier ELSE @]
  /\ UNCHANGED <<lobby, board, screen, ticket, mutation, confirming>>

(***************************************************************************)
(* The play page.                                                          *)
(***************************************************************************)
\* Opened without a ticket it asks for one, once, for the room the last poll
\* shows the player queued in, or else the free one.
tierToPlay(b) == IF b.current = NoTier THEN "free" ELSE b.current

useMatchmaking ==
  /\ screen = "play" /\ ~ticket /\ ~launcher.started
  /\ LET tier == tierToPlay(board)
     IN /\ launcher.entering[tier] < 2
        /\ launcher' = [launcher EXCEPT !.started = TRUE, !.entering[tier] = @ + 1,
                                    !.mixed = @ \/ tier = "free"]
  /\ UNCHANGED <<lobby, board, screen, ticket, mutation, confirming>>

\* Leave: out of the queue the last poll shows, and back to a fresh board.
leavePage ==
  /\ screen = "play" /\ screen' = "board" /\ ticket' = FALSE
  /\ mutation = NoAsk
  /\ mutation' = IF board.current # NoTier THEN [op |-> "leave", tier |-> board.current] ELSE NoAsk
  /\ launcher' = [launcher EXCEPT !.claimed = NoTier, !.error = FALSE, !.started = FALSE]
  /\ UNCHANGED <<lobby, board, confirming>>

LaunchNext ==
  \/ startMatch \/ reopen \/ startFreeMatch \/ seatLapses
  \/ useLobbies \/ confirmJoin \/ onCancel \/ served \/ refused
  \/ useMatchLaunch \/ useMatchmaking \/ leavePage
  \/ \E t \in Rooms : handleJoin(t) \/ handleLeave(t) \/ enterMatch(t) \/ enterFailed(t)

\* A page polls and renders for as long as it is shown, and a matchmake
\* request is answered; nothing is asked of the player or of the lobby.
LaunchFairness ==
  /\ WF_launchVars(useLobbies) /\ WF_launchVars(useMatchLaunch) /\ WF_launchVars(useMatchmaking)
  /\ WF_launchVars(\E t \in Rooms : enterMatch(t) \/ enterFailed(t))

LaunchSpec == LaunchInit /\ [][LaunchNext]_launchVars /\ LaunchFairness

(***************************************************************************)
(* Properties.                                                             *)
(***************************************************************************)
\* One ticket is asked for at a time: tickets are single-use and a second one
\* would invalidate the first.  The exception is a player who has also played
\* a free room: the next render drops playNow's claim when the board does not
\* show the queue yet, and a claim on one room gives way to one on the other.
OneTicket == launcher.mixed \/ \A t \in Rooms : launcher.entering[t] <= 1

\* A player whose seat is held while the board is open is taken into the match
\* or told why not, even when no poll sees the room launching.
SeatIsTaken ==
  (screen = "board" /\ lobby.pending # NoTier) ~> (screen = "play" \/ launcher.error)
=============================================================================
