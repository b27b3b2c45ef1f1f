------------------------------ MODULE EntryFee ------------------------------
(***************************************************************************)
(* Paying the entry fee from the room board (apps/web/src): the board is   *)
(* polled, and when the queued room counts down with its game useEntryFee  *)
(* asks the wallet, once per game and countdown unless a failure lets it   *)
(* ask again.  Each pay() call crosses several awaits while the board, the *)
(* wallet and the chain move on, and several may run at once.  The lobby   *)
(* service, the chain and the wallet are external, modelled from what the  *)
(* page sees of them.                                                      *)
(***************************************************************************)
EXTENDS Integers, FiniteSets

CONSTANTS MaxGames,  \* matches of the room
          MaxPays    \* pay() calls running at once

ASSUME EntryAssumption == {MaxGames, MaxPays} \subseteq Nat \ {0}

NoGame == 0

VARIABLES room,    \* external: whether the player is queued, the room's status and game
          chain,   \* external: games prepared, entries paid, entries that failed
          publicKey, \* external: an account is connected
          seen,    \* the room as last polled
          mounted, \* the board is on screen
          fee,     \* useEntryFee: status, paidFor, wasCounting; what it last spoke of, and
                   \* the games answered for since the countdown began
          pays     \* the pay() calls running: asked in this countdown, in one before it,
                   \* or by a board that is gone

entryVars == <<room, chain, publicKey, seen, mounted, fee, pays>>

FreshFee == [status |-> "idle", paidFor |-> NoGame, wasCounting |-> FALSE,
          shownFor |-> NoGame, answered |-> {}]

EntryInit ==
  /\ room = [queued |-> FALSE, status |-> "waiting", game |-> NoGame]
  /\ chain = [games |-> 0, entered |-> {}, bounced |-> {}]
  /\ publicKey \in BOOLEAN
  /\ seen = room
  /\ mounted = TRUE /\ fee = FreshFee /\ pays = {}

(***************************************************************************)
(* The room and the chain.                                                 *)
(***************************************************************************)
external(r) == room' = r /\ UNCHANGED <<chain, publicKey, seen, mounted, fee, pays>>

\* The player joins or leaves; a launching room lets nobody in or out.
joinOrLeave == room.status # "launching" /\ external([room EXCEPT !.queued = ~@])

\* The room fills; its countdown runs out unpaid and another may start; or it
\* launches and reopens without its game, with or without a poll in between.
countDown == room.status = "waiting" /\ external([room EXCEPT !.status = "countdown"])
callOff == room.status = "countdown" /\ external([room EXCEPT !.status = "waiting"])
launchRoom == room.status = "countdown" /\ external([room EXCEPT !.status = "launching"])
reopenRoom ==
  /\ room.status = "launching"
  /\ external([queued |-> FALSE, status |-> "waiting", game |-> NoGame])

\* The backend binds the game it prepared, before the countdown or during it.
bindGame ==
  /\ room.status # "launching" /\ chain.games < MaxGames
  /\ chain' = [chain EXCEPT !.games = @ + 1]
  /\ room' = [room EXCEPT !.game = chain.games + 1]
  /\ UNCHANGED <<publicKey, seen, mounted, fee, pays>>

(***************************************************************************)
(* useEntryFee.                                                            *)
(***************************************************************************)
counting(r) == r.queued /\ r.status = "countdown"
gameId(r) == IF r.queued THEN r.game ELSE NoGame

FreePay == CHOOSE i \in 1..MaxPays : i \notin {p.id : p \in pays}
NewPay(game) == [id |-> FreePay, game |-> game, step |-> "preparing", landed |-> "none", asked |-> "now"]

\* pay(game) is called under the guard.  Without an account it fails at once,
\* and the guard stays.
pay(f, calls, game, connected) ==
  IF connected
    THEN /\ Cardinality(calls) < MaxPays
         /\ fee' = [f EXCEPT !.paidFor = game, !.status = "preparing", !.answered = @ \ {game}]
         /\ pays' = calls \cup {NewPay(game)}
    ELSE /\ fee' = [f EXCEPT !.paidFor = game, !.status = "failed", !.shownFor = game,
                             !.answered = @ \cup {game}]
         /\ pays' = calls

\* The second effect: a countdown whose game was not asked for asks.
alreadyAsked(f, game) == f.paidFor = game

askOnce(f, calls, r, connected) ==
  IF counting(r) /\ gameId(r) # NoGame /\ ~alreadyAsked(f, r.game)
    THEN pay(f, calls, r.game, connected)
    ELSE fee' = f /\ pays' = calls

CountdownBegins(f, r) == counting(r) /\ ~f.wasCounting

guardStays(f, r) == f.paidFor  \* mutant: one attempt per game, ever

\* The first effect: each countdown is a fresh chance to pay.
clearedGuard(f, r) == IF CountdownBegins(f, r) THEN NoGame ELSE f.paidFor

\* Both effects, when the board shows the room r in place of shown.
payEffects(f, shown, r) ==
  LET seenBegin == [f EXCEPT !.paidFor = clearedGuard(f, r), !.wasCounting = counting(r),
                             !.answered = IF CountdownBegins(f, r) THEN {} ELSE @]
      calls == IF ~CountdownBegins(f, r) THEN pays
               ELSE {[p EXCEPT !.asked = IF @ = "now" THEN "before" ELSE @] : p \in pays}
  IN IF counting(r) # f.wasCounting \/ gameId(r) # gameId(shown)
       THEN askOnce(seenBegin, calls, r, publicKey)
       ELSE fee' = seenBegin /\ pays' = calls

\* useLobbies polls, and the board renders what it read.
poll ==
  /\ seen # room
  /\ seen' = room
  /\ IF mounted THEN payEffects(fee, seen, room) ELSE UNCHANGED <<fee, pays>>
  /\ UNCHANGED <<room, chain, publicKey, mounted>>

\* The wallet connects, disconnects or switches account: pay is another
\* function, and the second effect runs again.
walletChanges ==
  /\ publicKey' \in BOOLEAN /\ (publicKey \/ publicKey')
  /\ IF mounted THEN askOnce(fee, pays, seen, publicKey') ELSE UNCHANGED <<fee, pays>>
  /\ UNCHANGED <<room, chain, seen, mounted>>

\* The board leaves the screen with its state; the pay() calls run on.  It
\* comes back showing the cached poll.
unmount ==
  /\ mounted /\ mounted' = FALSE
  /\ fee' = FreshFee
  /\ pays' = {[p EXCEPT !.asked = "gone"] : p \in pays}
  /\ UNCHANGED <<room, chain, publicKey, seen>>

mount ==
  /\ ~mounted /\ mounted' = TRUE
  /\ payEffects(FreshFee, [seen EXCEPT !.queued = FALSE], seen)
  /\ UNCHANGED <<room, chain, publicKey, seen>>

\* The button under a failure.
retry ==
  /\ mounted /\ fee.status = "failed" /\ gameId(seen) # NoGame
  /\ pay(fee, pays, seen.game, publicKey)
  /\ UNCHANGED <<room, chain, publicKey, seen, mounted>>

(***************************************************************************)
(* One pay() call.  What it sets is lost once its board is unmounted.      *)
(***************************************************************************)
advance(p, step, status) ==
  /\ pays' = (pays \ {p}) \cup {[p EXCEPT !.step = step]}
  /\ fee' = IF p.asked # "gone" THEN [fee EXCEPT !.status = status, !.shownFor = p.game] ELSE fee
  /\ UNCHANGED <<room, chain, publicKey, seen, mounted>>

finish(p, status) ==
  /\ pays' = pays \ {p}
  /\ fee' = IF p.asked = "gone" THEN fee
            ELSE [fee EXCEPT !.status = status, !.shownFor = p.game,
                             !.answered = IF p.asked = "now" THEN @ \cup {p.game} ELSE @,
                             !.paidFor = IF status = "failed" THEN NoGame ELSE @]
  /\ UNCHANGED <<room, chain, publicKey, seen, mounted>>

\* waitForRoomOnChain: the wallet is asked once the backend has opened the
\* game's room, on its own loop, or the wait runs out.  awaiting-signature lasts
\* only while the blockhash is fetched: the wallet is asked under "sending".
waitForRoomOnChain(p) ==
  /\ p.step = "preparing"
  /\ \/ advance(p, "signing", "sending")
     \/ finish(p, "failed")

\* The player rejects, or the wallet refuses what the chain would refuse.
rejectTransaction(p) == p.step = "signing" /\ finish(p, "failed")

\* The player approves and the transaction is on its way.
sendTransaction(p) ==
  /\ p.step = "signing" /\ p.game \notin chain.entered
  /\ advance(p, "confirming", "sending")

\* It lands: the entry is paid, at most once per game, or fails on chain, as
\* in a room that has closed.
enterRoom(p) ==
  /\ p.step = "confirming" /\ p.landed = "none"
  /\ \/ /\ p.game \notin chain.entered
        /\ chain' = [chain EXCEPT !.entered = @ \cup {p.game}]
        /\ pays' = (pays \ {p}) \cup {[p EXCEPT !.landed = "ok"]}
     \/ /\ chain' = [chain EXCEPT !.bounced = @ \cup {p.game}]
        /\ pays' = (pays \ {p}) \cup {[p EXCEPT !.landed = "err"]}
  /\ UNCHANGED <<room, publicKey, seen, mounted, fee>>

\* It resolves for a transaction that landed, whether or not it failed there,
\* and throws when the blockhash expires first.
confirmTransaction(p) ==
  /\ p.step = "confirming"
  /\ finish(p, IF p.landed = "none" THEN "failed" ELSE "paid")

EntryNext ==
  \/ joinOrLeave \/ countDown \/ callOff \/ launchRoom \/ reopenRoom
  \/ bindGame \/ poll \/ walletChanges \/ unmount \/ mount \/ retry
  \/ \E p \in pays : \/ waitForRoomOnChain(p) \/ rejectTransaction(p) \/ sendTransaction(p)
                     \/ enterRoom(p) \/ confirmTransaction(p)

EntrySpec == EntryInit /\ [][EntryNext]_entryVars

(***************************************************************************)
(* Properties.                                                             *)
(***************************************************************************)
\* A player whose room the board shows counting down with its game was asked
\* for this game's fee since this countdown began, and is still being asked or
\* has had an answer: the guard that keeps a poll from asking twice never keeps
\* the next game, or the next countdown of the same game, from asking.  The
\* answer is a failure for a player without an account.
CountingIsHandled ==
  mounted /\ counting(seen) /\ seen.game # NoGame =>
    \/ seen.game \in fee.answered
    \/ \E p \in pays : p.asked = "now" /\ p.game = seen.game

\* "Paid" is shown only once the transaction is on chain, where it landed or,
\* since nobody reads its result, failed.
PaidIsOnChain == fee.status = "paid" => fee.shownFor \in chain.entered \cup chain.bounced

\* Whatever polls, remounts, wallets and answers come in between, each countdown
\* of a game brings a request for its fee, and "paid" is true of the chain
\* (useEntryFee).
FeeInv == CountingIsHandled /\ PaidIsOnChain
=============================================================================
