---------------------------- MODULE AuthService ----------------------------
(***************************************************************************)
(* The gateway's sign-in service: nonces, the failure lockout, sessions,   *)
(* rotation of refresh tokens, logout, and the admin route that bans and   *)
(* reinstates.  A request is a task that takes one step per await.         *)
(* A session is named by the request that issued it: its refresh row and   *)
(* its access token share that name.  Time is relative: a token, a cut-off *)
(* and every Redis entry carry an age or the time they have left.          *)
(***************************************************************************)
EXTENDS Integers, FiniteSets

CONSTANTS Wallets,        \* addresses of players; the address is the identity, and none is an admin's
          OtherWallets,   \* accounts the player may switch to but signs in with elsewhere
          NoWallet,
          MaxRequests,    \* requests a player's browser makes
          MaxChanges,     \* changes of a status admins make
          AccessTtl,      \* JWT_ACCESS_TTL_SECONDS
          NonceTtl,       \* NONCE_TTL_SECONDS
          FailureWindow,  \* FAILURE_WINDOW_SECONDS
          MaxFailures,    \* MAX_FAILURES
          MaxFaults       \* crashes, failed calls and lost responses

ASSUME AuthConstants ==
  /\ NoWallet \notin Wallets \cup OtherWallets
  /\ Wallets \cap OtherWallets = {}
  /\ {MaxRequests, AccessTtl, NonceTtl, FailureWindow, MaxFailures} \subseteq Nat \ {0}
  /\ {MaxChanges, MaxFaults} \subseteq Nat

VARIABLES user,      \* the User row behind each address
          nonce,     \* auth nonce key: the request that was given it, time left
          failures,  \* auth failures key: count, time left (0: no TTL)
          session,   \* refresh row and access token issued by each request
          cutoff,    \* session cut-off key
          request,   \* the request tasks
          change,    \* the admins' requests, which overlap like any others
          faults
serverVars == <<user, nonce, failures, session, cutoff, request, change, faults>>

Requests == 1..MaxRequests
Changes == 1..MaxChanges
None == 0
Least(a, b) == IF a < b THEN a ELSE b

Idle == [kind |-> "none", pc |-> "new", wallet |-> NoWallet, nonce |-> None,
         valid |-> FALSE, token |-> None, todo |-> {},
         banned |-> FALSE, orphan |-> FALSE]
NoSession == [owner |-> NoWallet, family |-> None, row |-> "none", age |-> 0,
              denied |-> 0, nonce |-> None]
NoChange == [pc |-> "new", wallet |-> NoWallet, status |-> "none", age |-> 0]
Changed == [NoChange EXCEPT !.pc = "done"]

\* Slot 1 holds the session of an earlier visit, its access token expired, or
\* nothing; the account behind it exists.
ServerInit ==
  /\ user \in [Wallets -> {"none", "ACTIVE"}]
  /\ nonce = [w \in Wallets |-> [id |-> None, left |-> 0]]
  /\ failures = [w \in Wallets |-> [count |-> 0, left |-> 0]]
  /\ \E s \in {NoSession} \cup {[NoSession EXCEPT !.owner = w, !.family = 1, !.row = "live",
                                                  !.age = AccessTtl] : w \in {v \in Wallets : user[v] # "none"}} :
       session = [r \in Requests |-> IF r = 1 THEN s ELSE NoSession]
  /\ cutoff = [w \in Wallets |-> [age |-> 0, left |-> 0]]
  /\ request = [r \in Requests |-> IF r = 1 THEN [Idle EXCEPT !.pc = "done"] ELSE Idle]
  /\ change = [c \in Changes |-> NoChange]
  /\ faults = 0

-----------------------------------------------------------------------------
(* Tokens *)

\* A token is out once its refresh row is written and the request answers.
Issued(r) == session[r].row # "none"

\* Relative form of issuedAtSeconds < cutoffSeconds: a token of the cut-off's
\* own second is kept.
isBeforeCutoff(r) ==
  LET c == cutoff[session[r].owner]
  IN  c.left > 0 /\ session[r].age > c.age

Refused(r) ==
  \/ session[r].age >= AccessTtl
  \/ session[r].denied > 0
  \/ isBeforeCutoff(r)

authenticate(r) == Issued(r) /\ ~Refused(r)

-----------------------------------------------------------------------------
(* Requests *)

Fresh(r) == request[r].pc = "new" /\ \A q \in 1..(r - 1) : request[q].pc # "new"

Arriving(kind, pc, w) ==
  [Idle EXCEPT !.kind = kind, !.pc = pc, !.wallet = w, !.banned = user[w] = "BANNED"]

Arrive(r, arriving) == Fresh(r) /\ request' = [request EXCEPT ![r] = arriving]

\* The routes a page calls.  A refresh reaches the service only from an
\* allowed origin and with a token: the cookie's, as the web client sends no body.
postNonce(r, w) == Arrive(r, Arriving("signin", "nonce", w))
postConnect(r, w) == Arrive(r, Arriving("connect", "find", w))
postRefresh(token) ==
  IF token = None THEN [Idle EXCEPT !.pc = "done"]
  ELSE [Arriving("refresh", "rotate", session[token].owner) EXCEPT !.token = token]
postLogout(r, token) ==
  /\ authenticate(token)
  /\ Arrive(r, [Arriving("logout", "logout", session[token].owner)
                  EXCEPT !.token = token, !.todo = {"rows", "deny"}])

At(r, pc) == request[r].pc = pc
Goto(r, pc) == request' = [request EXCEPT ![r].pc = pc]

\* Of an answered request only its verify call may still be redelivered.
Done(r) == request' = [request EXCEPT ![r] =
             [Idle EXCEPT !.pc = "done", !.kind = request[r].kind, !.wallet = request[r].wallet,
                          !.nonce = request[r].nonce, !.valid = request[r].valid,
                          !.orphan = request[r].orphan]]

\* Only the verify route counts an error against the wallet.
Throw(r) == Goto(r, IF request[r].kind = "signin" THEN "failed" ELSE "error")

assertNotLockedOut(w) == failures[w].count < MaxFailures

\* POST /auth/nonce: the key is one per wallet, so a second nonce replaces the first.
issueNonce(r) ==
  LET w == request[r].wallet IN
  /\ At(r, "nonce")
  /\ IF assertNotLockedOut(w)
       THEN /\ nonce' = [nonce EXCEPT ![w] = [id |-> r, left |-> NonceTtl]]
            /\ request' = [request EXCEPT ![r].pc = "signing", ![r].nonce = r]
       ELSE Goto(r, "error") /\ UNCHANGED nonce
  /\ UNCHANGED <<user, failures, session, cutoff, change, faults>>

\* POST /auth/verify looks at the lockout before its try block.
VerifyArrives(r) ==
  /\ At(r, "lock")
  /\ Goto(r, IF assertNotLockedOut(request[r].wallet) THEN "consume" ELSE "error")
  /\ UNCHANGED <<user, nonce, failures, session, cutoff, change, faults>>

ReadNonce(w) == nonce  \* mutant: GET without the delete

\* GETDEL: what is left for the next caller.
consumeNonce(w) == [nonce EXCEPT ![w] = [id |-> None, left |-> 0]]

\* The message is rebuilt from the stored nonce, so the signature holds only
\* for the wallet and the nonce it was made for.
verifySignature(r) == request[r].valid

verifyWalletSignature(r) ==
  LET w == request[r].wallet IN
  /\ At(r, "consume")
  /\ nonce' = consumeNonce(w)
  /\ IF nonce[w].id # None /\ nonce[w].id = request[r].nonce /\ verifySignature(r)
       THEN Goto(r, "find") ELSE Throw(r)
  /\ UNCHANGED <<user, failures, session, cutoff, change, faults>>

Permitted(status) == status \notin {"BANNED", "CLOSED"}

\* The row read here is the one the status check and the token's claims use.
upsertWalletOwner(r) ==
  LET owner == user[request[r].wallet] IN
  /\ At(r, "find")
  /\ CASE owner = "none" -> Goto(r, "create")
       [] owner # "none" /\ ~Permitted(owner) -> Throw(r)
       [] OTHER -> Goto(r, IF request[r].kind = "connect" THEN "nickname" ELSE "issue")
  /\ UNCHANGED <<user, nonce, failures, session, cutoff, change, faults>>

\* Of two requests that found no row, the unique address lets one create it.
CreateOwner(r) ==
  LET w == request[r].wallet IN
  /\ At(r, "create")
  /\ IF user[w] = "none"
       THEN /\ user' = [user EXCEPT ![w] = "ACTIVE"]
            /\ Goto(r, IF request[r].kind = "connect" THEN "nickname" ELSE "issue")
       ELSE Throw(r) /\ UNCHANGED user
  /\ UNCHANGED <<nonce, failures, session, cutoff, change, faults>>

\* A changed nickname updates the row, and the session is issued from the
\* updated row without a second look at its status.
connectWallet(r) ==
  /\ At(r, "nickname")
  /\ Goto(r, "issue")
  /\ UNCHANGED <<user, nonce, failures, session, cutoff, change, faults>>

\* issueSession signs the access token and then writes the refresh row.
issueSession(r) ==
  LET q == request[r] IN
  /\ At(r, "issue")
  /\ session' = [session EXCEPT ![r] =
       [NoSession EXCEPT !.owner = q.wallet, !.nonce = q.nonce,
          !.family = IF q.kind = "refresh" THEN session[q.token].family ELSE r]]
  /\ Goto(r, "record")
  /\ UNCHANGED <<user, nonce, failures, cutoff, change, faults>>

RecordSession(r) ==
  /\ At(r, "record")
  /\ session' = [session EXCEPT ![r].row = "live"]
  /\ Goto(r, IF request[r].kind = "signin" THEN "clear" ELSE "ok")
  /\ UNCHANGED <<user, nonce, failures, cutoff, change, faults>>

ClearFailures(r) ==
  /\ At(r, "clear")
  /\ failures' = [failures EXCEPT ![request[r].wallet] = [count |-> 0, left |-> 0]]
  /\ Goto(r, "ok")
  /\ UNCHANGED <<user, nonce, session, cutoff, change, faults>>

CountedFromZero(count) == count = 0  \* mutant: the expiry is never set

FirstFailure(count) == count = 1

\* INCR and, on the first failure of a window, a separate EXPIRE.
recordFailure(r) ==
  LET w == request[r].wallet
      count == Least(failures[w].count + 1, MaxFailures)
  IN
  /\ At(r, "failed")
  /\ failures' = [failures EXCEPT ![w].count = count]
  /\ Goto(r, IF FirstFailure(count) THEN "expire" ELSE "error")
  /\ UNCHANGED <<user, nonce, session, cutoff, change, faults>>

ExpireFailures(r) ==
  LET w == request[r].wallet IN
  /\ At(r, "expire")
  /\ failures' = IF failures[w].count = 0 THEN failures
                 ELSE [failures EXCEPT ![w].left = FailureWindow]
  /\ Goto(r, "error")
  /\ UNCHANGED <<user, nonce, session, cutoff, change, faults>>

-----------------------------------------------------------------------------
(* Rotation, logout and revocation *)

RevokeWhere(rows) ==
  [s \in Requests |-> IF session[s].row \in {"live", "expired"} /\ s \in rows
                        THEN [session[s] EXCEPT !.row = "revoked"] ELSE session[s]]

\* What the read of the refresh row decides.
rotateRefreshToken(r) ==
  LET stored == session[request[r].token]
      owner == user[stored.owner]
  IN
  /\ At(r, "rotate")
  /\ CASE stored.row = "revoked" -> Goto(r, "burn")
       [] stored.row # "revoked" /\ (stored.row = "expired" \/ ~Permitted(owner)) -> Throw(r)
       [] OTHER -> Goto(r, "revoke")
  /\ UNCHANGED <<user, nonce, failures, session, cutoff, change, faults>>

BurnFamily(r) ==
  LET family == session[request[r].token].family
      inFamily == {s \in Requests : session[s].family = family}
  IN
  /\ At(r, "burn")
  /\ session' = RevokeWhere(inFamily)
  /\ Throw(r)
  /\ UNCHANGED <<user, nonce, failures, cutoff, change, faults>>

RevokeRotated(r) ==
  /\ At(r, "revoke")
  /\ session' = [session EXCEPT ![request[r].token].row = "revoked"]
  /\ Goto(r, "issue")
  /\ UNCHANGED <<user, nonce, failures, cutoff, change, faults>>

lifeRounded(s) == AccessTtl - s.age - 1  \* mutant: rounded down

revokeAccessToken(s) == AccessTtl - s.age

\* logout runs its two writes at once and answers when both are done.
logout(r) ==
  /\ At(r, "logout")
  /\ \E d \in request[r].todo :
       /\ session' = IF d = "rows"
                       THEN RevokeWhere({s \in Requests : session[s].owner = request[r].wallet})
                       ELSE [session EXCEPT ![request[r].token].denied =
                               revokeAccessToken(session[request[r].token])]
       /\ request' = [request EXCEPT
            ![r].todo = @ \ {d},
            ![r].pc = IF request[r].todo = {d} THEN "ok" ELSE "logout"]
  /\ UNCHANGED <<user, nonce, failures, cutoff, change, faults>>

\* PATCH /players/:playerId/status reads the status and writes it in one
\* transaction, which does not lock the row it read.
ReadStatus(c, w, status) ==
  /\ change[c].pc = "new" /\ \A d \in 1..(c - 1) : change[d].pc # "new"
  /\ user[w] \notin {"none", status}
  /\ change' = [change EXCEPT ![c] = [pc |-> "commit", wallet |-> w, status |-> status, age |-> 0]]
  /\ UNCHANGED <<user, nonce, failures, session, cutoff, request, faults>>

\* The sessions are revoked after the transaction, and not when the account is
\* reinstated.
ChangeStatus(c) ==
  LET w == change[c].wallet
      status == change[c].status
  IN
  /\ change[c].pc = "commit"
  /\ user' = [user EXCEPT ![w] = status]
  /\ change' = [change EXCEPT ![c] = IF status = "ACTIVE" THEN Changed ELSE [@ EXCEPT !.pc = "rows"]]
  /\ request' = [q \in Requests |->
       [request[q] EXCEPT !.banned = @ /\ (request[q].wallet = w => status = "BANNED")]]
  /\ UNCHANGED <<nonce, failures, session, cutoff, faults>>

RevokeAllRows(c) ==
  /\ change[c].pc = "rows"
  /\ session' = RevokeWhere({s \in Requests : session[s].owner = change[c].wallet})
  /\ change' = [change EXCEPT ![c].pc = "cutoff"]
  /\ UNCHANGED <<user, nonce, failures, cutoff, request, faults>>

\* The cut-off is the time captured before the rows were revoked, and it
\* replaces whatever cut-off stands.
revokeAllSessions(c) ==
  /\ change[c].pc = "cutoff"
  /\ cutoff' = [cutoff EXCEPT ![change[c].wallet] = [age |-> change[c].age, left |-> 2 * AccessTtl]]
  /\ change' = [change EXCEPT ![c] = Changed]
  /\ UNCHANGED <<user, nonce, failures, session, request, faults>>

\* The transaction fails, or the revocation after it: then the route logs the
\* error and answers, and the ban stays.
ChangeFails(c) ==
  /\ change[c].pc \in {"commit", "rows", "cutoff"} /\ faults < MaxFaults
  /\ change' = [change EXCEPT ![c] = Changed]
  /\ faults' = faults + 1
  /\ UNCHANGED <<user, nonce, failures, session, cutoff, request>>

-----------------------------------------------------------------------------
(* Faults and time *)

Running(r) == request[r].pc \notin {"new", "signing", "ok", "error", "done"}

\* A replica stops under a request; nothing after the last await happens.
Crash(r) ==
  /\ Running(r) /\ faults < MaxFaults
  /\ Goto(r, "error")
  /\ faults' = faults + 1
  /\ UNCHANGED <<user, nonce, failures, session, cutoff, change>>

\* A Redis or Postgres call throws inside verify's try block.
CallThrows(r) ==
  /\ faults < MaxFaults
  /\ request[r].kind = "signin"
  /\ request[r].pc \in {"consume", "find", "create", "issue", "record", "clear"}
  /\ Throw(r)
  /\ faults' = faults + 1
  /\ UNCHANGED <<user, nonce, failures, session, cutoff, change>>

\* A refresh row outlives its access token and then expires.
RowExpires(r) ==
  /\ session[r].row = "live" /\ session[r].age = AccessTtl
  /\ session' = [session EXCEPT ![r].row = "expired"]
  /\ UNCHANGED <<user, nonce, failures, cutoff, request, change, faults>>

Aged(s) ==
  IF s.owner = NoWallet THEN s
  ELSE [s EXCEPT !.age = Least(@ + 1, AccessTtl),
                 !.denied = IF @ > 0 THEN @ - 1 ELSE 0]
Lapse(entry, empty) ==
  CASE entry.left = 0 -> entry
    [] entry.left = 1 -> empty
    [] OTHER -> [entry EXCEPT !.left = @ - 1]

Tick ==
  /\ session' = [r \in Requests |-> Aged(session[r])]
  /\ nonce' = [w \in Wallets |-> Lapse(nonce[w], [id |-> None, left |-> 0])]
  /\ failures' = [w \in Wallets |-> Lapse(failures[w], [count |-> 0, left |-> 0])]
  /\ cutoff' = [w \in Wallets |->
       Lapse([cutoff[w] EXCEPT !.age = IF cutoff[w].left > 0 THEN Least(@ + 1, AccessTtl) ELSE 0],
             [age |-> 0, left |-> 0])]
  /\ change' = [c \in Changes |-> [change[c] EXCEPT
       !.age = IF change[c].pc \in {"rows", "cutoff"} THEN Least(@ + 1, AccessTtl) ELSE @]]
  /\ UNCHANGED <<user, request, faults>>

\* What runs by itself once a request has arrived.
ServerStep(r) ==
  \/ issueNonce(r) \/ VerifyArrives(r) \/ verifyWalletSignature(r)
  \/ upsertWalletOwner(r) \/ CreateOwner(r) \/ connectWallet(r)
  \/ issueSession(r) \/ RecordSession(r) \/ ClearFailures(r)
  \/ recordFailure(r) \/ ExpireFailures(r)
  \/ rotateRefreshToken(r) \/ BurnFamily(r) \/ RevokeRotated(r) \/ logout(r)

AdminStep(c) == ChangeStatus(c) \/ RevokeAllRows(c) \/ revokeAllSessions(c)
=============================================================================
