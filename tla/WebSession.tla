----------------------------- MODULE WebSession -----------------------------
(***************************************************************************)
(* The browser's half of a session, composed with the sign-in service: the *)
(* wallet adapter's account, the session store (memory only), the refresh  *)
(* cookie, and the hooks that start requests and apply their answers.      *)
(***************************************************************************)
EXTENDS AuthService

VARIABLES page,    \* adapter address and the session store
          cookie   \* the refresh cookie: the session whose token it holds
vars == <<serverVars, page, cookie>>

Accounts == Wallets \cup OtherWallets \cup {NoWallet}
Anonymous(p) == [p EXCEPT !.wallet = NoWallet, !.token = None]

Init ==
  /\ ServerInit
  /\ page = [address |-> NoWallet, wallet |-> NoWallet, token |-> None]
  /\ cookie = IF session[1].owner = NoWallet THEN None ELSE 1

-----------------------------------------------------------------------------
(* What the player does *)

\* The wallet connects, disconnects or switches account.  useWalletSession
\* signs the page out when an account goes or another one takes its place.
SelectAccount(a) ==
  /\ page.address # a
  /\ page' = [(IF page.address # NoWallet THEN Anonymous(page) ELSE page) EXCEPT !.address = a]
  /\ UNCHANGED <<serverVars, cookie>>

\* useAuth: nonce, signature, verify.
SignIn(r) ==
  /\ page.address \in Wallets
  /\ postNonce(r, page.address)
  /\ UNCHANGED <<user, nonce, failures, session, cutoff, change, faults, page, cookie>>

\* The adapter signs with the account that is selected now; the player may
\* also decline.
SignMessage(r) ==
  /\ At(r, "signing")
  /\ ~request[r].orphan
  /\ \E pc \in {"lock", "error"} :
       request' = [request EXCEPT ![r].pc = pc,
                                  ![r].valid = page.address = request[r].wallet]
  /\ UNCHANGED <<user, nonce, failures, session, cutoff, change, faults, page, cookie>>

\* The verify call of one request is delivered a second time.
Redelivered(q, r) ==
  /\ request[q].kind = "signin" /\ request[q].pc \notin {"new", "nonce", "signing"}
  /\ request[q].nonce # None
  /\ Arrive(r, [Arriving("signin", "lock", request[q].wallet)
                  EXCEPT !.nonce = request[q].nonce, !.valid = request[q].valid, !.orphan = TRUE])
  /\ UNCHANGED <<user, nonce, failures, session, cutoff, change, faults, page, cookie>>

\* useConnect: a session for the connected address, with no signature.
useConnect(r) ==
  /\ page.address \in Wallets
  /\ postConnect(r, page.address)
  /\ UNCHANGED <<user, nonce, failures, session, cutoff, change, faults, page, cookie>>

\* A reload empties the page and restores the session from the cookie, once.
\* Requests the old page made go on without it.
useSessionRestore(r) ==
  /\ Fresh(r)
  /\ page' = [address |-> NoWallet, wallet |-> NoWallet, token |-> None]
  /\ request' =
       [q \in Requests |->
          IF q # r THEN [request[q] EXCEPT !.orphan = @ \/ request[q].pc \notin {"new", "done"}]
          ELSE postRefresh(cookie)]
  /\ UNCHANGED <<user, nonce, failures, session, cutoff, change, faults, cookie>>

\* Signing out is local to the page: no request is made.
signOut ==
  /\ page.token # None
  /\ page' = Anonymous(page)
  /\ UNCHANGED <<serverVars, cookie>>

\* The logout route, for a client that calls it with the page's token.
LogOut(r) ==
  /\ page.token # None
  /\ postLogout(r, page.token)
  /\ UNCHANGED <<user, nonce, failures, session, cutoff, change, faults, page, cookie>>

-----------------------------------------------------------------------------
(* What the page does by itself *)

OtherAccount == page.wallet # NoWallet /\ page.address # NoWallet /\ page.wallet # page.address

\* The effect that compares the session with the wallet after either changed.
useWalletSession ==
  /\ OtherAccount
  /\ page' = Anonymous(page)
  /\ UNCHANGED <<serverVars, cookie>>


setRefreshCookie(r) == r
clearRefreshCookie == None

\* A 200 answer reaches the page that asked: cookie and session store.
completeAuth(r) ==
  /\ At(r, "ok") /\ ~request[r].orphan
  /\ Done(r)
  /\ IF request[r].kind = "logout"
       THEN cookie' = clearRefreshCookie /\ UNCHANGED page
       ELSE /\ cookie' = setRefreshCookie(r)
            /\ page' = [page EXCEPT !.wallet = session[r].owner, !.token = r]
  /\ UNCHANGED <<user, nonce, failures, session, cutoff, change, faults>>

\* An error, or no answer at all: only useAuth signs the page out.
apiRequestFails(r) ==
  /\ ~request[r].orphan
  /\ \/ At(r, "error") /\ UNCHANGED faults
     \/ At(r, "ok") /\ faults < MaxFaults /\ faults' = faults + 1
  /\ Done(r)
  /\ page' = IF request[r].kind = "signin" THEN Anonymous(page) ELSE page
  /\ UNCHANGED <<user, nonce, failures, session, cutoff, change, cookie>>

\* Nobody is left to hear the answer.
OrphanEnds(r) ==
  /\ request[r].orphan /\ request[r].pc \in {"signing", "ok", "error"}
  /\ Done(r)
  /\ UNCHANGED <<user, nonce, failures, session, cutoff, change, faults, page, cookie>>

-----------------------------------------------------------------------------
Client(r) ==
  \/ SignIn(r) \/ useConnect(r) \/ useSessionRestore(r) \/ LogOut(r)
  \/ \E q \in Requests : Redelivered(q, r)

PageStep(r) == SignMessage(r) \/ completeAuth(r) \/ apiRequestFails(r) \/ OrphanEnds(r)

Admin(c) ==
  \/ \E w \in Wallets, s \in {"ACTIVE", "SHADOWBANNED", "BANNED"} : ReadStatus(c, w, s)
  \/ ChangeFails(c)

Next ==
  \/ \E r \in Requests :
       \/ Client(r)
       \/ PageStep(r)
       \/ ServerStep(r) /\ UNCHANGED <<page, cookie>>
       \/ (Crash(r) \/ CallThrows(r) \/ RowExpires(r)) /\ UNCHANGED <<page, cookie>>
  \/ \E a \in Accounts : SelectAccount(a)
  \/ signOut
  \/ useWalletSession
  \/ \E c \in Changes : (Admin(c) \/ AdminStep(c)) /\ UNCHANGED <<page, cookie>>
  \/ Tick /\ UNCHANGED <<page, cookie>>

\* The event loop runs what has been started, and the clock moves.
Fairness ==
  /\ \A r \in Requests : WF_vars(ServerStep(r) /\ UNCHANGED <<page, cookie>>)
  /\ WF_vars(Tick /\ UNCHANGED <<page, cookie>>)

Spec == Init /\ [][Next]_vars
FairSpec == Spec /\ Fairness

-----------------------------------------------------------------------------
(* Properties *)

TypeOK ==
  /\ \A w \in Wallets :
       /\ user[w] \in {"none", "ACTIVE", "SHADOWBANNED", "BANNED"}
       /\ nonce[w] \in [id : 0..MaxRequests, left : 0..NonceTtl]
       /\ failures[w] \in [count : 0..MaxFailures, left : 0..FailureWindow]
       /\ cutoff[w] \in [age : 0..AccessTtl, left : 0..(2 * AccessTtl)]
  /\ session \in [Requests -> [owner : Accounts, family : 0..MaxRequests,
                               row : {"none", "live", "revoked", "expired"},
                               age : 0..AccessTtl,
                               denied : 0..AccessTtl, nonce : 0..MaxRequests]]
  /\ page.token \in 0..MaxRequests /\ cookie \in 0..MaxRequests
  /\ faults \in 0..MaxFaults

\* A nonce opens at most one session, however often verify is delivered: the
\* consume is atomic and comes before every other check (verifyWalletSignature).
NonceOnce ==
  \A q, r \in Requests :
    q # r /\ session[q].nonce # None => session[q].nonce # session[r].nonce

\* No request gets a session for an account that was banned from before the
\* request arrived until the session was signed: each of the three ways to a
\* session (verify, connect, refresh) refuses it.
BannedGetNothing ==
  \A r \in Requests : session[r].owner # NoWallet => ~(At(r, "record") /\ request[r].banned)

\* However requests are redelivered and interleave with bans and crashes, a
\* nonce opens one session and a banned account none (auth.service.ts).
SessionInv == TypeOK /\ NonceOnce /\ BannedGetNothing

\* A revocation of the owner's sessions that was captured before the cut-off
\* that stands, and is written after it.
LateRevocation(owner) ==
  \E c \in Changes : /\ revokeAllSessions(c) /\ change[c].wallet = owner
                     /\ change[c].age > cutoff[owner].age

\* An access token that authenticate once refused is not accepted again: the
\* denylist entry and the cut-off outlive the token (revokeAccessToken,
\* revokeAllSessions).  The one step that may take a refusal back is that of an
\* older change of the same status, which overlapped a newer one and writes its
\* older cut-off last.
RefusedStaysRefused ==
  [][\A r \in Requests : Issued(r) /\ Refused(r) =>
       Refused(r)' \/ LateRevocation(session[r].owner)]_vars

\* A wallet that is locked out can try again after a while, unless a crash
\* left the counter without its expiry (recordFailure: INCR, then EXPIRE).
LockoutEnds ==
  \A w \in Wallets :
    ~assertNotLockedOut(w) ~> (assertNotLockedOut(w) \/ faults > 0)

=============================================================================
