---------------------------- MODULE ClientProofs ----------------------------
(***************************************************************************)
(* Proofs about what runs on behalf of one client, for every value of the  *)
(* constants: the session (WebSession: AInv, SessionInv and the action     *)
(* property RefusedStaysRefused), the entry fee of a room (EntryFee:       *)
(* BoardInv, FeeInv), the pipeline that puts a transaction on the chain    *)
(* (TxPipeline: PipeInv, SendInv), the breaker in front of an endpoint     *)
(* (CircuitBreaker: CarefulInv, HalfOpenIsCareful), the panel that         *)
(* deposits and withdraws (CustodyPanel: WalletInv, PanelInv), the page    *)
(* that takes a player into a match (MatchLaunch: LaunchInv, OneTicket)    *)
(* and the instructions sent to the program (ArenaClient: CallsInv,        *)
(* CallsFitProgram).                                                       *)
(***************************************************************************)
EXTENDS ArenaClient, WebSession, EntryFee, TxPipeline, CircuitBreaker, CustodyPanel, MatchLaunch,
        SumsProofs, SequenceTheorems

(***************************************************************************)
(* The inductive invariant.                                                *)
(***************************************************************************)

Owners == Wallets \cup {NoWallet}

Steps == {"new", "nonce", "signing", "lock", "consume", "find", "create", "nickname", "issue",
          "record", "clear", "failed", "expire", "rotate", "burn", "revoke", "logout",
          "ok", "error", "done"}

Request == [kind : {"none", "signin", "connect", "refresh", "logout"}, pc : Steps,
            wallet : Owners, nonce : 0..MaxRequests, valid : BOOLEAN, token : 0..MaxRequests,
            todo : SUBSET {"rows", "deny"}, banned : BOOLEAN, orphan : BOOLEAN]

Session == [owner : Owners, family : 0..MaxRequests,
            row : {"none", "live", "revoked", "expired"}, age : 0..AccessTtl,
            denied : 0..AccessTtl, nonce : 0..MaxRequests]

Nonce == [id : 0..MaxRequests, left : 0..NonceTtl]

Counter == [count : 0..MaxFailures, left : 0..FailureWindow]

Cutoff == [age : 0..AccessTtl, left : 0..(2 * AccessTtl)]

Status == {"none", "ACTIVE", "SHADOWBANNED", "BANNED"}

Change == [pc : {"new", "commit", "rows", "cutoff", "done"}, wallet : Owners, status : Status,
           age : 0..AccessTtl]

Typed ==
  /\ user \in [Wallets -> {"none", "ACTIVE", "SHADOWBANNED", "BANNED"}]
  /\ nonce \in [Wallets -> Nonce]
  /\ failures \in [Wallets -> Counter]
  /\ session \in [Requests -> Session]
  /\ cutoff \in [Wallets -> Cutoff]
  /\ request \in [Requests -> Request]
  /\ change \in [Changes -> Change]
  /\ faults \in 0..MaxFaults
  /\ page \in [address : Accounts, wallet : Accounts, token : 0..MaxRequests]
  /\ cookie \in 0..MaxRequests

(* Each route has its own steps.  A request that bears a token is about    *)
(* the token's owner, and one that was banned throughout does not get past *)
(* the look at the account.                                                *)
RequestOK(r) ==
  LET q == request[r] IN
  /\ q.kind = "none" => q.pc \in {"new", "done"}
  /\ q.kind = "signin" =>
       q.pc \in {"nonce", "signing", "lock", "consume", "find", "create", "issue", "record",
                 "clear", "failed", "expire", "ok", "error", "done"}
  /\ q.kind = "connect" =>
       q.pc \in {"find", "create", "nickname", "issue", "record", "ok", "error", "done"}
  /\ q.kind = "refresh" =>
       q.pc \in {"rotate", "burn", "revoke", "issue", "record", "ok", "error", "done"}
  /\ q.kind = "logout" => q.pc \in {"logout", "ok", "error", "done"}
  /\ q.kind # "none" => q.wallet \in Wallets
  /\ q.kind # "signin" => q.nonce = None
  /\ q.kind \in {"refresh", "logout"} /\ q.pc # "done" =>
       q.token \in Requests /\ session[q.token].owner = q.wallet
  /\ q.banned => q.kind # "none" /\ user[q.wallet] = "BANNED"
  /\ q.pc \in {"create", "nickname", "revoke", "issue", "record"} => ~q.banned

(* A session is there once its request is past signing it, it is about the *)
(* nonce the request consumed, and a denylist entry lasts as long as the   *)
(* token.                                                                  *)
SessionOK(r) ==
  LET s == session[r]
      q == request[r]
  IN
  /\ s.owner = NoWallet => s.row = "none" /\ s.nonce = None
  /\ s.owner # NoWallet =>
       q.pc \in {"record", "clear", "failed", "expire", "ok", "error", "done"}
  /\ q.pc \in {"record", "clear"} => s.owner # NoWallet
  /\ q.pc = "ok" /\ q.kind # "logout" => s.owner # NoWallet
  /\ s.nonce # None => s.nonce = q.nonce
  /\ s.denied > 0 => s.age + s.denied = AccessTtl

(* The name of a nonce is taken when it is issued.                         *)
Known(n) == n \in Requests /\ request[n].pc \notin {"new", "nonce"}

(* The nonce of this request has been consumed by it.                      *)
Spent(r) ==
  /\ request[r].nonce # None
  /\ request[r].pc \in {"find", "create", "issue"} \/ session[r].nonce # None

NonceOK ==
  /\ \A r \in Requests : request[r].nonce # None => Known(request[r].nonce)
  /\ \A w \in Wallets : nonce[w].id # None => /\ Known(nonce[w].id)
                                              /\ request[nonce[w].id].wallet = w
  /\ \A r \in Requests, w \in Wallets : Spent(r) => nonce[w].id # request[r].nonce
  /\ \A q, r \in Requests : q # r /\ Spent(q) /\ Spent(r) => request[q].nonce # request[r].nonce

(* A cut-off lasts until every token from before it has expired, however   *)
(* long its revocation took.                                               *)
CutoffOK(w) ==
  cutoff[w].left > 0 =>
    cutoff[w].age = AccessTtl \/ cutoff[w].age + cutoff[w].left >= 2 * AccessTtl

(* A change that is under way is of one wallet, to a status.               *)
ChangeOK(c) ==
  change[c].pc \notin {"new", "done"} =>
    change[c].wallet \in Wallets /\ change[c].status \in {"ACTIVE", "SHADOWBANNED", "BANNED"}

AInv ==
  /\ Typed
  /\ \A r \in Requests : RequestOK(r) /\ SessionOK(r)
  /\ NonceOK
  /\ \A w \in Wallets : CutoffOK(w)
  /\ \A c \in Changes : ChangeOK(c)
  /\ cookie # None => session[cookie].owner # NoWallet

LEMMA Sizes ==
  /\ NoWallet \notin Wallets /\ MaxRequests \in Nat \ {0} /\ AccessTtl \in Nat \ {0}
  /\ NonceTtl \in Nat \ {0} /\ FailureWindow \in Nat \ {0} /\ MaxFailures \in Nat \ {0}
  /\ MaxFaults \in Nat
BY AuthConstants

(***************************************************************************)
(* The sessions.                                                           *)
(***************************************************************************)

(* What a step may do to a session: sign it, change the state of its row,  *)
(* put its token on the denylist, or let time pass.                        *)
Opens(s) ==
  /\ At(s, "issue")
  /\ session'[s].owner = request[s].wallet /\ session'[s].nonce = request[s].nonce
  /\ session'[s].row = "none" /\ session'[s].age = 0 /\ session'[s].denied = 0
  /\ request'[s].pc = "record"

Marks(s) ==
  /\ session[s].owner # NoWallet
  /\ session'[s].owner = session[s].owner /\ session'[s].nonce = session[s].nonce
  /\ session'[s].age = session[s].age /\ session'[s].denied = session[s].denied

Denies(s) ==
  /\ session[s].owner # NoWallet
  /\ session'[s].owner = session[s].owner /\ session'[s].nonce = session[s].nonce
  /\ session'[s].age = session[s].age /\ session'[s].denied = AccessTtl - session[s].age

SessionMoves(s) ==
  \/ session'[s] = session[s] \/ Opens(s) \/ Marks(s) \/ Denies(s)
  \/ Tick /\ session'[s] = Aged(session[s])

SessionsMove == session' \in [Requests -> Session] /\ \A s \in Requests : SessionMoves(s)

LEMMA OneSession ==
  ASSUME Typed, NEW r \in Requests, NEW e \in Session, session' = [session EXCEPT ![r] = e],
         session'[r] = e => SessionMoves(r)
  PROVE  SessionsMove
<1>1. /\ session' \in [Requests -> Session] /\ session'[r] = e
      /\ \A s \in Requests : s # r => session'[s] = session[s]
  BY DEF Typed
<1>2. \A s \in Requests : session'[s] = session[s] => SessionMoves(s)
  BY DEF SessionMoves
<1>3. \A s \in Requests : SessionMoves(s)
  BY <1>1, <1>2
<1>4. QED BY <1>1, <1>3 DEF SessionsMove

LEMMA RowMarks ==
  ASSUME AInv, NEW r \in Requests, session[r].owner # NoWallet,
         NEW row \in {"live", "revoked", "expired"}, session' = [session EXCEPT ![r].row = row]
  PROVE  SessionsMove
<1> DEFINE e == [session[r] EXCEPT !.row = row]
<1>1. session[r] \in Session /\ session' = [session EXCEPT ![r] = e] /\ Typed
  BY DEF AInv, Typed
<1>2. /\ e \in Session /\ e.owner = session[r].owner /\ e.nonce = session[r].nonce
      /\ e.age = session[r].age /\ e.denied = session[r].denied
  BY <1>1 DEF Session
<1> HIDE DEF e
<1>3. session'[r] = e => SessionMoves(r)
  BY <1>2 DEF SessionMoves, Marks
<1>4. QED BY <1>1, <1>2, <1>3, OneSession

LEMMA RevokeMarks ==
  ASSUME AInv, NEW rows, session' = RevokeWhere(rows)
  PROVE  SessionsMove
<1>1. ASSUME NEW s \in Requests
      PROVE  session'[s] \in Session /\ SessionMoves(s)
  <2>1. session[s] \in Session /\ SessionOK(s)
    BY DEF AInv, Typed
  <2>2. CASE session[s].row \in {"live", "expired"} /\ s \in rows
    <3> DEFINE e == [session[s] EXCEPT !.row = "revoked"]
    <3>1. session'[s] = e
      BY <2>2 DEF RevokeWhere
    <3>2. /\ e \in Session /\ e.owner = session[s].owner /\ e.nonce = session[s].nonce
          /\ e.age = session[s].age /\ e.denied = session[s].denied
      BY <2>1 DEF Session
    <3>3. session[s].owner # NoWallet
      BY <2>1, <2>2 DEF SessionOK
    <3> HIDE DEF e
    <3>4. QED BY <3>1, <3>2, <3>3 DEF SessionMoves, Marks
  <2>3. CASE ~(session[s].row \in {"live", "expired"} /\ s \in rows)
    <3>1. session'[s] = session[s]
      BY <2>3 DEF RevokeWhere
    <3>2. QED BY <2>1, <3>1 DEF SessionMoves
  <2>4. QED BY <2>2, <2>3
<1>2. session' \in [Requests -> Session]
  <2>1. DOMAIN session' = Requests /\ session' = [s \in Requests |-> session'[s]]
    BY DEF RevokeWhere
  <2>2. QED BY <1>1, <2>1
<1>3. QED BY <1>1, <1>2 DEF SessionsMove

LEMMA DenyMoves ==
  ASSUME AInv, NEW r \in Requests, session[r].owner # NoWallet,
         session' = [session EXCEPT ![r].denied = revokeAccessToken(session[r])]
  PROVE  SessionsMove
<1> DEFINE d == AccessTtl - session[r].age
           e == [session[r] EXCEPT !.denied = d]
<1>1. session[r] \in Session /\ session' = [session EXCEPT ![r] = e] /\ Typed
  BY DEF AInv, Typed, revokeAccessToken
<1>2. d \in 0..AccessTtl /\ d = AccessTtl - session[r].age
  BY <1>1, Sizes DEF Session
<1> HIDE DEF d
<1>3. /\ e \in Session /\ e.owner = session[r].owner /\ e.nonce = session[r].nonce
      /\ e.age = session[r].age /\ e.denied = d
  BY <1>1, <1>2 DEF Session
<1> HIDE DEF e
<1>4. session'[r] = e => SessionMoves(r)
  BY <1>2, <1>3 DEF SessionMoves, Denies
<1>5. QED BY <1>1, <1>3, <1>4, OneSession

LEMMA TickMoves ==
  ASSUME AInv, Tick
  PROVE  SessionsMove
<1>1. session' = [r \in Requests |-> Aged(session[r])]
  BY DEF Tick
<1>2. ASSUME NEW r \in Requests PROVE Aged(session[r]) \in Session
  <2> DEFINE a == Least(session[r].age + 1, AccessTtl)
             d == IF session[r].denied > 0 THEN session[r].denied - 1 ELSE 0
  <2>1. session[r] \in Session
    BY DEF AInv, Typed
  <2>2. a \in 0..AccessTtl /\ d \in 0..AccessTtl
    BY <2>1, Sizes DEF Session, Least
  <2>3. Aged(session[r]) = IF session[r].owner = NoWallet THEN session[r]
                           ELSE [session[r] EXCEPT !.age = a, !.denied = d]
    BY DEF Aged
  <2> HIDE DEF a, d
  <2>4. QED BY <2>1, <2>2, <2>3 DEF Session
<1>3. QED BY <1>1, <1>2 DEF SessionsMove, SessionMoves

LEMMA RequestParts ==
  ASSUME AInv, NEW r \in Requests
  PROVE  /\ request[r] \in Request /\ session[r] \in Session /\ RequestOK(r) /\ SessionOK(r)
         /\ request[r].kind \in {"none", "signin", "connect", "refresh", "logout"}
         /\ request[r].pc \in Steps /\ request[r].wallet \in Owners
         /\ request[r].nonce \in 0..MaxRequests /\ request[r].token \in 0..MaxRequests
         /\ session[r].owner \in Owners
BY DEF AInv, Typed, Request, Session

LEMMA IssueMoves ==
  ASSUME AInv, NEW r \in Requests, issueSession(r)
  PROVE  SessionsMove
<1> DEFINE w == request[r].wallet
           n == request[r].nonce
           f == IF request[r].kind = "refresh" THEN session[request[r].token].family ELSE r
           e == [NoSession EXCEPT !.owner = w, !.nonce = n, !.family = f]
<1>1. w \in Owners /\ n \in 0..MaxRequests /\ Typed
  BY RequestParts DEF AInv
<1>2. f \in 0..MaxRequests
  <2>1. CASE request[r].kind = "refresh"
    <3>1. request[r].token \in Requests
      BY <2>1, RequestParts DEF RequestOK, issueSession, At
    <3>2. session[request[r].token] \in Session
      BY <3>1, RequestParts
    <3>3. QED BY <2>1, <3>2 DEF Session
  <2>2. CASE request[r].kind # "refresh"
    BY <2>2, Sizes DEF Requests
  <2>3. QED BY <2>1, <2>2
<1>3. session' = [session EXCEPT ![r] = e]
  BY DEF issueSession
<1>4. NoSession \in Session /\ NoSession.row = "none" /\ NoSession.age = 0 /\ NoSession.denied = 0
  BY Sizes DEF NoSession, Session, Owners, None
<1>5. request'[r].pc = "record" /\ At(r, "issue")
  BY <1>1, RequestParts DEF issueSession, Goto, Typed, Request
<1> HIDE DEF f
<1>6. /\ e \in Session /\ e.owner = w /\ e.nonce = n /\ e.row = "none" /\ e.age = 0 /\ e.denied = 0
  BY <1>1, <1>2, <1>4 DEF Session
<1> HIDE DEF e
<1>7. session'[r] = e => SessionMoves(r)
  BY <1>5, <1>6 DEF SessionMoves, Opens
<1>8. QED BY <1>1, <1>3, <1>6, <1>7, OneSession

LEMMA SessionStep ==
  ASSUME AInv, [Next]_vars
  PROVE  SessionsMove
<1>1. ASSUME UNCHANGED session PROVE SessionsMove
  <2>1. \A s \in Requests : session'[s] = session[s]
    BY <1>1
  <2>2. \A s \in Requests : SessionMoves(s)
    BY <2>1 DEF SessionMoves
  <2>3. QED BY <1>1, <2>2 DEF SessionsMove, AInv, Typed
<1>2. ASSUME NEW r \in Requests, RecordSession(r) PROVE SessionsMove
  <2>1. session[r].owner # NoWallet
    BY <1>2, RequestParts DEF RecordSession, At, SessionOK
  <2>2. session' = [session EXCEPT ![r].row = "live"]
    BY <1>2 DEF RecordSession
  <2>3. QED BY <2>1, <2>2, RowMarks
<1>3. ASSUME NEW r \in Requests, BurnFamily(r) PROVE SessionsMove
  BY <1>3, RevokeMarks DEF BurnFamily
<1>4. ASSUME NEW r \in Requests, RevokeRotated(r) PROVE SessionsMove
  <2>1. request[r].kind = "refresh"
    BY <1>4, RequestParts DEF RevokeRotated, At, RequestOK
  <2>2. request[r].token \in Requests /\ session[request[r].token].owner # NoWallet
    BY <1>4, <2>1, RequestParts, Sizes DEF RevokeRotated, At, RequestOK
  <2>3. session' = [session EXCEPT ![request[r].token].row = "revoked"]
    BY <1>4 DEF RevokeRotated
  <2>4. QED BY <2>2, <2>3, RowMarks
<1>5. ASSUME NEW r \in Requests, logout(r) PROVE SessionsMove
  <2>1. request[r].kind = "logout"
    BY <1>5, RequestParts DEF logout, At, RequestOK
  <2>2. request[r].token \in Requests /\ session[request[r].token].owner # NoWallet
    BY <1>5, <2>1, RequestParts, Sizes DEF logout, At, RequestOK
  <2>3. \/ session' = RevokeWhere({s \in Requests : session[s].owner = request[r].wallet})
        \/ session' = [session EXCEPT ![request[r].token].denied =
                                        revokeAccessToken(session[request[r].token])]
    BY <1>5 DEF logout
  <2>4. QED BY <2>2, <2>3, RevokeMarks, DenyMoves
<1>6. ASSUME NEW r \in Requests, RowExpires(r) PROVE SessionsMove
  <2>1. session[r].owner # NoWallet
    BY <1>6, RequestParts DEF RowExpires, SessionOK
  <2>2. session' = [session EXCEPT ![r].row = "expired"]
    BY <1>6 DEF RowExpires
  <2>3. QED BY <2>1, <2>2, RowMarks
<1>7. ASSUME NEW c \in Changes, RevokeAllRows(c) PROVE SessionsMove
  BY <1>7, RevokeMarks DEF RevokeAllRows
<1>8. ASSUME NEW r \in Requests, ServerStep(r)
      PROVE  \/ issueSession(r) \/ RecordSession(r) \/ BurnFamily(r) \/ RevokeRotated(r) \/ logout(r)
             \/ UNCHANGED session
  BY <1>8 DEF ServerStep, issueNonce, VerifyArrives, verifyWalletSignature, upsertWalletOwner,
              CreateOwner, connectWallet, ClearFailures, recordFailure, ExpireFailures,
              rotateRefreshToken
<1>9. ASSUME NEW r \in Requests, Client(r) PROVE UNCHANGED session
  BY <1>9 DEF Client, SignIn, useConnect, useSessionRestore, LogOut, Redelivered, serverVars
<1>10. ASSUME NEW r \in Requests, PageStep(r) PROVE UNCHANGED session
  BY <1>10 DEF PageStep, SignMessage, completeAuth, apiRequestFails, OrphanEnds
<1>11. ASSUME NEW r \in Requests, Crash(r) \/ CallThrows(r) PROVE UNCHANGED session
  BY <1>11 DEF Crash, CallThrows
<1>12. ASSUME NEW a \in Accounts, SelectAccount(a) PROVE UNCHANGED session
  BY <1>12 DEF SelectAccount, serverVars
<1>13. signOut \/ useWalletSession \/ UNCHANGED vars => UNCHANGED session
  BY DEF signOut, useWalletSession, vars, serverVars
<1>14. ASSUME NEW c \in Changes, Admin(c) \/ ChangeStatus(c) \/ revokeAllSessions(c)
       PROVE  UNCHANGED session
  BY <1>14 DEF Admin, ReadStatus, ChangeFails, ChangeStatus, revokeAllSessions
<1>15. QED BY <1>1, <1>2, <1>3, <1>4, <1>5, <1>6, <1>7, <1>8, <1>9, <1>10, <1>11, <1>12, <1>13,
              <1>14, IssueMoves, TickMoves DEF Next, AdminStep

(* A session keeps its owner, and only an unsigned one changes its nonce.  *)
OwnersKept == \A s \in Requests : session[s].owner # NoWallet => session'[s].owner = session[s].owner

LEMMA SessionsKeepOwners ==
  ASSUME AInv, SessionsMove
  PROVE  OwnersKept
<1> SUFFICES ASSUME NEW s \in Requests, session[s].owner # NoWallet
             PROVE  session'[s].owner = session[s].owner
  BY DEF OwnersKept
<1>1. session[s] \in Session /\ SessionOK(s) /\ SessionMoves(s)
  BY RequestParts DEF SessionsMove
<1>2. ~Opens(s)
  BY <1>1 DEF Opens, At, SessionOK
<1>3. Aged(session[s]).owner = session[s].owner
  BY <1>1 DEF Aged, Session
<1>4. QED BY <1>1, <1>2, <1>3 DEF SessionMoves, Marks, Denies

(***************************************************************************)
(* Lockouts, cut-offs and nonces as time passes.                           *)
(***************************************************************************)

LEMMA LapseNonce ==
  ASSUME NEW n \in Nonce
  PROVE  LET m == Lapse(n, [id |-> None, left |-> 0])
         IN  m \in Nonce /\ m.id \in {n.id, None}
<1> DEFINE empty == [id |-> None, left |-> 0]
<1>1. empty \in Nonce /\ empty.id = None
  BY Sizes DEF Nonce, None
<1>2. CASE n.left = 0
  BY <1>2 DEF Lapse
<1>3. CASE n.left = 1
  BY <1>1, <1>3 DEF Lapse
<1>4. CASE n.left # 0 /\ n.left # 1
  <2>1. n.left - 1 \in 0..NonceTtl
    BY <1>4, Sizes DEF Nonce
  <2>2. Lapse(n, empty) = [n EXCEPT !.left = n.left - 1]
    BY <1>4 DEF Lapse
  <2>3. QED BY <2>1, <2>2 DEF Nonce
<1>5. QED BY <1>2, <1>3, <1>4

LEMMA LapseCounter ==
  ASSUME NEW n \in Counter
  PROVE  Lapse(n, [count |-> 0, left |-> 0]) \in Counter
<1> DEFINE empty == [count |-> 0, left |-> 0]
<1>1. empty \in Counter
  BY Sizes DEF Counter
<1>2. CASE n.left = 0
  BY <1>2 DEF Lapse
<1>3. CASE n.left = 1
  BY <1>1, <1>3 DEF Lapse
<1>4. CASE n.left # 0 /\ n.left # 1
  <2>1. n.left - 1 \in 0..FailureWindow
    BY <1>4, Sizes DEF Counter
  <2>2. Lapse(n, empty) = [n EXCEPT !.left = n.left - 1]
    BY <1>4 DEF Lapse
  <2>3. QED BY <2>1, <2>2 DEF Counter
<1>5. QED BY <1>2, <1>3, <1>4

(* A cut-off ages with the tokens and is forgotten at its time.            *)
LEMMA LapseCutoff ==
  ASSUME NEW c \in Cutoff,
         NEW d, d = Lapse([c EXCEPT !.age = IF c.left > 0 THEN Least(c.age + 1, AccessTtl) ELSE 0],
                          [age |-> 0, left |-> 0])
  PROVE  /\ d \in Cutoff
         /\ c.left = 0 => d.left = 0
         /\ c.left > 0 => d.left = c.left - 1
         /\ c.left > 1 => d.age = Least(c.age + 1, AccessTtl)
<1> DEFINE a == IF c.left > 0 THEN Least(c.age + 1, AccessTtl) ELSE 0
           aged == [c EXCEPT !.age = a]
           empty == [age |-> 0, left |-> 0]
<1>1. a \in 0..AccessTtl /\ c.left \in 0..(2 * AccessTtl) /\ d = Lapse(aged, empty)
  BY Sizes DEF Cutoff, Least
<1>2. c.left > 0 => a = Least(c.age + 1, AccessTtl)
  OBVIOUS
<1> HIDE DEF a
<1>3. aged \in Cutoff /\ aged.left = c.left /\ aged.age = a
  BY <1>1 DEF Cutoff
<1>4. empty \in Cutoff /\ empty.left = 0
  BY Sizes DEF Cutoff
<1> HIDE DEF aged, empty
<1>5. CASE c.left = 0
  BY <1>1, <1>3, <1>5 DEF Lapse
<1>6. CASE c.left = 1
  BY <1>1, <1>3, <1>4, <1>6 DEF Lapse
<1>7. CASE c.left # 0 /\ c.left # 1
  <2> DEFINE l == aged.left - 1
  <2>1. l = c.left - 1 /\ l \in 0..(2 * AccessTtl) /\ c.left > 1
    BY <1>1, <1>3, <1>7, Sizes
  <2>2. d = [aged EXCEPT !.left = l]
    BY <1>1, <1>3, <1>7 DEF Lapse
  <2> HIDE DEF l
  <2>3. d \in Cutoff /\ d.left = l /\ d.age = a
    BY <1>3, <2>1, <2>2 DEF Cutoff
  <2>4. QED BY <1>1, <1>2, <1>7, <2>1, <2>3, Sizes
<1>8. QED BY <1>1, <1>5, <1>6, <1>7, Sizes

(***************************************************************************)
(* The cut-offs and the changes of a status.                               *)
(***************************************************************************)

Older(c) ==
  Lapse([c EXCEPT !.age = IF c.left > 0 THEN Least(c.age + 1, AccessTtl) ELSE 0],
        [age |-> 0, left |-> 0])

(* What a step may do to a wallet's cut-off.                               *)
CutsOff(w) ==
  \E c \in Changes :
    /\ revokeAllSessions(c) /\ change[c].wallet = w
    /\ cutoff'[w].age = change[c].age /\ cutoff'[w].left = 2 * AccessTtl

CutoffMoves(w) ==
  \/ cutoff'[w] = cutoff[w] \/ CutsOff(w)
  \/ Tick /\ cutoff'[w] = Older(cutoff[w])

CutoffsOK == cutoff \in [Wallets -> Cutoff] /\ \A w \in Wallets : CutoffOK(w)

ChangesOK == change \in [Changes -> Change] /\ \A c \in Changes : ChangeOK(c)

LEMMA ChangeParts ==
  ASSUME AInv
  PROVE  /\ CutoffsOK /\ ChangesOK
         /\ \A c \in Changes : change[c] \in Change /\ change[c].age \in 0..AccessTtl
BY DEF AInv, Typed, CutoffsOK, ChangesOK, Change

LEMMA ChangeEnds == Changed \in Change /\ Changed.pc = "done"
<1>1. NoChange \in Change
  BY Sizes DEF NoChange, Change, Owners, Status
<1>2. QED BY <1>1 DEF Changed, Change

LEMMA OneChange ==
  ASSUME AInv, NEW c \in Changes, NEW e \in Change, change' = [change EXCEPT ![c] = e],
         e.pc \notin {"new", "done"} =>
           e.wallet \in Wallets /\ e.status \in {"ACTIVE", "SHADOWBANNED", "BANNED"}
  PROVE  ChangesOK'
<1>1. /\ change' \in [Changes -> Change] /\ change'[c] = e
      /\ \A d \in Changes : d # c => change'[d] = change[d]
  BY ChangeParts DEF ChangesOK
<1>2. ASSUME NEW d \in Changes PROVE ChangeOK(d)'
  BY <1>1, ChangeParts DEF ChangeOK, ChangesOK
<1>3. QED BY <1>1, <1>2 DEF ChangesOK

LEMMA ReadStatusOK ==
  ASSUME AInv, NEW c \in Changes, NEW w \in Wallets,
         NEW s \in {"ACTIVE", "SHADOWBANNED", "BANNED"}, ReadStatus(c, w, s)
  PROVE  ChangesOK'
<1> DEFINE e == [pc |-> "commit", wallet |-> w, status |-> s, age |-> 0]
<1>1. change' = [change EXCEPT ![c] = e]
  BY DEF ReadStatus
<1>2. e \in Change /\ e.wallet = w /\ e.status = s
  BY Sizes DEF Change, Owners, Status
<1> HIDE DEF e
<1>3. QED BY <1>1, <1>2, OneChange

LEMMA ChangeStepOK ==
  ASSUME AInv, NEW c \in Changes,
         ChangeStatus(c) \/ RevokeAllRows(c) \/ revokeAllSessions(c) \/ ChangeFails(c)
  PROVE  ChangesOK'
<1>1. ASSUME change' = [change EXCEPT ![c] = Changed] PROVE ChangesOK'
  BY <1>1, ChangeEnds, OneChange
<1>2. ASSUME NEW pc \in {"rows", "cutoff"}, change[c].pc \notin {"new", "done"},
             change' = [change EXCEPT ![c].pc = pc]
      PROVE  ChangesOK'
  <2> DEFINE e == [change[c] EXCEPT !.pc = pc]
  <2>1. /\ change[c].wallet \in Wallets
        /\ change[c].status \in {"ACTIVE", "SHADOWBANNED", "BANNED"}
        /\ change[c] \in Change
    BY <1>2, ChangeParts DEF ChangesOK, ChangeOK
  <2>2. e \in Change /\ e.wallet = change[c].wallet /\ e.status = change[c].status
    BY <2>1 DEF Change
  <2>3. change' = [change EXCEPT ![c] = e]
    BY <1>2
  <2> HIDE DEF e
  <2>4. QED BY <2>1, <2>2, <2>3, OneChange
<1>3. CASE ChangeStatus(c)
  <2>1. change[c].pc = "commit"
    BY <1>3 DEF ChangeStatus
  <2>2. \/ change' = [change EXCEPT ![c] = Changed]
        \/ change' = [change EXCEPT ![c].pc = "rows"]
    <3>1. CASE change[c].status = "ACTIVE"
      BY <1>3, <3>1 DEF ChangeStatus
    <3>2. CASE change[c].status # "ACTIVE"
      BY <1>3, <3>2 DEF ChangeStatus
    <3>3. QED BY <3>1, <3>2
  <2>3. QED BY <1>1, <1>2, <2>1, <2>2
<1>4. CASE RevokeAllRows(c)
  BY <1>2, <1>4 DEF RevokeAllRows
<1>5. CASE revokeAllSessions(c) \/ ChangeFails(c)
  BY <1>1, <1>5 DEF revokeAllSessions, ChangeFails
<1>6. QED BY <1>3, <1>4, <1>5

LEMMA CutoffsStay ==
  ASSUME AInv, UNCHANGED cutoff
  PROVE  CutoffsOK' /\ \A w \in Wallets : CutoffMoves(w)
<1>1. CutoffsOK
  BY ChangeParts
<1>2. ASSUME NEW w \in Wallets PROVE CutoffOK(w)'
  BY <1>1 DEF CutoffsOK, CutoffOK
<1>3. QED BY <1>1, <1>2 DEF CutoffsOK, CutoffMoves

LEMMA RevocationCuts ==
  ASSUME AInv, NEW c \in Changes, revokeAllSessions(c)
  PROVE  CutoffsOK' /\ \A w \in Wallets : CutoffMoves(w)
<1> DEFINE v == change[c].wallet
           e == [age |-> change[c].age, left |-> 2 * AccessTtl]
<1>1. v \in Wallets /\ cutoff' = [cutoff EXCEPT ![v] = e]
  BY ChangeParts DEF ChangesOK, ChangeOK, revokeAllSessions
<1>2. e \in Cutoff /\ e.age = change[c].age /\ e.left = 2 * AccessTtl
  BY ChangeParts, Sizes DEF Cutoff
<1> HIDE DEF e
<1>3. /\ cutoff' \in [Wallets -> Cutoff] /\ cutoff'[v] = e
      /\ \A w \in Wallets : w # v => cutoff'[w] = cutoff[w]
  BY <1>1, <1>2, ChangeParts DEF CutoffsOK
<1>4. ASSUME NEW w \in Wallets PROVE CutoffOK(w)' /\ CutoffMoves(w)
  <2>1. CASE w = v
    <3>1. CutoffMoves(w)
      BY <1>2, <1>3, <2>1 DEF CutoffMoves, CutsOff
    <3>2. e.age + e.left >= 2 * AccessTtl
      BY <1>2, ChangeParts, Sizes
    <3>3. QED BY <1>3, <2>1, <3>1, <3>2 DEF CutoffOK
  <2>2. CASE w # v
    BY <1>3, <2>2, ChangeParts DEF CutoffOK, CutoffMoves, CutoffsOK
  <2>3. QED BY <2>1, <2>2
<1>5. QED BY <1>3, <1>4 DEF CutoffsOK

LEMMA TickChanges ==
  ASSUME AInv, Tick
  PROVE  ChangesOK'
<1>1. change' = [c \in Changes |-> [change[c] EXCEPT
        !.age = IF change[c].pc \in {"rows", "cutoff"} THEN Least(change[c].age + 1, AccessTtl)
                ELSE change[c].age]]
  BY DEF Tick
<1>2. ASSUME NEW c \in Changes PROVE change'[c] \in Change /\ ChangeOK(c)'
  <2> DEFINE g == IF change[c].pc \in {"rows", "cutoff"} THEN Least(change[c].age + 1, AccessTtl)
                  ELSE change[c].age
  <2>1. change[c] \in Change /\ ChangeOK(c) /\ g \in 0..AccessTtl
    BY ChangeParts, Sizes DEF ChangesOK, Least
  <2>2. change'[c] = [change[c] EXCEPT !.age = g]
    BY <1>1
  <2> HIDE DEF g
  <2>3. /\ change'[c] \in Change /\ change'[c].pc = change[c].pc
        /\ change'[c].wallet = change[c].wallet /\ change'[c].status = change[c].status
    BY <2>1, <2>2 DEF Change
  <2>4. QED BY <2>1, <2>3 DEF ChangeOK
<1>3. change' \in [Changes -> Change]
  BY <1>1, <1>2
<1>4. QED BY <1>2, <1>3 DEF ChangesOK

LEMMA TickCuts ==
  ASSUME AInv, Tick
  PROVE  CutoffsOK' /\ \A w \in Wallets : CutoffMoves(w)
<1>1. cutoff' = [w \in Wallets |-> Older(cutoff[w])]
  BY DEF Tick, Older
<1>2. ASSUME NEW w \in Wallets
      PROVE  Older(cutoff[w]) \in Cutoff /\ CutoffOK(w)' /\ CutoffMoves(w)
  <2> DEFINE c == cutoff[w]
             d == Older(cutoff[w])
  <2>1. c \in Cutoff /\ CutoffOK(w) /\ cutoff'[w] = d
    BY <1>1, ChangeParts DEF CutoffsOK
  <2>2. CutoffMoves(w)
    BY <2>1 DEF CutoffMoves
  <2>3. /\ d \in Cutoff
        /\ c.left = 0 => d.left = 0
        /\ c.left > 0 => d.left = c.left - 1
        /\ c.left > 1 => d.age = Least(c.age + 1, AccessTtl)
    BY <2>1, LapseCutoff DEF Older
  <2>4. c.age \in 0..AccessTtl /\ c.left \in 0..(2 * AccessTtl)
    BY <2>1 DEF Cutoff
  <2> HIDE DEF d
  <2>5. ASSUME d.left > 0
        PROVE  d.age = AccessTtl \/ d.age + d.left >= 2 * AccessTtl
    BY <2>1, <2>3, <2>4, <2>5, Sizes DEF CutoffOK, Least
  <2>6. QED BY <2>1, <2>2, <2>3, <2>5 DEF CutoffOK, d
<1>3. cutoff' \in [Wallets -> Cutoff]
  BY <1>1, <1>2
<1>4. QED BY <1>2, <1>3 DEF CutoffsOK

LEMMA CutoffStep ==
  ASSUME AInv, [Next]_vars
  PROVE  CutoffsOK' /\ ChangesOK' /\ \A w \in Wallets : CutoffMoves(w)
<1> DEFINE Cut == CutoffsOK' /\ \A w \in Wallets : CutoffMoves(w)
           Good == Cut /\ ChangesOK'
<1>1. ASSUME UNCHANGED <<cutoff, change>> PROVE Good
  <2>1. ASSUME NEW c \in Changes PROVE ChangeOK(c)'
    BY <1>1, ChangeParts DEF ChangesOK, ChangeOK
  <2>2. QED BY <1>1, <2>1, CutoffsStay, ChangeParts DEF ChangesOK
<1>2. ASSUME NEW c \in Changes, Admin(c) PROVE Good
  <2>1. UNCHANGED cutoff
    BY <1>2 DEF Admin, ReadStatus, ChangeFails
  <2>2. ChangesOK'
    BY <1>2, ReadStatusOK, ChangeStepOK DEF Admin
  <2>3. QED BY <2>1, <2>2, CutoffsStay
<1>3. ASSUME NEW c \in Changes, AdminStep(c) PROVE Good
  <2>1. ChangesOK'
    BY <1>3, ChangeStepOK DEF AdminStep
  <2>2. revokeAllSessions(c) \/ UNCHANGED cutoff
    BY <1>3 DEF AdminStep, ChangeStatus, RevokeAllRows
  <2>3. QED BY <2>1, <2>2, CutoffsStay, RevocationCuts
<1>4. Tick => Good
  BY TickCuts, TickChanges
<1> HIDE DEF Good
<1>5. ASSUME NEW r \in Requests, ServerStep(r) PROVE UNCHANGED <<cutoff, change>>
  BY <1>5 DEF ServerStep, issueNonce, VerifyArrives, verifyWalletSignature, upsertWalletOwner,
              CreateOwner, connectWallet, issueSession, RecordSession, ClearFailures,
              recordFailure, ExpireFailures, rotateRefreshToken, BurnFamily, RevokeRotated, logout
<1>6. ASSUME NEW r \in Requests, Client(r) PROVE UNCHANGED <<cutoff, change>>
  BY <1>6 DEF Client, SignIn, useConnect, useSessionRestore, LogOut, Redelivered
<1>7. ASSUME NEW r \in Requests, PageStep(r) PROVE UNCHANGED <<cutoff, change>>
  BY <1>7 DEF PageStep, SignMessage, completeAuth, apiRequestFails, OrphanEnds
<1>8. ASSUME NEW r \in Requests, Crash(r) \/ CallThrows(r) \/ RowExpires(r)
      PROVE  UNCHANGED <<cutoff, change>>
  BY <1>8 DEF Crash, CallThrows, RowExpires
<1>9. ASSUME NEW a \in Accounts, SelectAccount(a) PROVE UNCHANGED <<cutoff, change>>
  BY <1>9 DEF SelectAccount, serverVars
<1>10. signOut \/ useWalletSession \/ UNCHANGED vars => UNCHANGED <<cutoff, change>>
  BY DEF signOut, useWalletSession, vars, serverVars
<1>11. Good
  BY <1>1, <1>2, <1>3, <1>4, <1>5, <1>6, <1>7, <1>8, <1>9, <1>10 DEF Next
<1>12. QED BY <1>11 DEF Good

(***************************************************************************)
(* A refused token.                                                        *)
(***************************************************************************)

(* With the age of the token and the time its denial and its owner's       *)
(* cut-off have left, spelled out.                                         *)
LEMMA RefusedStep ==
  ASSUME AInv, [Next]_vars, NEW r \in Requests, Issued(r), Refused(r)
  PROVE  Refused(r)' \/ LateRevocation(session[r].owner)
<1> DEFINE w == session[r].owner
           age == session[r].age
           denied == session[r].denied
           c == cutoff[w]
<1>1. session[r] \in Session /\ SessionOK(r) /\ w \in Wallets
  BY RequestParts DEF Issued, SessionOK, Owners
<1>2. c \in Cutoff /\ CutoffOK(w)
  BY <1>1, ChangeParts DEF CutoffsOK
<1>3. /\ age \in 0..AccessTtl /\ denied \in 0..AccessTtl
      /\ c.age \in 0..AccessTtl /\ c.left \in 0..(2 * AccessTtl)
  BY <1>1, <1>2 DEF Session, Cutoff
<1>4. session'[r].owner = w /\ ~Opens(r)
  BY <1>1, SessionStep, SessionsKeepOwners, Sizes DEF OwnersKept, Opens, At, SessionOK
<1>5. age >= AccessTtl \/ denied > 0 \/ (c.left > 0 /\ age > c.age)
  BY DEF Refused, isBeforeCutoff
<1>6. ASSUME \/ session'[r].age >= AccessTtl \/ session'[r].denied > 0
             \/ cutoff'[w].left > 0 /\ session'[r].age > cutoff'[w].age
      PROVE  Refused(r)'
  BY <1>4, <1>6 DEF Refused, isBeforeCutoff
<1>7. CASE Tick
  <2>1. session'[r] = Aged(session[r]) /\ cutoff'[w] = Older(c)
    BY <1>1, <1>7 DEF Tick, Older
  <2>2. /\ session'[r].age = Least(age + 1, AccessTtl)
        /\ denied > 0 => session'[r].denied = denied - 1
    BY <1>1, <2>1, Sizes DEF Aged, Session
  <2>3. /\ c.left > 0 => cutoff'[w].left = c.left - 1
        /\ c.left > 1 => cutoff'[w].age = Least(c.age + 1, AccessTtl)
    BY <1>2, <2>1, LapseCutoff DEF Older
  <2>4. denied > 0 => age + denied = AccessTtl
    BY <1>1 DEF SessionOK
  <2>5. c.left > 0 => c.age = AccessTtl \/ c.age + c.left >= 2 * AccessTtl
    BY <1>2 DEF CutoffOK
  <2> HIDE DEF w, age, denied, c
  <2>6. CASE age >= AccessTtl
    BY <1>3, <1>6, <2>2, <2>6, Sizes DEF Least
  <2>7. CASE denied > 0
    BY <1>3, <1>6, <2>2, <2>4, <2>7, Sizes DEF Least
  <2>8. CASE c.left > 0 /\ age > c.age
    <3>1. c.left > 1
      BY <1>3, <2>5, <2>8, Sizes
    <3>2. session'[r].age >= AccessTtl \/ session'[r].age > cutoff'[w].age
      BY <1>3, <2>2, <2>3, <2>8, <3>1, Sizes DEF Least
    <3>3. cutoff'[w].left > 0
      BY <1>3, <2>3, <3>1, Sizes
    <3>4. QED BY <1>6, <3>2, <3>3
  <2>9. QED BY <1>5, <2>6, <2>7, <2>8
<1>8. CASE ~Tick
  <2>1. /\ session'[r].age = age
        /\ denied > 0 => session'[r].denied > 0
    <3>1. SessionMoves(r)
      BY SessionStep DEF SessionsMove
    <3>2. denied > 0 => age + denied = AccessTtl
      BY <1>1 DEF SessionOK
    <3>3. Denies(r) => session'[r].age = age /\ session'[r].denied = AccessTtl - age
      BY DEF Denies
    <3>4. Marks(r) => session'[r].age = age /\ session'[r].denied = denied
      BY DEF Marks
    <3>5. QED BY <1>3, <1>4, <1>8, <3>1, <3>2, <3>3, <3>4, Sizes DEF SessionMoves
  <2>2. c.left > 0 /\ age > c.age => \/ cutoff'[w].left > 0 /\ age > cutoff'[w].age
                                    \/ LateRevocation(w)
    <3>1. CutoffMoves(w)
      BY <1>1, CutoffStep
    <3>2. CASE cutoff'[w] = c
      BY <3>2
    <3>3. CASE CutsOff(w)
      <4>1. PICK d \in Changes : /\ revokeAllSessions(d) /\ change[d].wallet = w
                                 /\ cutoff'[w].age = change[d].age
                                 /\ cutoff'[w].left = 2 * AccessTtl
        BY <3>3 DEF CutsOff
      <4>2. change[d].age > c.age => LateRevocation(w)
        BY <4>1 DEF LateRevocation
      <4>3. change[d].age \in 0..AccessTtl
        BY ChangeParts
      <4>4. QED BY <1>3, <4>1, <4>2, <4>3, Sizes
    <3>4. QED BY <1>8, <3>1, <3>2, <3>3 DEF CutoffMoves
  <2>3. QED BY <1>5, <1>6, <2>1, <2>2
<1>9. QED BY <1>7, <1>8

(***************************************************************************)
(* The accounts.                                                           *)
(***************************************************************************)

(* Only the administrator lifts a ban.                                     *)
UsersKept == \A w \in Wallets : user[w] = "BANNED" => user'[w] = "BANNED"

LEMMA UserStep ==
  ASSUME AInv, [Next]_vars
  PROVE  /\ user' \in [Wallets -> Status]
         /\ UsersKept \/ \E c \in Changes : ChangeStatus(c)
<1> DEFINE Good == user' \in [Wallets -> Status] /\ UsersKept
<1>t. user \in [Wallets -> Status]
  BY DEF AInv, Typed, Status
<1>1. ASSUME UNCHANGED user PROVE Good
  BY <1>t, <1>1 DEF UsersKept
<1>2. ASSUME NEW r \in Requests, CreateOwner(r) PROVE Good
  <2>1. \/ UNCHANGED user
        \/ user[request[r].wallet] = "none" /\ user' = [user EXCEPT ![request[r].wallet] = "ACTIVE"]
    BY <1>2 DEF CreateOwner
  <2>2. QED BY <1>t, <1>1, <2>1 DEF UsersKept, Status
<1>3. ASSUME NEW c \in Changes, ChangeStatus(c)
      PROVE  user' \in [Wallets -> Status]
  <2>1. change[c].status \in Status /\ user' = [user EXCEPT ![change[c].wallet] = change[c].status]
    BY <1>3, ChangeParts DEF ChangeStatus, Change
  <2>2. QED BY <1>t, <2>1
<1>4. ASSUME NEW r \in Requests, ServerStep(r) PROVE CreateOwner(r) \/ UNCHANGED user
  BY <1>4 DEF ServerStep, issueNonce, VerifyArrives, verifyWalletSignature, upsertWalletOwner,
              connectWallet, issueSession, RecordSession, ClearFailures,
              recordFailure, ExpireFailures, rotateRefreshToken, BurnFamily, RevokeRotated, logout
<1>5. ASSUME NEW r \in Requests, Client(r) PROVE UNCHANGED user
  BY <1>5 DEF Client, SignIn, useConnect, useSessionRestore, LogOut, Redelivered
<1>6. ASSUME NEW r \in Requests, PageStep(r) PROVE UNCHANGED user
  BY <1>6 DEF PageStep, SignMessage, completeAuth, apiRequestFails, OrphanEnds
<1>7. ASSUME NEW r \in Requests, Crash(r) \/ CallThrows(r) \/ RowExpires(r) PROVE UNCHANGED user
  BY <1>7 DEF Crash, CallThrows, RowExpires
<1>8. ASSUME NEW a \in Accounts, SelectAccount(a) PROVE UNCHANGED user
  BY <1>8 DEF SelectAccount, serverVars
<1>9. signOut \/ useWalletSession \/ UNCHANGED vars => UNCHANGED user
  BY DEF signOut, useWalletSession, vars, serverVars
<1>10. ASSUME NEW c \in Changes, Admin(c) \/ RevokeAllRows(c) \/ revokeAllSessions(c)
       PROVE  UNCHANGED user
  BY <1>10 DEF Admin, ReadStatus, ChangeFails, RevokeAllRows, revokeAllSessions
<1>h. Tick => UNCHANGED user
  BY DEF Tick
<1> HIDE DEF Good
<1>11. Good \/ \E c \in Changes : ChangeStatus(c)
  BY <1>1, <1>2, <1>4, <1>5, <1>6, <1>7, <1>8, <1>9, <1>10, <1>h DEF Next, AdminStep
<1>12. QED BY <1>3, <1>11 DEF Good

(***************************************************************************)
(* The requests.                                                           *)
(***************************************************************************)

Fine(r) == RequestOK(r) /\ SessionOK(r)

RequestsOK == request \in [Requests -> Request] /\ \A r \in Requests : Fine(r)

(* A request that takes no new nonce and consumes none.                    *)
Calm(q) ==
  /\ request[q].pc \notin {"new", "nonce"} =>
       request'[q].pc \notin {"new", "nonce"} /\ request'[q].wallet = request[q].wallet
  /\ request'[q].nonce # None => \E p \in Requests : request[p].nonce = request'[q].nonce
  /\ Spent(q)' => Spent(q) /\ request'[q].nonce = request[q].nonce

(* Unless it is signed in this step, a session keeps what it says.         *)
LEMMA SessionFacts ==
  ASSUME AInv, [Next]_vars, NEW q \in Requests, ~Opens(q)
  PROVE  /\ session'[q].owner = session[q].owner /\ session'[q].nonce = session[q].nonce
         /\ session[q].owner = NoWallet => session'[q].row = "none" /\ session'[q].nonce = None
         /\ session'[q].denied > 0 => session'[q].age + session'[q].denied = AccessTtl
<1>1. session[q] \in Session /\ SessionOK(q) /\ SessionMoves(q)
  BY RequestParts, SessionStep DEF SessionsMove
<1>2. /\ session[q].age \in 0..AccessTtl /\ session[q].denied \in 0..AccessTtl
      /\ session[q].denied > 0 => session[q].age + session[q].denied = AccessTtl
      /\ session[q].owner = NoWallet => session[q].row = "none" /\ session[q].nonce = None
  BY <1>1 DEF Session, SessionOK
<1>3. CASE session'[q] = session[q]
  BY <1>2, <1>3
<1>4. CASE Marks(q)
  BY <1>2, <1>4 DEF Marks
<1>5. CASE Denies(q)
  BY <1>2, <1>5, Sizes DEF Denies
<1>6. CASE session'[q] = Aged(session[q])
  <2>1. CASE session[q].owner = NoWallet
    BY <1>2, <1>6, <2>1 DEF Aged
  <2>2. CASE session[q].owner # NoWallet
    <3>1. /\ session'[q].owner = session[q].owner /\ session'[q].nonce = session[q].nonce
          /\ session'[q].age = Least(session[q].age + 1, AccessTtl)
          /\ session'[q].denied = IF session[q].denied > 0 THEN session[q].denied - 1 ELSE 0
      BY <1>1, <1>6, <2>2 DEF Aged, Session
    <3>2. session'[q].denied > 0 => session'[q].age + session'[q].denied = AccessTtl
      BY <1>2, <3>1, Sizes DEF Least
    <3>3. QED BY <2>2, <3>1, <3>2
  <2>3. QED BY <2>1, <2>2
<1>7. QED BY <1>1, <1>3, <1>4, <1>5, <1>6 DEF SessionMoves

LEMMA NextKeepsOwners ==
  ASSUME AInv, [Next]_vars
  PROVE  OwnersKept
BY SessionStep, SessionsKeepOwners

(* A token's owner and a banned account stay what a request knows of them. *)
LEMMA ClaimsKept ==
  ASSUME AInv, [Next]_vars, NEW q \in Requests
  PROVE  /\ request[q].kind \in {"refresh", "logout"} /\ request[q].pc # "done" =>
              request[q].token \in Requests /\ session'[request[q].token].owner = request[q].wallet
         /\ UsersKept /\ request[q].banned => user'[request[q].wallet] = "BANNED"
<1>1. RequestOK(q) /\ OwnersKept
  BY RequestParts, NextKeepsOwners
<1>2. QED BY <1>1, Sizes DEF RequestOK, OwnersKept, UsersKept

LEMMA StillFine ==
  ASSUME AInv, [Next]_vars, UsersKept, NEW q \in Requests, request'[q] = request[q]
  PROVE  Fine(q)' /\ Calm(q)
<1>1. Fine(q) /\ ~Opens(q)
  BY RequestParts DEF Fine, Opens, At
<1>2. RequestOK(q)'
  BY <1>1, ClaimsKept DEF Fine, RequestOK
<1>3. SessionOK(q)'
  BY <1>1, SessionFacts DEF Fine, SessionOK
<1>4. Calm(q)
  BY <1>1, SessionFacts DEF Calm, Spent
<1>5. QED BY <1>2, <1>3, <1>4 DEF Fine

LEMMA OneRequest ==
  ASSUME AInv, [Next]_vars, UsersKept, NEW r \in Requests, NEW e \in Request,
         request' = [request EXCEPT ![r] = e], request'[r] = e => Fine(r)'
  PROVE  /\ RequestsOK' /\ request'[r] = e
         /\ \A q \in Requests : q # r => request'[q] = request[q] /\ Calm(q)
<1>1. /\ request' \in [Requests -> Request] /\ request'[r] = e
      /\ \A q \in Requests : q # r => request'[q] = request[q]
  BY DEF AInv, Typed
<1>2. \A q \in Requests : q # r => Fine(q)' /\ Calm(q)
  BY <1>1, StillFine
<1>3. QED BY <1>1, <1>2 DEF RequestsOK

AllCalm == RequestsOK' /\ \A q \in Requests : Calm(q)

(* The request is at another step and the same otherwise.                  *)
Gone(r, pc) ==
  /\ request'[r].pc = pc
  /\ request'[r].kind = request[r].kind /\ request'[r].wallet = request[r].wallet
  /\ request'[r].nonce = request[r].nonce /\ request'[r].token = request[r].token
  /\ request'[r].banned = request[r].banned

LEMMA GotoMoves ==
  ASSUME AInv, [Next]_vars, UsersKept, NEW r \in Requests, NEW pc \in Steps, Goto(r, pc),
         Gone(r, pc) => Fine(r)'
  PROVE  /\ RequestsOK' /\ Gone(r, pc)
         /\ \A q \in Requests : q # r => request'[q] = request[q] /\ Calm(q)
<1> DEFINE e == [request[r] EXCEPT !.pc = pc]
<1>1. request[r] \in Request /\ request' = [request EXCEPT ![r] = e]
  BY RequestParts DEF Goto
<1>2. /\ e \in Request /\ e.pc = pc /\ e.kind = request[r].kind /\ e.wallet = request[r].wallet
      /\ e.nonce = request[r].nonce /\ e.token = request[r].token /\ e.banned = request[r].banned
  BY <1>1 DEF Request
<1> HIDE DEF e
<1>3. request'[r] = e => Gone(r, pc)
  BY <1>2 DEF Gone
<1>4. QED BY <1>1, <1>2, <1>3, OneRequest

LEMMA GotoCalm ==
  ASSUME AInv, [Next]_vars, UsersKept, NEW r \in Requests, NEW pc \in Steps, Goto(r, pc),
         Gone(r, pc) => Fine(r)' /\ Calm(r)
  PROVE  AllCalm
BY GotoMoves DEF AllCalm

(* A request that fails.                                                   *)
LEMMA Fails ==
  ASSUME AInv, [Next]_vars, UsersKept, NEW r \in Requests, NEW pc, pc \in {"failed", "error"},
         request[r].pc \notin {"new", "nonce", "done"} \/ (request[r].pc = "nonce" /\ pc = "error"),
         pc = "failed" => request[r].kind = "signin",
         Goto(r, pc)
  PROVE  AllCalm
<1>1. pc \in Steps
  BY DEF Steps
<1>2. ASSUME Gone(r, pc) PROVE Fine(r)' /\ Calm(r)
  <2>1. RequestOK(r) /\ SessionOK(r) /\ request[r].pc # "done" /\ ~Opens(r)
    BY <1>2, RequestParts DEF Gone, Opens
  <2>2. RequestOK(r)'
    BY <1>2, <2>1, ClaimsKept, RequestParts DEF Gone, RequestOK
  <2>3. SessionOK(r)'
    BY <1>2, <2>1, SessionFacts DEF Gone, SessionOK
  <2>4. Calm(r)
    BY <1>2, <2>1, SessionFacts DEF Gone, Calm, Spent
  <2>5. QED BY <2>2, <2>3, <2>4 DEF Fine
<1>3. QED BY <1>1, <1>2, GotoCalm

LEMMA ThrowCalm ==
  ASSUME AInv, [Next]_vars, UsersKept, NEW r \in Requests,
         request[r].pc \notin {"new", "nonce", "done"}, Throw(r)
  PROVE  AllCalm
<1> DEFINE pc == IF request[r].kind = "signin" THEN "failed" ELSE "error"
<1>1. Goto(r, pc)
  BY DEF Throw
<1>2. pc \in {"failed", "error"} /\ (pc = "failed" => request[r].kind = "signin")
  OBVIOUS
<1> HIDE DEF pc
<1>3. QED BY <1>1, <1>2, Fails

(* A request on its way to a session.                                      *)
Walks(r, pc) ==
  /\ request[r].pc \in {"lock", "find", "create", "nickname", "rotate", "revoke"}
  /\ pc \in {"consume", "create", "nickname", "issue", "burn", "revoke"}
  /\ pc = "consume" => request[r].kind = "signin"
  /\ pc = "create" => request[r].kind \in {"signin", "connect"}
  /\ pc = "nickname" => request[r].kind = "connect"
  /\ pc = "issue" => request[r].kind \in {"signin", "connect", "refresh"}
  /\ pc \in {"burn", "revoke"} => request[r].kind = "refresh"
  /\ pc # "consume" /\ pc # "burn" => ~request[r].banned
  /\ pc \in {"create", "issue"} /\ request[r].kind = "signin" =>
       request[r].pc \in {"find", "create"}

LEMMA WalkCalm ==
  ASSUME AInv, [Next]_vars, UsersKept, NEW r \in Requests, NEW pc, Walks(r, pc), Goto(r, pc)
  PROVE  AllCalm
<1>1. pc \in Steps
  BY DEF Walks, Steps
<1>2. ASSUME Gone(r, pc) PROVE Fine(r)' /\ Calm(r)
  <2>1. /\ RequestOK(r) /\ SessionOK(r) /\ ~Opens(r)
        /\ session[r].owner = NoWallet /\ request[r].kind # "none"
    BY <1>2, RequestParts DEF Gone, Opens, Walks, SessionOK, RequestOK
  <2>2. RequestOK(r)'
    BY <1>2, <2>1, ClaimsKept, RequestParts DEF Gone, RequestOK, Walks
  <2>3. SessionOK(r)'
    BY <1>2, <2>1, SessionFacts DEF Gone, SessionOK, Walks
  <2>4. Calm(r)
    BY <1>2, <2>1, SessionFacts DEF Gone, Calm, Spent, Walks, RequestOK, SessionOK
  <2>5. QED BY <2>2, <2>3, <2>4 DEF Fine
<1>3. QED BY <1>1, <1>2, GotoCalm

(* A request that has its session, or fails without one.                   *)
LEMMA IssueCalm ==
  ASSUME AInv, [Next]_vars, UsersKept, NEW r \in Requests, issueSession(r)
  PROVE  AllCalm
<1>1. Goto(r, "record") /\ "record" \in Steps /\ request[r].pc = "issue"
  BY DEF issueSession, At, Steps
<1>2. ASSUME Gone(r, "record") PROVE Fine(r)' /\ Calm(r)
  <2>1. RequestOK(r) /\ SessionOK(r) /\ request[r].wallet \in Wallets
    BY <1>1, RequestParts DEF RequestOK
  <2>2. session'[r].owner = request[r].wallet /\ session'[r].nonce = request[r].nonce
        /\ session'[r].denied = 0
    <3> DEFINE f == IF request[r].kind = "refresh" THEN session[request[r].token].family ELSE r
               e == [NoSession EXCEPT !.owner = request[r].wallet, !.nonce = request[r].nonce,
                                      !.family = f]
    <3>1. session' = [session EXCEPT ![r] = e] /\ session \in [Requests -> Session]
      BY DEF issueSession, AInv, Typed
    <3>2. NoSession \in Session /\ NoSession.denied = 0
      BY Sizes DEF NoSession, Session, Owners, None
    <3> HIDE DEF f
    <3>3. e.owner = request[r].wallet /\ e.nonce = request[r].nonce /\ e.denied = 0
      BY <3>2 DEF Session
    <3> HIDE DEF e
    <3>4. QED BY <3>1, <3>3
  <2>3. RequestOK(r)'
    BY <1>1, <1>2, <2>1, ClaimsKept, RequestParts DEF Gone, RequestOK
  <2>4. SessionOK(r)'
    BY <1>1, <1>2, <2>1, <2>2, Sizes DEF Gone, SessionOK
  <2>5. Calm(r)
    BY <1>1, <1>2, <2>1, <2>2 DEF Gone, Calm, Spent
  <2>6. QED BY <2>3, <2>4, <2>5 DEF Fine
<1>3. QED BY <1>1, <1>2, GotoCalm

LEMMA AnswerCalm ==
  ASSUME AInv, [Next]_vars, UsersKept, NEW r \in Requests, NEW pc, Goto(r, pc),
         \/ request[r].pc = "record" /\ request[r].kind = "signin" /\ pc = "clear"
         \/ request[r].pc = "record" /\ request[r].kind # "signin" /\ pc = "ok"
         \/ request[r].pc = "clear" /\ pc = "ok"
         \/ request[r].pc = "failed" /\ pc = "expire"
  PROVE  AllCalm
<1>1. pc \in Steps
  BY DEF Steps
<1>2. ASSUME Gone(r, pc) PROVE Fine(r)' /\ Calm(r)
  <2>1. RequestOK(r) /\ SessionOK(r) /\ ~Opens(r)
    BY <1>2, RequestParts DEF Gone, Opens, At
  <2>2. RequestOK(r)'
    BY <1>2, <2>1, ClaimsKept, RequestParts DEF Gone, RequestOK
  <2>3. SessionOK(r)'
    BY <1>2, <2>1, SessionFacts DEF Gone, SessionOK
  <2>4. Calm(r)
    BY <1>2, <2>1, SessionFacts DEF Gone, Calm, Spent
  <2>5. QED BY <2>2, <2>3, <2>4 DEF Fine
<1>3. QED BY <1>1, <1>2, GotoCalm

(* An answer that was heard, or that nobody is left to hear.               *)
LEMMA DoneCalm ==
  ASSUME AInv, [Next]_vars, UsersKept, NEW r \in Requests, Done(r),
         request[r].pc \notin {"new", "nonce"}
  PROVE  AllCalm
<1> DEFINE e == [Idle EXCEPT !.pc = "done", !.kind = request[r].kind, !.wallet = request[r].wallet,
                             !.nonce = request[r].nonce, !.valid = request[r].valid,
                             !.orphan = request[r].orphan]
<1>1. request' = [request EXCEPT ![r] = e] /\ request[r] \in Request
  BY RequestParts DEF Done
<1>2. Idle \in Request /\ ~Idle.banned /\ "done" \in Steps
  BY Sizes DEF Idle, Request, Steps, Owners, None
<1>3. /\ e \in Request /\ e.pc = "done" /\ e.kind = request[r].kind /\ e.wallet = request[r].wallet
      /\ e.nonce = request[r].nonce /\ ~e.banned
  BY <1>1, <1>2 DEF Request
<1> HIDE DEF e
<1>4. ASSUME request'[r] = e PROVE Fine(r)' /\ Calm(r)
  <2>1. RequestOK(r) /\ SessionOK(r) /\ ~Opens(r)
    BY <1>3, <1>4, RequestParts DEF Opens
  <2>2. RequestOK(r)'
    BY <1>3, <1>4, <2>1 DEF RequestOK
  <2>3. SessionOK(r)'
    BY <1>3, <1>4, <2>1, SessionFacts DEF SessionOK
  <2>4. Calm(r)
    BY <1>3, <1>4, <2>1, SessionFacts DEF Calm, Spent
  <2>5. QED BY <2>2, <2>3, <2>4 DEF Fine
<1>5. QED BY <1>1, <1>3, <1>4, OneRequest DEF AllCalm

(* A request that arrives.                                                 *)
Kinds == {"none", "signin", "connect", "refresh", "logout"}

Arrives(e) ==
  /\ e.kind \in Kinds \ {"none"} /\ e.wallet \in Wallets
  /\ e.kind = "signin" => e.pc \in {"nonce", "lock"}
  /\ e.kind = "connect" => e.pc = "find"
  /\ e.kind = "refresh" => e.pc = "rotate"
  /\ e.kind = "logout" => e.pc = "logout"
  /\ e.nonce # None => /\ e.kind = "signin" /\ e.pc = "lock"
                       /\ \E p \in Requests : request[p].nonce = e.nonce
  /\ e.kind \in {"refresh", "logout"} => /\ e.token \in Requests
                                         /\ session[e.token].owner = e.wallet
  /\ e.banned => user[e.wallet] = "BANNED"

LEMMA ArrivalFine ==
  ASSUME AInv, [Next]_vars, UsersKept, NEW r \in Requests, request[r].pc = "new",
         NEW e \in Request, Arrives(e), request'[r] = e
  PROVE  Fine(r)' /\ Calm(r)
<1>1. /\ RequestOK(r) /\ SessionOK(r) /\ ~Opens(r) /\ session[r].owner = NoWallet
      /\ session[r].nonce = None
  BY RequestParts DEF Opens, At, SessionOK
<1>2. RequestOK(r)'
  BY NextKeepsOwners, Sizes DEF RequestOK, Arrives, OwnersKept, UsersKept, Kinds
<1>3. SessionOK(r)'
  BY <1>1, SessionFacts DEF SessionOK, Arrives, Kinds
<1>4. Calm(r)
  BY <1>1, SessionFacts DEF Calm, Spent, Arrives
<1>5. QED BY <1>2, <1>3, <1>4 DEF Fine

(* One that is answered on the spot.                                       *)
LEMMA ImmediateFine ==
  ASSUME AInv, [Next]_vars, NEW r \in Requests, request[r].pc = "new",
         request'[r] = [Idle EXCEPT !.pc = "done"]
  PROVE  request'[r] \in Request /\ Fine(r)' /\ Calm(r)
<1> DEFINE e == [Idle EXCEPT !.pc = "done"]
<1>0. Idle \in Request /\ ~Idle.banned /\ Idle.kind = "none" /\ Idle.nonce = None /\ "done" \in Steps
  BY Sizes DEF Idle, Request, Steps, Owners, None
<1>1. e \in Request /\ e.pc = "done" /\ ~e.banned /\ e.kind = "none" /\ e.nonce = None
  BY <1>0 DEF Request
<1>2. request'[r] = e
  OBVIOUS
<1> HIDE DEF e
<1>3. /\ RequestOK(r) /\ SessionOK(r) /\ ~Opens(r) /\ session[r].owner = NoWallet
      /\ session[r].nonce = None
  BY <1>1, <1>2, RequestParts DEF Opens, SessionOK
<1>4. RequestOK(r)'
  BY <1>1, <1>2 DEF RequestOK
<1>5. SessionOK(r)'
  BY <1>1, <1>2, <1>3, SessionFacts DEF SessionOK
<1>6. Calm(r)
  BY <1>1, <1>2, <1>3, SessionFacts DEF Calm, Spent
<1>7. QED BY <1>1, <1>2, <1>4, <1>5, <1>6 DEF Fine

LEMMA ArriveCalm ==
  ASSUME AInv, [Next]_vars, UsersKept, NEW r \in Requests, NEW e \in Request, Arrives(e),
         Arrive(r, e)
  PROVE  AllCalm
<1>1. request[r].pc = "new" /\ request' = [request EXCEPT ![r] = e]
  BY DEF Arrive, Fresh
<1>2. request'[r] = e => Fine(r)' /\ Calm(r)
  BY <1>1, ArrivalFine
<1>3. QED BY <1>1, <1>2, OneRequest DEF AllCalm

LEMMA ArrivingParts ==
  ASSUME NEW kind \in Kinds, NEW pc \in Steps, NEW w \in Wallets
  PROVE  LET a == Arriving(kind, pc, w) IN
         /\ a \in Request /\ a.kind = kind /\ a.pc = pc /\ a.wallet = w
         /\ a.nonce = None /\ a.token = None /\ (a.banned => user[w] = "BANNED")
<1> DEFINE b == user[w] = "BANNED"
           a == [Idle EXCEPT !.kind = kind, !.pc = pc, !.wallet = w, !.banned = b]
<1>1. Idle \in Request /\ Idle.nonce = None /\ Idle.token = None
  BY Sizes DEF Idle, Request, Steps, Owners, None
<1>2. b \in BOOLEAN /\ w \in Owners
  BY DEF Owners
<1>3. Arriving(kind, pc, w) = a
  BY DEF Arriving
<1> HIDE DEF b
<1>4. /\ a \in Request /\ a.kind = kind /\ a.pc = pc /\ a.wallet = w
      /\ a.nonce = None /\ a.token = None /\ a.banned = b
  BY <1>1, <1>2 DEF Request, Kinds
<1>5. QED BY <1>3, <1>4 DEF b

LEMMA SignInCalm ==
  ASSUME AInv, [Next]_vars, UsersKept, NEW r \in Requests,
         SignIn(r) \/ useConnect(r) \/ LogOut(r) \/ \E q \in Requests : Redelivered(q, r)
  PROVE  AllCalm
<1>1. ASSUME SignIn(r) PROVE AllCalm
  <2> DEFINE e == Arriving("signin", "nonce", page.address)
  <2>1. page.address \in Wallets /\ Arrive(r, e)
    BY <1>1 DEF SignIn, postNonce
  <2>2. "signin" \in Kinds /\ "nonce" \in Steps
    BY DEF Kinds, Steps
  <2>3. e \in Request /\ Arrives(e)
    BY <2>1, <2>2, ArrivingParts DEF Arrives, Kinds
  <2> HIDE DEF e
  <2>4. QED BY <2>1, <2>3, ArriveCalm
<1>2. ASSUME useConnect(r) PROVE AllCalm
  <2> DEFINE e == Arriving("connect", "find", page.address)
  <2>1. page.address \in Wallets /\ Arrive(r, e)
    BY <1>2 DEF useConnect, postConnect
  <2>2. "connect" \in Kinds /\ "find" \in Steps
    BY DEF Kinds, Steps
  <2>3. e \in Request /\ Arrives(e)
    BY <2>1, <2>2, ArrivingParts DEF Arrives, Kinds
  <2> HIDE DEF e
  <2>4. QED BY <2>1, <2>3, ArriveCalm
<1>3. ASSUME LogOut(r) PROVE AllCalm
  <2> DEFINE t == page.token
             w == session[t].owner
             a == Arriving("logout", "logout", w)
             e == [a EXCEPT !.token = t, !.todo = {"rows", "deny"}]
  <2>1. t # None /\ Issued(t) /\ Arrive(r, e)
    BY <1>3 DEF LogOut, postLogout, authenticate
  <2>2. t \in Requests /\ t \in 0..MaxRequests
    BY <2>1, Sizes DEF AInv, Typed, Requests, None
  <2>3. w \in Wallets
    BY <2>1, <2>2, RequestParts DEF Issued, SessionOK, Owners
  <2>4. "logout" \in Kinds /\ "logout" \in Steps
    BY DEF Kinds, Steps
  <2>5. /\ a \in Request /\ a.kind = "logout" /\ a.pc = "logout" /\ a.wallet = w
        /\ a.nonce = None /\ (a.banned => user[w] = "BANNED")
    BY <2>3, <2>4, ArrivingParts
  <2> HIDE DEF a, t
  <2>6. /\ e \in Request /\ e.kind = "logout" /\ e.pc = "logout" /\ e.wallet = w
        /\ e.nonce = None /\ e.token = t /\ (e.banned => user[w] = "BANNED")
    BY <2>2, <2>5 DEF Request
  <2>7. Arrives(e)
    BY <2>2, <2>3, <2>6 DEF Arrives, Kinds
  <2> HIDE DEF e
  <2>8. QED BY <2>1, <2>6, <2>7, ArriveCalm
<1>4. ASSUME NEW q \in Requests, Redelivered(q, r) PROVE AllCalm
  <2> DEFINE w == request[q].wallet
             a == Arriving("signin", "lock", w)
             e == [a EXCEPT !.nonce = request[q].nonce, !.valid = request[q].valid,
                            !.orphan = TRUE]
  <2>1. w \in Wallets /\ request[q] \in Request
    BY <1>4, RequestParts DEF Redelivered, RequestOK
  <2>2. Arrive(r, e)
    BY <1>4 DEF Redelivered
  <2>3. "signin" \in Kinds /\ "lock" \in Steps
    BY DEF Kinds, Steps
  <2>4. /\ a \in Request /\ a.kind = "signin" /\ a.pc = "lock" /\ a.wallet = w
        /\ (a.banned => user[w] = "BANNED")
    BY <2>1, <2>3, ArrivingParts
  <2> HIDE DEF a, w
  <2>5. /\ e \in Request /\ e.kind = "signin" /\ e.pc = "lock" /\ e.wallet = w
        /\ e.nonce = request[q].nonce /\ (e.banned => user[w] = "BANNED")
    BY <2>1, <2>4 DEF Request
  <2>6. Arrives(e)
    BY <2>1, <2>5 DEF Arrives, Kinds
  <2> HIDE DEF e
  <2>7. QED BY <2>2, <2>5, <2>6, ArriveCalm
<1>5. QED BY <1>1, <1>2, <1>3, <1>4

(* What changes nothing of a request but who waits for it.                 *)
LEMMA GoneSame ==
  ASSUME AInv, [Next]_vars, UsersKept, NEW q \in Requests, Gone(q, request[q].pc)
  PROVE  Fine(q)' /\ Calm(q)
<1>1. RequestOK(q) /\ SessionOK(q) /\ ~Opens(q)
  BY RequestParts DEF Gone, Opens, At
<1>2. RequestOK(q)'
  BY <1>1, ClaimsKept DEF Gone, RequestOK
<1>3. SessionOK(q)'
  BY <1>1, SessionFacts DEF Gone, SessionOK
<1>4. Calm(q)
  BY <1>1, SessionFacts DEF Gone, Calm, Spent
<1>5. QED BY <1>2, <1>3, <1>4 DEF Fine

LEMMA RestoreCalm ==
  ASSUME AInv, [Next]_vars, UsersKept, NEW r \in Requests, useSessionRestore(r)
  PROVE  AllCalm
<1>1. request[r].pc = "new" /\ request'[r] = postRefresh(cookie)
      /\ \A q \in Requests : q # r =>
           request'[q] = [request[q] EXCEPT
                            !.orphan = request[q].orphan \/ request[q].pc \notin {"new", "done"}]
  BY DEF useSessionRestore, Fresh
<1>2. ASSUME NEW q \in Requests, q # r PROVE request'[q] \in Request /\ Fine(q)' /\ Calm(q)
  <2> DEFINE o == request[q].orphan \/ request[q].pc \notin {"new", "done"}
             e == [request[q] EXCEPT !.orphan = o]
  <2>1. request[q] \in Request /\ request'[q] = e /\ o \in BOOLEAN
    BY <1>1, <1>2, RequestParts
  <2> HIDE DEF o
  <2>2. e \in Request /\ Gone(q, request[q].pc)
    BY <2>1 DEF Request, Gone
  <2>3. QED BY <2>1, <2>2, GoneSame
<1>3. request'[r] \in Request /\ Fine(r)' /\ Calm(r)
  <2>1. CASE cookie = None
    BY <1>1, <2>1, ImmediateFine DEF postRefresh
  <2>2. CASE cookie # None
    <3> DEFINE w == session[cookie].owner
               a == Arriving("refresh", "rotate", w)
               e == [a EXCEPT !.token = cookie]
    <3>1. cookie \in Requests /\ cookie \in 0..MaxRequests /\ session[cookie].owner # NoWallet
      BY <2>2, Sizes DEF AInv, Typed, Requests, None
    <3>2. w \in Wallets /\ request'[r] = e
      BY <1>1, <2>2, <3>1, RequestParts DEF postRefresh, Owners
    <3>3. "refresh" \in Kinds /\ "rotate" \in Steps
      BY DEF Kinds, Steps
    <3>4. /\ a \in Request /\ a.kind = "refresh" /\ a.pc = "rotate" /\ a.wallet = w
          /\ a.nonce = None /\ (a.banned => user[w] = "BANNED")
      BY <3>2, <3>3, ArrivingParts
    <3> HIDE DEF a
    <3>5. /\ e \in Request /\ e.kind = "refresh" /\ e.pc = "rotate" /\ e.wallet = w
          /\ e.nonce = None /\ e.token = cookie /\ (e.banned => user[w] = "BANNED")
      BY <3>1, <3>4 DEF Request
    <3>6. Arrives(e)
      BY <3>1, <3>2, <3>5 DEF Arrives, Kinds
    <3> HIDE DEF e
    <3>7. QED BY <1>1, <3>2, <3>5, <3>6, ArrivalFine
  <2>3. QED BY <2>1, <2>2
<1>4. request' \in [Requests -> Request]
  <2>1. request' = [q \in Requests |-> request'[q]]
    BY DEF useSessionRestore
  <2>2. QED BY <1>2, <1>3, <2>1
<1>5. QED BY <1>2, <1>3, <1>4 DEF AllCalm, RequestsOK

LEMMA StatusCalm ==
  ASSUME AInv, [Next]_vars, NEW c \in Changes, ChangeStatus(c)
  PROVE  AllCalm
<1> DEFINE w == change[c].wallet
           s == change[c].status
<1>1. \A q \in Requests :
        request'[q] = [request[q] EXCEPT
          !.banned = request[q].banned /\ (request[q].wallet = w => s = "BANNED")]
  BY DEF ChangeStatus
<1>2. user \in [Wallets -> Status] /\ user' = [user EXCEPT ![w] = s]
  BY DEF ChangeStatus, AInv, Typed, Status
<1> HIDE DEF w, s
<1>3. ASSUME NEW q \in Requests PROVE request'[q] \in Request /\ Fine(q)' /\ Calm(q)
  <2> DEFINE b == request[q].banned /\ (request[q].wallet = w => s = "BANNED")
             e == [request[q] EXCEPT !.banned = b]
  <2>1. request[q] \in Request /\ request'[q] = e /\ b \in BOOLEAN
    BY <1>1, RequestParts
  <2>2. b => request[q].banned /\ (request[q].wallet = w => s = "BANNED")
    OBVIOUS
  <2> HIDE DEF b
  <2>3. /\ e \in Request /\ e.pc = request[q].pc /\ e.kind = request[q].kind
        /\ e.wallet = request[q].wallet /\ e.nonce = request[q].nonce
        /\ e.token = request[q].token /\ e.banned = b
    BY <2>1 DEF Request
  <2> HIDE DEF e
  <2>4. RequestOK(q) /\ SessionOK(q) /\ ~Opens(q)
    BY <2>1, <2>3, RequestParts DEF Opens, At
  <2>5. b => user'[request[q].wallet] = "BANNED"
    BY <1>2, <2>2, <2>4 DEF RequestOK
  <2>6. RequestOK(q)'
    BY <2>1, <2>2, <2>3, <2>4, <2>5, ClaimsKept DEF RequestOK
  <2>7. SessionOK(q)'
    BY <2>1, <2>3, <2>4, SessionFacts DEF SessionOK
  <2>8. Calm(q)
    BY <2>1, <2>3, <2>4, SessionFacts DEF Calm, Spent
  <2>9. QED BY <2>1, <2>3, <2>6, <2>7, <2>8 DEF Fine
<1>4. request' \in [Requests -> Request]
  <2>1. request' = [q \in Requests |-> request'[q]]
    BY DEF ChangeStatus
  <2>2. QED BY <1>3, <2>1
<1>5. QED BY <1>3, <1>4 DEF AllCalm, RequestsOK

LEMMA SignedCalm ==
  ASSUME AInv, [Next]_vars, UsersKept, NEW r \in Requests, SignMessage(r)
  PROVE  AllCalm
<1>1. PICK pc \in {"lock", "error"} :
        request' = [request EXCEPT ![r].pc = pc, ![r].valid = page.address = request[r].wallet]
  BY DEF SignMessage
<1> DEFINE v == page.address = request[r].wallet
           e == [request[r] EXCEPT !.pc = pc, !.valid = v]
<1>2. /\ request[r] \in Request /\ request[r].pc = "signing" /\ pc \in Steps /\ v \in BOOLEAN
      /\ request' = [request EXCEPT ![r] = e]
  BY <1>1, RequestParts DEF SignMessage, At, Steps, AInv, Typed
<1> HIDE DEF v
<1>3. /\ e \in Request /\ e.pc = pc /\ e.kind = request[r].kind /\ e.wallet = request[r].wallet
      /\ e.nonce = request[r].nonce /\ e.token = request[r].token /\ e.banned = request[r].banned
  BY <1>2 DEF Request
<1> HIDE DEF e
<1>4. ASSUME request'[r] = e PROVE Fine(r)' /\ Calm(r)
  <2>1. RequestOK(r) /\ SessionOK(r) /\ ~Opens(r)
    BY <1>2, RequestParts DEF Opens, At
  <2>2. RequestOK(r)'
    BY <1>2, <1>3, <1>4, <2>1, ClaimsKept, RequestParts DEF RequestOK
  <2>3. SessionOK(r)'
    BY <1>2, <1>3, <1>4, <2>1, SessionFacts DEF SessionOK
  <2>4. Calm(r)
    BY <1>2, <1>3, <1>4, <2>1, SessionFacts DEF Calm, Spent
  <2>5. QED BY <2>2, <2>3, <2>4 DEF Fine
<1>5. QED BY <1>2, <1>3, <1>4, OneRequest DEF AllCalm

LEMMA LogoutCalm ==
  ASSUME AInv, [Next]_vars, UsersKept, NEW r \in Requests, logout(r)
  PROVE  AllCalm
<1>1. PICK d \in request[r].todo :
        request' = [request EXCEPT ![r].todo = @ \ {d},
                                   ![r].pc = IF request[r].todo = {d} THEN "ok" ELSE "logout"]
  BY DEF logout
<1> DEFINE t == request[r].todo \ {d}
           pc == IF request[r].todo = {d} THEN "ok" ELSE "logout"
           e == [request[r] EXCEPT !.todo = t, !.pc = pc]
<1>2. /\ request[r] \in Request /\ request[r].pc = "logout"
      /\ request' = [request EXCEPT ![r] = e]
  BY <1>1, RequestParts DEF logout, At, AInv, Typed
<1>3. t \in SUBSET {"rows", "deny"} /\ pc \in Steps /\ pc \in {"ok", "logout"}
  BY <1>2 DEF Request, Steps
<1> HIDE DEF t, pc
<1>4. /\ e \in Request /\ e.pc = pc /\ e.kind = request[r].kind /\ e.wallet = request[r].wallet
      /\ e.nonce = request[r].nonce /\ e.token = request[r].token /\ e.banned = request[r].banned
  BY <1>2, <1>3 DEF Request
<1> HIDE DEF e
<1>5. ASSUME request'[r] = e PROVE Fine(r)' /\ Calm(r)
  <2>1. RequestOK(r) /\ SessionOK(r) /\ ~Opens(r)
    BY <1>2, RequestParts DEF Opens, At
  <2>2. RequestOK(r)'
    BY <1>2, <1>3, <1>4, <1>5, <2>1, ClaimsKept, RequestParts DEF RequestOK
  <2>3. SessionOK(r)'
    BY <1>2, <1>3, <1>4, <1>5, <2>1, SessionFacts, RequestParts DEF SessionOK, RequestOK
  <2>4. Calm(r)
    BY <1>2, <1>3, <1>4, <1>5, <2>1, SessionFacts DEF Calm, Spent
  <2>5. QED BY <2>2, <2>3, <2>4 DEF Fine
<1>6. QED BY <1>2, <1>4, <1>5, OneRequest DEF AllCalm

(* The two steps that are about a nonce: it is issued, and it is consumed. *)
Issues(r) ==
  LET w == request[r].wallet IN
  /\ At(r, "nonce")
  /\ nonce' = [nonce EXCEPT ![w] = [id |-> r, left |-> NonceTtl]]
  /\ request' = [request EXCEPT ![r].pc = "signing", ![r].nonce = r]

Consumes(r) ==
  LET w == request[r].wallet IN
  /\ At(r, "consume")
  /\ nonce[w].id # None /\ nonce[w].id = request[r].nonce
  /\ nonce' = consumeNonce(w)
  /\ Goto(r, "find")

LEMMA IssuesMoves ==
  ASSUME AInv, [Next]_vars, UsersKept, NEW r \in Requests, Issues(r)
  PROVE  /\ RequestsOK' /\ request'[r].pc = "signing" /\ request'[r].nonce = r
         /\ request'[r].wallet = request[r].wallet /\ request[r].wallet \in Wallets
         /\ session[r].nonce = None /\ session'[r].nonce = None
         /\ \A q \in Requests : q # r => request'[q] = request[q] /\ Calm(q)
<1> DEFINE e == [request[r] EXCEPT !.pc = "signing", !.nonce = r]
<1>1. /\ request[r] \in Request /\ request[r].pc = "nonce" /\ r \in 0..MaxRequests
      /\ "signing" \in Steps /\ request' = [request EXCEPT ![r] = e]
  <2>1. request[r] \in Request /\ request \in [Requests -> Request]
    BY RequestParts DEF AInv, Typed
  <2>2. request[r].pc = "nonce" /\ request' = [request EXCEPT ![r].pc = "signing", ![r].nonce = r]
    BY DEF Issues, At
  <2>3. r \in 0..MaxRequests /\ "signing" \in Steps
    BY DEF Requests, Steps
  <2>4. QED BY <2>1, <2>2, <2>3
<1>2. /\ e \in Request /\ e.pc = "signing" /\ e.kind = request[r].kind
      /\ e.wallet = request[r].wallet
      /\ e.nonce = r /\ e.token = request[r].token /\ e.banned = request[r].banned
  BY <1>1 DEF Request
<1> HIDE DEF e
<1>3. /\ RequestOK(r) /\ SessionOK(r) /\ request[r].wallet \in Wallets
      /\ session[r].owner = NoWallet /\ session[r].nonce = None
  BY <1>1, RequestParts DEF RequestOK, SessionOK
<1>4. ASSUME request'[r] = e PROVE Fine(r)' /\ session'[r].nonce = None
  <2>1. ~Opens(r)
    BY <1>1 DEF Opens, At
  <2>2. RequestOK(r)'
    BY <1>1, <1>2, <1>3, <1>4, ClaimsKept, RequestParts DEF RequestOK
  <2>3. SessionOK(r)'
    BY <1>1, <1>2, <1>3, <1>4, <2>1, SessionFacts DEF SessionOK
  <2>4. QED BY <1>3, <2>1, <2>2, <2>3, SessionFacts DEF Fine
<1>5. QED BY <1>1, <1>2, <1>3, <1>4, OneRequest

LEMMA ConsumesMoves ==
  ASSUME AInv, [Next]_vars, UsersKept, NEW r \in Requests, Consumes(r)
  PROVE  /\ RequestsOK' /\ Gone(r, "find") /\ request[r].wallet \in Wallets
         /\ \A q \in Requests : q # r => request'[q] = request[q] /\ Calm(q)
<1>1. request[r].pc = "consume" /\ Goto(r, "find") /\ "find" \in Steps
  BY DEF Consumes, At, Steps
<1>2. RequestOK(r) /\ SessionOK(r) /\ request[r].kind = "signin" /\ request[r].wallet \in Wallets
  BY <1>1, RequestParts DEF RequestOK
<1>3. ASSUME Gone(r, "find") PROVE Fine(r)'
  <2>1. ~Opens(r)
    BY <1>1 DEF Opens, At
  <2>2. RequestOK(r)'
    BY <1>1, <1>2, <1>3, ClaimsKept DEF Gone, RequestOK
  <2>3. SessionOK(r)'
    BY <1>1, <1>2, <1>3, <2>1, SessionFacts DEF Gone, SessionOK
  <2>4. QED BY <2>2, <2>3 DEF Fine
<1>4. QED BY <1>1, <1>2, <1>3, GotoMoves

LEMMA ServerCalm ==
  ASSUME AInv, [Next]_vars, UsersKept, NEW r \in Requests, ServerStep(r)
  PROVE  AllCalm \/ Issues(r) \/ Consumes(r)
<1>0. RequestOK(r) /\ request[r].kind \in Kinds
  BY RequestParts DEF Kinds
<1>1. ASSUME issueNonce(r) PROVE AllCalm \/ Issues(r)
  <2>1. Issues(r) \/ Goto(r, "error")
    BY <1>1 DEF issueNonce, Issues
  <2>2. request[r].pc = "nonce"
    BY <1>1 DEF issueNonce, At
  <2>3. QED BY <2>1, <2>2, Fails
<1>2. ASSUME VerifyArrives(r) PROVE AllCalm
  <2>1. request[r].pc = "lock" /\ (Goto(r, "consume") \/ Goto(r, "error"))
    BY <1>2 DEF VerifyArrives, At
  <2>2. Walks(r, "consume")
    BY <1>0, <2>1 DEF Walks, RequestOK, Kinds
  <2>3. QED BY <2>1, <2>2, Fails, WalkCalm
<1>3. ASSUME verifyWalletSignature(r) PROVE AllCalm \/ Consumes(r)
  <2>1. request[r].pc = "consume" /\ (Consumes(r) \/ Throw(r))
    BY <1>3 DEF verifyWalletSignature, At, Consumes
  <2>2. QED BY <2>1, ThrowCalm
<1>4. ASSUME upsertWalletOwner(r) PROVE AllCalm
  <2> DEFINE owner == user[request[r].wallet]
  <2>1. request[r].pc = "find" /\ request[r].kind \in {"signin", "connect"}
    BY <1>0, <1>4 DEF upsertWalletOwner, At, RequestOK, Kinds
  <2>2. \/ owner = "none" /\ Goto(r, "create")
        \/ ~Permitted(owner) /\ Throw(r)
        \/ owner # "none" /\ Permitted(owner) /\ request[r].kind = "connect" /\ Goto(r, "nickname")
        \/ owner # "none" /\ Permitted(owner) /\ request[r].kind # "connect" /\ Goto(r, "issue")
    BY <1>4 DEF upsertWalletOwner
  <2>3. owner = "none" \/ Permitted(owner) => ~request[r].banned
    BY <1>0 DEF RequestOK, Permitted
  <2> HIDE DEF owner
  <2>4. /\ owner = "none" => Walks(r, "create")
        /\ Permitted(owner) /\ request[r].kind = "connect" => Walks(r, "nickname")
        /\ Permitted(owner) /\ request[r].kind # "connect" => Walks(r, "issue")
    BY <2>1, <2>3 DEF Walks
  <2>5. QED BY <2>1, <2>2, <2>4, ThrowCalm, WalkCalm
<1>5. ASSUME CreateOwner(r) PROVE AllCalm
  <2>1. request[r].pc = "create" /\ request[r].kind \in {"signin", "connect"} /\ ~request[r].banned
    BY <1>0, <1>5 DEF CreateOwner, At, RequestOK, Kinds
  <2>2. \/ request[r].kind = "connect" /\ Goto(r, "nickname")
        \/ request[r].kind # "connect" /\ Goto(r, "issue")
        \/ Throw(r)
    BY <1>5 DEF CreateOwner
  <2>3. /\ request[r].kind = "connect" => Walks(r, "nickname")
        /\ request[r].kind # "connect" => Walks(r, "issue")
    BY <2>1 DEF Walks
  <2>4. QED BY <2>1, <2>2, <2>3, ThrowCalm, WalkCalm
<1>6. ASSUME connectWallet(r) PROVE AllCalm
  <2>1. request[r].pc = "nickname" /\ Goto(r, "issue")
    BY <1>6 DEF connectWallet, At
  <2>2. Walks(r, "issue")
    BY <1>0, <2>1 DEF Walks, RequestOK, Kinds
  <2>3. QED BY <2>1, <2>2, WalkCalm
<1>7. ASSUME RecordSession(r) PROVE AllCalm
  <2>1. /\ request[r].pc = "record"
        /\ \/ request[r].kind = "signin" /\ Goto(r, "clear")
           \/ request[r].kind # "signin" /\ Goto(r, "ok")
    BY <1>7 DEF RecordSession, At
  <2>2. QED BY <2>1, AnswerCalm
<1>8. ASSUME ClearFailures(r) PROVE AllCalm
  <2>1. request[r].pc = "clear" /\ Goto(r, "ok")
    BY <1>8 DEF ClearFailures, At
  <2>2. QED BY <2>1, AnswerCalm
<1>9. ASSUME recordFailure(r) PROVE AllCalm
  <2>1. request[r].pc = "failed" /\ (Goto(r, "expire") \/ Goto(r, "error"))
    BY <1>9 DEF recordFailure, At
  <2>2. QED BY <2>1, AnswerCalm, Fails
<1>10. ASSUME ExpireFailures(r) PROVE AllCalm
  <2>1. request[r].pc = "expire" /\ Goto(r, "error")
    BY <1>10 DEF ExpireFailures, At
  <2>2. QED BY <2>1, Fails
<1>11. ASSUME rotateRefreshToken(r) PROVE AllCalm
  <2> DEFINE owner == user[session[request[r].token].owner]
  <2>1. /\ request[r].pc = "rotate" /\ request[r].kind = "refresh"
        /\ owner = user[request[r].wallet]
    BY <1>0, <1>11 DEF rotateRefreshToken, At, RequestOK, Kinds
  <2>2. Goto(r, "burn") \/ Throw(r) \/ (Permitted(owner) /\ Goto(r, "revoke"))
    BY <1>11 DEF rotateRefreshToken
  <2>3. Permitted(owner) => ~request[r].banned
    BY <1>0, <2>1 DEF RequestOK, Permitted
  <2> HIDE DEF owner
  <2>4. Walks(r, "burn") /\ (Permitted(owner) => Walks(r, "revoke"))
    BY <2>1, <2>3 DEF Walks
  <2>5. QED BY <2>1, <2>2, <2>4, ThrowCalm, WalkCalm
<1>12. ASSUME BurnFamily(r) PROVE AllCalm
  BY <1>12, ThrowCalm DEF BurnFamily, At
<1>13. ASSUME RevokeRotated(r) PROVE AllCalm
  <2>1. request[r].pc = "revoke" /\ Goto(r, "issue")
    BY <1>13 DEF RevokeRotated, At
  <2>2. Walks(r, "issue")
    BY <1>0, <2>1 DEF Walks, RequestOK, Kinds
  <2>3. QED BY <2>1, <2>2, WalkCalm
<1>14. QED BY <1>1, <1>2, <1>3, <1>4, <1>5, <1>6, <1>7, <1>8, <1>9, <1>10, <1>11, <1>12, <1>13,
              IssueCalm, LogoutCalm DEF ServerStep

LEMMA RequestStep ==
  ASSUME AInv, [Next]_vars
  PROVE  AllCalm \/ (UsersKept /\ \E r \in Requests : Issues(r) \/ Consumes(r))
<1>1. ASSUME NEW c \in Changes, ChangeStatus(c) PROVE AllCalm
  BY <1>1, StatusCalm
<1>2. CASE UsersKept
  <2>1. ASSUME UNCHANGED request PROVE AllCalm
    <3>1. \A q \in Requests : request'[q] = request[q]
      BY <2>1
    <3>2. \A q \in Requests : Fine(q)' /\ Calm(q)
      BY <1>2, <3>1, StillFine
    <3>3. QED BY <2>1, <3>2 DEF AllCalm, RequestsOK, AInv, Typed
  <2>2. ASSUME NEW r \in Requests, Client(r) PROVE AllCalm
    BY <1>2, <2>2, SignInCalm, RestoreCalm DEF Client
  <2>3. ASSUME NEW r \in Requests, PageStep(r) PROVE AllCalm
    <3>1. ASSUME completeAuth(r) \/ apiRequestFails(r) \/ OrphanEnds(r) PROVE AllCalm
      <4>1. Done(r) /\ request[r].pc \in {"ok", "error", "signing"}
        BY <3>1 DEF completeAuth, apiRequestFails, OrphanEnds, At
      <4>2. QED BY <1>2, <4>1, DoneCalm
    <3>2. QED BY <1>2, <2>3, <3>1, SignedCalm DEF PageStep
  <2>4. ASSUME NEW r \in Requests, Crash(r) PROVE AllCalm
    <3>1. Goto(r, "error") /\ request[r].pc \notin {"new", "done"}
      BY <2>4 DEF Crash, Running
    <3>2. QED BY <1>2, <3>1, Fails
  <2>5. ASSUME NEW r \in Requests, CallThrows(r) PROVE AllCalm
    <3>1. Throw(r) /\ request[r].pc \notin {"new", "nonce", "done"}
      BY <2>5 DEF CallThrows
    <3>2. QED BY <1>2, <3>1, ThrowCalm
  <2>6. ASSUME NEW r \in Requests, RowExpires(r) PROVE UNCHANGED request
    BY <2>6 DEF RowExpires
  <2>7. ASSUME NEW a \in Accounts, SelectAccount(a) PROVE UNCHANGED request
    BY <2>7 DEF SelectAccount, serverVars
  <2>8. signOut \/ useWalletSession \/ Tick \/ UNCHANGED vars => UNCHANGED request
    BY DEF signOut, useWalletSession, Tick, vars, serverVars
  <2>9. ASSUME NEW c \in Changes, Admin(c) \/ RevokeAllRows(c) \/ revokeAllSessions(c)
        PROVE  UNCHANGED request
    BY <2>9 DEF Admin, ReadStatus, ChangeFails, RevokeAllRows, revokeAllSessions
  <2>10. QED BY <1>1, <1>2, <2>1, <2>2, <2>3, <2>4, <2>5, <2>6, <2>7, <2>8, <2>9, ServerCalm
             DEF Next, AdminStep
<1>3. QED BY <1>1, <1>2, UserStep

LEMMA RequestsStayOK ==
  ASSUME AInv, [Next]_vars
  PROVE  RequestsOK'
<1>1. CASE AllCalm
  BY <1>1 DEF AllCalm
<1>2. ASSUME UsersKept, NEW r \in Requests, Issues(r) \/ Consumes(r)
      PROVE  RequestsOK'
  BY <1>2, IssuesMoves, ConsumesMoves
<1>3. QED BY <1>1, <1>2, RequestStep

(***************************************************************************)
(* The nonces.                                                             *)
(***************************************************************************)

(* A nonce that is not being issued is kept or lost.                       *)
Drops == \A w \in Wallets : nonce'[w].id \in {nonce[w].id, None}

LEMMA NonceStep ==
  ASSUME AInv, [Next]_vars
  PROVE  /\ nonce' \in [Wallets -> Nonce]
         /\ Drops \/ (UsersKept /\ \E r \in Requests : Issues(r))
<1> DEFINE Good == /\ nonce' \in [Wallets -> Nonce]
                   /\ Drops \/ (UsersKept /\ \E r \in Requests : Issues(r))
<1>t. nonce \in [Wallets -> Nonce] /\ \A w \in Wallets : nonce[w] \in Nonce
  BY DEF AInv, Typed
<1>1. ASSUME UNCHANGED nonce PROVE Good
  BY <1>t, <1>1 DEF Drops
<1>2. ASSUME NEW r \in Requests, issueNonce(r) PROVE Good
  <2>1. UNCHANGED nonce \/ Issues(r)
    BY <1>2 DEF issueNonce, Issues
  <2>2. ASSUME Issues(r) PROVE Good
    <3> DEFINE n == [id |-> r, left |-> NonceTtl]
    <3>1. nonce' = [nonce EXCEPT ![request[r].wallet] = n]
      BY <2>2 DEF Issues
    <3>2. n \in Nonce
      BY Sizes DEF Nonce, Requests
    <3> HIDE DEF n
    <3>3. nonce' \in [Wallets -> Nonce]
      BY <1>t, <3>1, <3>2
    <3>4. UsersKept
      BY <1>2 DEF issueNonce, UsersKept
    <3>5. QED BY <2>2, <3>3, <3>4
  <2>3. QED BY <1>1, <2>1, <2>2
<1>3. ASSUME NEW r \in Requests, verifyWalletSignature(r) PROVE Good
  <2> DEFINE n == [id |-> None, left |-> 0]
  <2>1. nonce' = [nonce EXCEPT ![request[r].wallet] = n]
    BY <1>3 DEF verifyWalletSignature, consumeNonce
  <2>2. n \in Nonce /\ n.id = None
    BY Sizes DEF Nonce, None
  <2> HIDE DEF n
  <2>3. QED BY <1>t, <2>1, <2>2 DEF Drops
<1>4. ASSUME Tick PROVE Good
  <2>1. nonce' = [w \in Wallets |-> Lapse(nonce[w], [id |-> None, left |-> 0])]
    BY <1>4 DEF Tick
  <2>2. \A w \in Wallets : /\ Lapse(nonce[w], [id |-> None, left |-> 0]) \in Nonce
                           /\ Lapse(nonce[w], [id |-> None, left |-> 0]).id \in {nonce[w].id, None}
    BY <1>t, LapseNonce
  <2>3. QED BY <2>1, <2>2 DEF Drops
<1>5. ASSUME NEW r \in Requests, ServerStep(r)
      PROVE  issueNonce(r) \/ verifyWalletSignature(r) \/ UNCHANGED nonce
  BY <1>5 DEF ServerStep, VerifyArrives, upsertWalletOwner, CreateOwner,
              connectWallet, issueSession, RecordSession, ClearFailures,
              recordFailure, ExpireFailures, rotateRefreshToken, BurnFamily, RevokeRotated, logout
<1>6. ASSUME NEW r \in Requests, Client(r) PROVE UNCHANGED nonce
  <2>1. SignIn(r) \/ useConnect(r) \/ LogOut(r) => UNCHANGED nonce
    BY DEF SignIn, useConnect, LogOut
  <2>2. useSessionRestore(r) \/ (\E q \in Requests : Redelivered(q, r)) => UNCHANGED nonce
    BY Zenon DEF useSessionRestore, Redelivered
  <2>3. QED BY <1>6, <2>1, <2>2 DEF Client
<1>7. ASSUME NEW r \in Requests, PageStep(r) PROVE UNCHANGED nonce
  BY <1>7 DEF PageStep, SignMessage, completeAuth, apiRequestFails, OrphanEnds
<1>8. ASSUME NEW r \in Requests, Crash(r) \/ CallThrows(r) \/ RowExpires(r) PROVE UNCHANGED nonce
  BY <1>8 DEF Crash, CallThrows, RowExpires
<1>9. ASSUME NEW a \in Accounts, SelectAccount(a) PROVE UNCHANGED nonce
  BY <1>9 DEF SelectAccount, serverVars
<1>10. signOut \/ useWalletSession \/ UNCHANGED vars => UNCHANGED nonce
  BY DEF signOut, useWalletSession, vars, serverVars
<1>a. ASSUME NEW c \in Changes, Admin(c) \/ AdminStep(c) PROVE UNCHANGED nonce
  BY <1>a DEF Admin, ReadStatus, ChangeFails, AdminStep, ChangeStatus, RevokeAllRows,
              revokeAllSessions
<1> HIDE DEF Good
<1>11. Good
  BY <1>1, <1>2, <1>3, <1>4, <1>5, <1>6, <1>7, <1>8, <1>9, <1>10, <1>a DEF Next
<1>12. QED BY <1>11 DEF Good

(* The name is taken after the step.                                      *)
Taken(n) == n \in Requests /\ request'[n].pc \notin {"new", "nonce"}

LEMMA CalmNonces ==
  ASSUME AInv, AllCalm, Drops
  PROVE  NonceOK'
<1>0. NonceOK /\ \A q \in Requests : Calm(q)
  BY DEF AInv, AllCalm
<1>1. ASSUME NEW n, Known(n) PROVE Taken(n) /\ request'[n].wallet = request[n].wallet
  BY <1>0, <1>1 DEF Known, Taken, Calm
<1>2. ASSUME NEW r \in Requests, request'[r].nonce # None PROVE Taken(request'[r].nonce)
  <2>1. PICK p \in Requests : request[p].nonce = request'[r].nonce
    BY <1>0, <1>2 DEF Calm
  <2>2. Known(request[p].nonce)
    BY <1>0, <1>2, <2>1 DEF NonceOK
  <2>3. QED BY <1>1, <2>1, <2>2
<1>3. ASSUME NEW w \in Wallets, nonce'[w].id # None
      PROVE  Taken(nonce'[w].id) /\ request'[nonce'[w].id].wallet = w
  <2>1. nonce'[w].id = nonce[w].id
    BY <1>3 DEF Drops
  <2>2. Known(nonce[w].id) /\ request[nonce[w].id].wallet = w
    BY <1>0, <1>3, <2>1 DEF NonceOK
  <2>3. QED BY <1>1, <2>1, <2>2
<1>4. ASSUME NEW r \in Requests, NEW w \in Wallets, Spent(r)'
      PROVE  nonce'[w].id # request'[r].nonce
  <2>1. Spent(r) /\ request'[r].nonce = request[r].nonce /\ request'[r].nonce # None
    BY <1>0, <1>4 DEF Calm, Spent
  <2>2. QED BY <1>0, <2>1 DEF NonceOK, Drops
<1>5. ASSUME NEW q \in Requests, NEW r \in Requests, q # r, Spent(q)', Spent(r)'
      PROVE  request'[q].nonce # request'[r].nonce
  <2>1. /\ Spent(q) /\ request'[q].nonce = request[q].nonce
        /\ Spent(r) /\ request'[r].nonce = request[r].nonce
    BY <1>0, <1>5 DEF Calm
  <2>2. QED BY <1>0, <1>5, <2>1 DEF NonceOK
<1>6. QED BY <1>2, <1>3, <1>4, <1>5 DEF NonceOK, Known, Taken

(* A new nonce bears a name that no request and no wallet has.             *)
LEMMA IssuedNonces ==
  ASSUME AInv, [Next]_vars, UsersKept, NEW r \in Requests, Issues(r)
  PROVE  NonceOK'
<1> DEFINE w == request[r].wallet
<1>1. /\ NonceOK /\ request'[r].pc = "signing" /\ request'[r].nonce = r
      /\ request'[r].wallet = w /\ w \in Wallets
      /\ session'[r].nonce = None
      /\ \A q \in Requests : q # r => request'[q] = request[q] /\ Calm(q)
  BY IssuesMoves DEF AInv
<1>2. /\ nonce'[w].id = r
      /\ \A v \in Wallets : v # w => nonce'[v] = nonce[v]
  BY <1>1 DEF Issues, AInv, Typed
<1>3. ~Known(r) /\ Taken(r)
  BY <1>1 DEF Issues, At, Known, Taken
<1>4. ASSUME NEW n, Known(n) PROVE Taken(n) /\ n # r /\ request'[n] = request[n]
  BY <1>1, <1>3, <1>4 DEF Known, Taken
<1>5. ASSUME NEW q \in Requests, Spent(q)'
      PROVE  q # r /\ Spent(q) /\ request'[q].nonce = request[q].nonce /\ Known(request[q].nonce)
  <2>1. q # r
    BY <1>1, <1>5 DEF Spent
  <2>2. Spent(q) /\ request'[q].nonce = request[q].nonce
    BY <1>1, <1>5, <2>1 DEF Calm
  <2>3. QED BY <1>1, <2>1, <2>2 DEF NonceOK, Spent
<1>6. ASSUME NEW q \in Requests, request'[q].nonce # None PROVE Taken(request'[q].nonce)
  <2>1. CASE q = r
    BY <1>1, <1>3, <2>1
  <2>2. CASE q # r
    <3>1. Known(request[q].nonce) /\ request'[q].nonce = request[q].nonce
      BY <1>1, <1>6, <2>2 DEF NonceOK
    <3>2. QED BY <1>4, <3>1
  <2>3. QED BY <2>1, <2>2
<1>7. ASSUME NEW v \in Wallets, nonce'[v].id # None
      PROVE  Taken(nonce'[v].id) /\ request'[nonce'[v].id].wallet = v
  <2>1. CASE v = w
    BY <1>1, <1>2, <1>3, <2>1
  <2>2. CASE v # w
    <3>1. /\ nonce'[v] = nonce[v] /\ Known(nonce[v].id)
          /\ request[nonce[v].id].wallet = v
      BY <1>1, <1>2, <1>7, <2>2 DEF NonceOK
    <3>2. QED BY <1>4, <3>1
  <2>3. QED BY <2>1, <2>2
<1>8. ASSUME NEW q \in Requests, NEW v \in Wallets, Spent(q)'
      PROVE  nonce'[v].id # request'[q].nonce
  BY <1>1, <1>2, <1>3, <1>5, <1>8 DEF NonceOK
<1>9. ASSUME NEW q \in Requests, NEW p \in Requests, q # p, Spent(q)', Spent(p)'
      PROVE  request'[q].nonce # request'[p].nonce
  BY <1>1, <1>5, <1>9 DEF NonceOK
<1>10. QED BY <1>6, <1>7, <1>8, <1>9 DEF NonceOK, Known, Taken

(* A consumed nonce is no longer its wallet's, and was no other wallet's.  *)
LEMMA ConsumedNonces ==
  ASSUME AInv, [Next]_vars, UsersKept, NEW r \in Requests, Consumes(r)
  PROVE  NonceOK'
<1> DEFINE w == request[r].wallet
           n == request[r].nonce
<1>1. /\ NonceOK /\ Gone(r, "find") /\ w \in Wallets
      /\ \A q \in Requests : q # r => request'[q] = request[q] /\ Calm(q)
  BY ConsumesMoves DEF AInv
<1>2. /\ nonce'[w].id = None /\ nonce[w].id = n /\ n # None
      /\ \A v \in Wallets : v # w => nonce'[v] = nonce[v]
  BY <1>1 DEF Consumes, consumeNonce, AInv, Typed
<1>3. \A q \in Requests : request'[q].nonce = request[q].nonce /\ request'[q].wallet = request[q].wallet
  BY <1>1 DEF Gone
<1>4. ASSUME NEW m, Known(m) PROVE Taken(m)
  BY <1>1, <1>4 DEF Known, Taken, Gone
<1>5. ASSUME NEW q \in Requests, q # r, Spent(q)' PROVE Spent(q)
  BY <1>1, <1>5 DEF Calm
<1>6. ASSUME NEW q \in Requests, request'[q].nonce # None PROVE Taken(request'[q].nonce)
  BY <1>1, <1>3, <1>4, <1>6 DEF NonceOK
<1>7. ASSUME NEW v \in Wallets, nonce'[v].id # None
      PROVE  Taken(nonce'[v].id) /\ request'[nonce'[v].id].wallet = v
  <2>1. /\ nonce'[v] = nonce[v] /\ Known(nonce[v].id) /\ request[nonce[v].id].wallet = v
    BY <1>1, <1>2, <1>7 DEF NonceOK
  <2>2. QED BY <1>3, <1>4, <2>1 DEF Known
<1>8. ASSUME NEW q \in Requests, NEW v \in Wallets, Spent(q)'
      PROVE  nonce'[v].id # request'[q].nonce
  <2>1. request'[q].nonce # None /\ request'[q].nonce = request[q].nonce
    BY <1>3, <1>8 DEF Spent
  <2>2. CASE v = w
    BY <1>2, <2>1, <2>2
  <2>3. CASE v # w /\ q # r
    BY <1>1, <1>2, <1>5, <1>8, <2>1, <2>3 DEF NonceOK
  <2>4. CASE v # w /\ q = r
    <3>1. request[n].wallet = w
      BY <1>1, <1>2 DEF NonceOK
    <3>2. nonce[v].id = n => request[n].wallet = v
      BY <1>1, <1>2 DEF NonceOK
    <3>3. QED BY <1>2, <2>1, <2>4, <3>1, <3>2
  <2>5. QED BY <2>2, <2>3, <2>4
<1>9. ASSUME NEW q \in Requests, NEW p \in Requests, q # p, Spent(q)', Spent(p)'
      PROVE  request'[q].nonce # request'[p].nonce
  <2>1. ASSUME NEW s \in Requests, s # r, Spent(s)' PROVE request[s].nonce # n
    BY <1>1, <1>2, <1>5, <2>1 DEF NonceOK
  <2>2. CASE q # r /\ p # r
    BY <1>1, <1>3, <1>5, <1>9, <2>2 DEF NonceOK
  <2>3. CASE q = r
    BY <1>3, <1>9, <2>1, <2>3
  <2>4. CASE p = r
    BY <1>3, <1>9, <2>1, <2>4
  <2>5. QED BY <2>2, <2>3, <2>4
<1>10. QED BY <1>6, <1>7, <1>8, <1>9 DEF NonceOK, Known, Taken

LEMMA NoncesStayOK ==
  ASSUME AInv, [Next]_vars
  PROVE  NonceOK'
<1>1. ASSUME UsersKept, NEW r \in Requests, Issues(r) \/ Consumes(r)
      PROVE  NonceOK'
  BY <1>1, IssuedNonces, ConsumedNonces
<1>2. CASE AllCalm /\ Drops
  BY <1>2, CalmNonces
<1>3. QED BY <1>1, <1>2, RequestStep, NonceStep

(***************************************************************************)
(* The failure counters, the faults, the page and the cookie.              *)
(***************************************************************************)

LEMMA FailuresStep ==
  ASSUME AInv, [Next]_vars
  PROVE  failures' \in [Wallets -> Counter]
<1> DEFINE Good == failures' \in [Wallets -> Counter]
<1>t. failures \in [Wallets -> Counter]
  BY DEF AInv, Typed
<1>1. ASSUME UNCHANGED failures PROVE Good
  BY <1>t, <1>1
<1>2. ASSUME NEW r \in Requests, ClearFailures(r) PROVE Good
  <2> DEFINE c == [count |-> 0, left |-> 0]
  <2>1. failures' = [failures EXCEPT ![request[r].wallet] = c]
    BY <1>2 DEF ClearFailures
  <2>2. c \in Counter
    BY Sizes DEF Counter
  <2> HIDE DEF c
  <2>3. QED BY <1>t, <2>1, <2>2
<1>3. ASSUME NEW r \in Requests, recordFailure(r) PROVE Good
  <2> DEFINE w == request[r].wallet
             n == Least(failures[w].count + 1, MaxFailures)
             c == [failures[w] EXCEPT !.count = n]
  <2>1. failures' = [failures EXCEPT ![w] = c]
    BY <1>3 DEF recordFailure
  <2>2. ASSUME w \in Wallets PROVE c \in Counter
    <3>1. failures[w] \in Counter
      BY <1>t, <2>2
    <3>2. n \in 0..MaxFailures
      BY <3>1, Sizes DEF Counter, Least
    <3> HIDE DEF n
    <3>3. QED BY <3>1, <3>2 DEF Counter
  <2> HIDE DEF c
  <2>3. QED BY <1>t, <2>1, <2>2
<1>4. ASSUME NEW r \in Requests, ExpireFailures(r) PROVE Good
  <2> DEFINE w == request[r].wallet
             c == [failures[w] EXCEPT !.left = FailureWindow]
  <2>1. UNCHANGED failures \/ failures' = [failures EXCEPT ![w] = c]
    BY <1>4 DEF ExpireFailures
  <2>2. ASSUME w \in Wallets PROVE c \in Counter
    <3>1. failures[w] \in Counter /\ FailureWindow \in 0..FailureWindow
      BY <1>t, <2>2, Sizes
    <3>2. QED BY <3>1 DEF Counter
  <2> HIDE DEF c
  <2>3. QED BY <1>t, <1>1, <2>1, <2>2
<1>5. ASSUME Tick PROVE Good
  <2>1. failures' = [w \in Wallets |-> Lapse(failures[w], [count |-> 0, left |-> 0])]
    BY <1>5 DEF Tick
  <2>2. \A w \in Wallets : Lapse(failures[w], [count |-> 0, left |-> 0]) \in Counter
    BY <1>t, LapseCounter
  <2>3. QED BY <2>1, <2>2
<1>6. ASSUME NEW r \in Requests, ServerStep(r)
      PROVE  ClearFailures(r) \/ recordFailure(r) \/ ExpireFailures(r) \/ UNCHANGED failures
  BY <1>6 DEF ServerStep, issueNonce, VerifyArrives, verifyWalletSignature, upsertWalletOwner,
              CreateOwner, connectWallet, issueSession, RecordSession, rotateRefreshToken,
              BurnFamily, RevokeRotated, logout
<1>7. ASSUME NEW r \in Requests, Client(r) PROVE UNCHANGED failures
  <2>1. SignIn(r) \/ useConnect(r) \/ LogOut(r) => UNCHANGED failures
    BY DEF SignIn, useConnect, LogOut
  <2>2. useSessionRestore(r) \/ (\E q \in Requests : Redelivered(q, r)) => UNCHANGED failures
    BY Zenon DEF useSessionRestore, Redelivered
  <2>3. QED BY <1>7, <2>1, <2>2 DEF Client
<1>8. ASSUME NEW r \in Requests, PageStep(r) PROVE UNCHANGED failures
  BY <1>8 DEF PageStep, SignMessage, completeAuth, apiRequestFails, OrphanEnds
<1>9. ASSUME NEW r \in Requests, Crash(r) \/ CallThrows(r) \/ RowExpires(r) PROVE UNCHANGED failures
  BY <1>9 DEF Crash, CallThrows, RowExpires
<1>10. ASSUME NEW a \in Accounts, SelectAccount(a) PROVE UNCHANGED failures
  BY <1>10 DEF SelectAccount, serverVars
<1>11. signOut \/ useWalletSession \/ UNCHANGED vars => UNCHANGED failures
  BY DEF signOut, useWalletSession, vars, serverVars
<1>a. ASSUME NEW c \in Changes, Admin(c) \/ AdminStep(c) PROVE UNCHANGED failures
  BY <1>a DEF Admin, ReadStatus, ChangeFails, AdminStep, ChangeStatus, RevokeAllRows,
              revokeAllSessions
<1> HIDE DEF Good
<1>12. Good
  BY <1>1, <1>2, <1>3, <1>4, <1>5, <1>6, <1>7, <1>8, <1>9, <1>10, <1>11, <1>a DEF Next
<1>13. QED BY <1>12 DEF Good

LEMMA FaultsStep ==
  ASSUME AInv, [Next]_vars
  PROVE  faults' \in 0..MaxFaults
<1>0. faults \in 0..MaxFaults
  BY DEF AInv, Typed
<1> DEFINE Counted == UNCHANGED faults \/ (faults < MaxFaults /\ faults' = faults + 1)
<1>1. ASSUME NEW r \in Requests, ServerStep(r) PROVE Counted
  BY <1>1 DEF ServerStep, issueNonce, VerifyArrives, verifyWalletSignature, upsertWalletOwner,
              CreateOwner, connectWallet, issueSession, RecordSession, ClearFailures,
              recordFailure, ExpireFailures, rotateRefreshToken, BurnFamily, RevokeRotated, logout
<1>2. ASSUME NEW r \in Requests, Client(r) PROVE Counted
  <2>1. SignIn(r) \/ useConnect(r) \/ LogOut(r) => UNCHANGED faults
    BY DEF SignIn, useConnect, LogOut
  <2>2. useSessionRestore(r) \/ (\E q \in Requests : Redelivered(q, r)) => UNCHANGED faults
    BY Zenon DEF useSessionRestore, Redelivered
  <2>3. QED BY <1>2, <2>1, <2>2 DEF Client
<1>3. ASSUME NEW r \in Requests, PageStep(r) PROVE Counted
  BY <1>3 DEF PageStep, SignMessage, completeAuth, apiRequestFails, OrphanEnds
<1>4. ASSUME NEW r \in Requests, Crash(r) \/ CallThrows(r) \/ RowExpires(r) PROVE Counted
  BY <1>4 DEF Crash, CallThrows, RowExpires
<1>5. ASSUME NEW a \in Accounts, SelectAccount(a) PROVE Counted
  BY <1>5 DEF SelectAccount, serverVars
<1>6. signOut \/ useWalletSession \/ Tick \/ UNCHANGED vars => Counted
  BY DEF signOut, useWalletSession, vars, serverVars, Tick
<1>a. ASSUME NEW c \in Changes, Admin(c) \/ AdminStep(c) PROVE Counted
  BY <1>a DEF Admin, ReadStatus, ChangeFails, AdminStep, ChangeStatus, RevokeAllRows,
              revokeAllSessions
<1> HIDE DEF Counted
<1>7. Counted
  BY <1>1, <1>2, <1>3, <1>4, <1>5, <1>6, <1>a DEF Next
<1>8. QED BY <1>0, <1>7, Sizes DEF Counted

Page == [address : Accounts, wallet : Accounts, token : 0..MaxRequests]

LEMMA AnonymousPage ==
  ASSUME NEW p \in Page
  PROVE  Anonymous(p) \in Page
<1>1. NoWallet \in Accounts /\ None \in 0..MaxRequests
  BY Sizes DEF Accounts, None
<1>2. QED BY <1>1 DEF Anonymous, Page

(* What an answer leaves behind names a session that has been signed.      *)
LEMMA PageStepOK ==
  ASSUME AInv, [Next]_vars
  PROVE  /\ page' \in Page /\ cookie' \in 0..MaxRequests
         /\ cookie' # None => session'[cookie'].owner # NoWallet
<1> DEFINE Tracks == cookie' = cookie \/ cookie' = None
                       \/ \E r \in Requests : cookie' = r /\ session[r].owner # NoWallet
           Good == page' \in Page /\ Tracks
<1>0. /\ page \in Page /\ cookie \in 0..MaxRequests
      /\ cookie # None => session[cookie].owner # NoWallet
  BY DEF AInv, Typed, Page
<1>e. [address |-> NoWallet, wallet |-> NoWallet, token |-> None] \in Page
  BY Sizes DEF Page, Accounts, None
<1>1. ASSUME UNCHANGED <<page, cookie>> PROVE Good
  BY <1>0, <1>1
<1>2. ASSUME NEW a \in Accounts, SelectAccount(a) PROVE Good
  <2> DEFINE p == IF page.address # NoWallet THEN Anonymous(page) ELSE page
  <2>1. p \in Page
    BY <1>0, AnonymousPage
  <2>2. page' = [p EXCEPT !.address = a] /\ UNCHANGED cookie
    BY <1>2 DEF SelectAccount
  <2> HIDE DEF p
  <2>3. QED BY <2>1, <2>2 DEF Page
<1>3. ASSUME signOut \/ useWalletSession PROVE Good
  BY <1>0, <1>3, AnonymousPage DEF signOut, useWalletSession
<1>4. ASSUME NEW r \in Requests, useSessionRestore(r) PROVE Good
  BY <1>4, <1>e DEF useSessionRestore
<1>5. ASSUME NEW r \in Requests, completeAuth(r) PROVE Good
  <2>1. CASE request[r].kind = "logout"
    BY <1>0, <1>5, <2>1 DEF completeAuth, clearRefreshCookie, None
  <2>2. CASE request[r].kind # "logout"
    <3> DEFINE o == session[r].owner
    <3>1. cookie' = r /\ page' = [page EXCEPT !.wallet = o, !.token = r]
      BY <1>5, <2>2 DEF completeAuth, setRefreshCookie
    <3>2. o \in Accounts /\ o # NoWallet /\ r \in 0..MaxRequests
      BY <1>5, <2>2, RequestParts DEF completeAuth, At, SessionOK, Owners, Accounts, Requests
    <3> HIDE DEF o
    <3>3. page' \in Page
      BY <1>0, <3>1, <3>2 DEF Page
    <3>4. QED BY <3>1, <3>2, <3>3 DEF o
  <2>3. QED BY <2>1, <2>2
<1>6. ASSUME NEW r \in Requests, apiRequestFails(r) PROVE Good
  BY <1>0, <1>6, AnonymousPage DEF apiRequestFails
<1>7. ASSUME NEW r \in Requests, SignMessage(r) \/ OrphanEnds(r) PROVE UNCHANGED <<page, cookie>>
  BY <1>7 DEF SignMessage, OrphanEnds
<1>8. ASSUME NEW r \in Requests, Client(r) PROVE useSessionRestore(r) \/ UNCHANGED <<page, cookie>>
  <2>1. SignIn(r) \/ useConnect(r) \/ LogOut(r) => UNCHANGED <<page, cookie>>
    BY DEF SignIn, useConnect, LogOut
  <2>2. (\E q \in Requests : Redelivered(q, r)) => UNCHANGED <<page, cookie>>
    BY Zenon DEF Redelivered
  <2>3. QED BY <1>8, <2>1, <2>2 DEF Client
<1>9. UNCHANGED vars => UNCHANGED <<page, cookie>>
  BY DEF vars
<1> HIDE DEF Good
<1>10. Good
  BY <1>1, <1>2, <1>3, <1>4, <1>5, <1>6, <1>7, <1>8, <1>9 DEF Next, PageStep
<1>11. page' \in Page /\ Tracks
  BY <1>10 DEF Good
<1>12. OwnersKept
  BY NextKeepsOwners
<1>13. cookie' # None => cookie' \in Requests /\ session[cookie'].owner # NoWallet
  BY <1>0, <1>11, Sizes DEF Requests, None
<1>14. cookie' \in 0..MaxRequests
  BY <1>13, Sizes DEF Requests, None
<1>15. QED BY <1>11, <1>12, <1>13, <1>14 DEF OwnersKept

(***************************************************************************)
(* The invariant and what follows from it.                                 *)
(***************************************************************************)

LEMMA AInvInit ==
  ASSUME Init
  PROVE  AInv
<1>1. /\ Idle \in Request /\ Idle.kind = "none" /\ Idle.pc = "new" /\ Idle.nonce = None
      /\ ~Idle.banned
  BY Sizes DEF Idle, Request, Steps, Owners, None
<1>2. /\ NoSession \in Session /\ NoSession.owner = NoWallet /\ NoSession.row = "none"
      /\ NoSession.nonce = None /\ NoSession.denied = 0
  BY Sizes DEF NoSession, Session, Owners, None
<1>3. /\ request \in [Requests -> Request]
      /\ \A r \in Requests :
           /\ request[r].kind = "none" /\ request[r].nonce = None /\ ~request[r].banned
           /\ request[r].pc = IF r = 1 THEN "done" ELSE "new"
  <2> DEFINE first == [Idle EXCEPT !.pc = "done"]
  <2>1. request = [r \in Requests |-> IF r = 1 THEN first ELSE Idle]
    BY Zenon DEF Init, ServerInit
  <2>2. /\ first \in Request /\ first.kind = "none" /\ first.pc = "done" /\ first.nonce = None
        /\ ~first.banned
    BY <1>1 DEF Request, Steps
  <2> HIDE DEF first
  <2>3. QED BY <1>1, <2>1, <2>2
<1>4. /\ session \in [Requests -> Session]
      /\ \A r \in Requests :
           /\ session[r].nonce = None /\ session[r].denied = 0
           /\ session[r].owner = NoWallet => session[r].row = "none"
           /\ r # 1 => session[r].owner = NoWallet
  <2> DEFINE earlier(w) == [NoSession EXCEPT !.owner = w, !.family = 1, !.row = "live",
                                             !.age = AccessTtl]
  <2>1. ASSUME NEW w \in Wallets
        PROVE  /\ earlier(w) \in Session /\ earlier(w).nonce = None /\ earlier(w).denied = 0
               /\ earlier(w).owner # NoWallet
    <3>1. w \in Owners /\ 1 \in 0..MaxRequests /\ AccessTtl \in 0..AccessTtl /\ w # NoWallet
      BY Sizes DEF Owners
    <3>2. QED BY <1>2, <3>1 DEF Session
  <2>2. \E s \in {NoSession} \cup {earlier(w) : w \in {v \in Wallets : user[v] # "none"}} :
          session = [r \in Requests |-> IF r = 1 THEN s ELSE NoSession]
    BY Zenon DEF Init, ServerInit
  <2> HIDE DEF earlier
  <2>3. PICK s : /\ s = NoSession \/ \E w \in Wallets : s = earlier(w)
                 /\ session = [r \in Requests |-> IF r = 1 THEN s ELSE NoSession]
    BY <2>2
  <2>4. /\ s \in Session /\ s.nonce = None /\ s.denied = 0
        /\ s.owner = NoWallet => s.row = "none"
    BY <1>2, <2>1, <2>3
  <2>5. QED BY <1>2, <2>3, <2>4
<1>5. /\ nonce = [w \in Wallets |-> [id |-> None, left |-> 0]]
      /\ failures = [w \in Wallets |-> [count |-> 0, left |-> 0]]
      /\ cutoff = [w \in Wallets |-> [age |-> 0, left |-> 0]]
      /\ change = [c \in Changes |-> NoChange]
      /\ faults = 0
      /\ page = [address |-> NoWallet, wallet |-> NoWallet, token |-> None]
      /\ user \in [Wallets -> {"none", "ACTIVE"}]
      /\ cookie = IF session[1].owner = NoWallet THEN None ELSE 1
  BY Zenon DEF Init, ServerInit
<1>6. Typed
  <2>1. nonce \in [Wallets -> Nonce] /\ failures \in [Wallets -> Counter]
        /\ cutoff \in [Wallets -> Cutoff]
    BY <1>5, Sizes DEF Nonce, Counter, Cutoff, None
  <2>0. NoChange \in Change
    BY Sizes DEF NoChange, Change, Owners, Status
  <2>2. /\ change \in [Changes -> Change]
        /\ page \in [address : Accounts, wallet : Accounts, token : 0..MaxRequests]
        /\ faults \in 0..MaxFaults /\ cookie \in 0..MaxRequests
    BY <1>5, <2>0, Sizes DEF Owners, Accounts, None
  <2>3. user \in [Wallets -> {"none", "ACTIVE", "SHADOWBANNED", "BANNED"}]
    BY <1>5
  <2>4. QED BY <1>3, <1>4, <2>1, <2>2, <2>3 DEF Typed
<1>7. ASSUME NEW r \in Requests PROVE RequestOK(r) /\ SessionOK(r)
  BY <1>3, <1>4 DEF RequestOK, SessionOK
<1>8. NonceOK
  BY <1>3, <1>5 DEF NonceOK, Spent
<1>9. \A w \in Wallets : CutoffOK(w)
  BY <1>5 DEF CutoffOK
<1>10. \A c \in Changes : ChangeOK(c)
  BY <1>5 DEF ChangeOK, NoChange
<1>11. QED BY <1>5, <1>6, <1>7, <1>8, <1>9, <1>10 DEF AInv, None

LEMMA AInvStep ==
  ASSUME AInv, [Next]_vars
  PROVE  AInv'
<1>1. user' \in [Wallets -> {"none", "ACTIVE", "SHADOWBANNED", "BANNED"}]
  BY UserStep DEF Status
<1>2. session' \in [Requests -> Session]
  BY SessionStep DEF SessionsMove
<1>3. RequestsOK' /\ NonceOK' /\ CutoffsOK' /\ ChangesOK'
  BY RequestsStayOK, NoncesStayOK, CutoffStep
<1>4. nonce' \in [Wallets -> Nonce] /\ failures' \in [Wallets -> Counter] /\ faults' \in 0..MaxFaults
  BY NonceStep, FailuresStep, FaultsStep
<1>5. /\ page' \in Page /\ cookie' \in 0..MaxRequests
      /\ cookie' # None => session'[cookie'].owner # NoWallet
  BY PageStepOK
<1>6. Typed'
  BY <1>1, <1>2, <1>3, <1>4, <1>5 DEF Typed, RequestsOK, CutoffsOK, ChangesOK, Page
<1>7. QED BY <1>3, <1>5, <1>6 DEF AInv, RequestsOK, Fine, CutoffsOK, ChangesOK

LEMMA AInvMeans ==
  ASSUME AInv
  PROVE  SessionInv
<1>1. TypeOK
  <2>1. /\ session \in [Requests -> [owner : Accounts, family : 0..MaxRequests,
                               row : {"none", "live", "revoked", "expired"},
                               age : 0..AccessTtl,
                               denied : 0..AccessTtl, nonce : 0..MaxRequests]]
    <3>1. \A r \in Requests : session[r] \in Session
      BY DEF AInv, Typed
    <3>2. Session \subseteq [owner : Accounts, family : 0..MaxRequests,
                               row : {"none", "live", "revoked", "expired"},
                               age : 0..AccessTtl,
                               denied : 0..AccessTtl, nonce : 0..MaxRequests]
      BY DEF Session, Owners, Accounts
    <3>3. QED BY <3>1, <3>2 DEF AInv, Typed
  <2>2. \A w \in Wallets :
          /\ user[w] \in {"none", "ACTIVE", "SHADOWBANNED", "BANNED"}
          /\ nonce[w] \in [id : 0..MaxRequests, left : 0..NonceTtl]
          /\ failures[w] \in [count : 0..MaxFailures, left : 0..FailureWindow]
          /\ cutoff[w] \in [age : 0..AccessTtl, left : 0..(2 * AccessTtl)]
    BY DEF AInv, Typed, Nonce, Counter, Cutoff
  <2>3. page.token \in 0..MaxRequests /\ cookie \in 0..MaxRequests /\ faults \in 0..MaxFaults
    BY DEF AInv, Typed
  <2>4. QED BY <2>1, <2>2, <2>3 DEF TypeOK
<1>2. NonceOnce
  <2> SUFFICES ASSUME NEW q \in Requests, NEW r \in Requests, q # r, session[q].nonce # None,
                      session[q].nonce = session[r].nonce
               PROVE  FALSE
    BY DEF NonceOnce
  <2>1. session[q].nonce = request[q].nonce /\ session[r].nonce = request[r].nonce
    BY RequestParts DEF SessionOK
  <2>2. Spent(q) /\ Spent(r)
    BY <2>1 DEF Spent
  <2>3. QED BY <2>1, <2>2 DEF AInv, NonceOK
<1>3. BannedGetNothing
  BY RequestParts DEF BannedGetNothing, At, RequestOK
<1>4. QED BY <1>1, <1>2, <1>3 DEF SessionInv

(* Whatever is redelivered, retried, timed out or crashes in between, a     *)
(* nonce opens one session at most and an account that is banned all along *)
(* gets none (auth.service.ts).                                             *)
THEOREM SessionIsSafe == Spec => []SessionInv
<1>1. Init => AInv
  BY AInvInit
<1>2. AInv /\ [Next]_vars => AInv'
  BY AInvStep
<1>3. AInv => SessionInv
  BY AInvMeans
<1>4. QED BY <1>1, <1>2, <1>3, PTL DEF Spec

(* An access token that was refused once, because it expired, was put on   *)
(* the denylist or fell before a cut-off, stays refused whatever number of *)
(* changes of a status overlap: neither Redis entry lapses before the      *)
(* token does (revokeAccessToken, revokeAllSessions), and the one step     *)
(* that takes a refusal back is that of a change which captured its time   *)
(* before the cut-off that stands and writes it afterwards.                *)
THEOREM RefusedForGood == Spec => RefusedStaysRefused
<1>1. Init => AInv
  BY AInvInit
<1>2. AInv /\ [Next]_vars => AInv'
  BY AInvStep
<1>3. AInv /\ [Next]_vars =>
        [\A r \in Requests : Issued(r) /\ Refused(r) =>
           Refused(r)' \/ LateRevocation(session[r].owner)]_vars
  BY RefusedStep
<1>4. QED BY <1>1, <1>2, <1>3, PTL DEF Spec, RefusedStaysRefused

(***************************************************************************)
(* The entry fee.  Besides FeeInv: during a countdown the guard of the     *)
(* second effect names a game that was asked for in this countdown, the    *)
(* memory of the countdown is that of the room shown, and what landed is   *)
(* on chain.                                                               *)
(***************************************************************************)
Games == 1..MaxGames
BoardRoom == [queued : BOOLEAN, status : {"waiting", "countdown", "launching"},
              game : Games \cup {NoGame}]
FeeState == [status : {"idle", "preparing", "sending", "failed", "paid"},
             paidFor : Games \cup {NoGame}, wasCounting : BOOLEAN,
             shownFor : Games \cup {NoGame}, answered : SUBSET Games]
Chain == [games : 0..MaxGames, entered : SUBSET Games, bounced : SUBSET Games]

(* The id only tells the calls apart.                                      *)
PayShape(p) ==
  p \in [id : {p.id}, game : Games, step : {"preparing", "signing", "confirming"},
         landed : {"none", "ok", "err"}, asked : {"now", "before", "gone"}]

PayOK(p, onChain) ==
  PayShape(p) /\ (p.landed # "none" => p.game \in onChain.entered \cup onChain.bounced)

(* Asked for since the countdown began.                                    *)
Handled(f, ps, game) ==
  game \in f.answered \/ \E p \in ps : p.asked = "now" /\ p.game = game

(* What the hook knows of the room r it shows.                             *)
KnowsRoom(f, ps, r) ==
  /\ f.wasCounting = counting(r)
  /\ counting(r) /\ f.paidFor # NoGame => Handled(f, ps, f.paidFor)
  /\ counting(r) /\ r.game # NoGame => Handled(f, ps, r.game)

Paid(f, onChain) == f.status = "paid" => f.shownFor \in onChain.entered \cup onChain.bounced

EntryTyped ==
  /\ room \in BoardRoom /\ seen \in BoardRoom /\ chain \in Chain /\ mounted \in BOOLEAN
  /\ publicKey \in BOOLEAN /\ fee \in FeeState /\ \A p \in pays : PayOK(p, chain)

BoardInv == EntryTyped /\ (mounted => KnowsRoom(fee, pays, seen)) /\ Paid(fee, chain)

LEMMA EntryConstants == MaxGames \in Nat /\ MaxGames >= 1 /\ NoGame \notin Games /\ 1 \in Games
BY EntryAssumption DEF NoGame, Games

LEMMA FreshFeeOK ==
  /\ FreshFee \in FeeState /\ FreshFee.status = "idle" /\ FreshFee.paidFor = NoGame
  /\ FreshFee.wasCounting = FALSE
BY DEF FreshFee, FeeState

LEMMA BoardInvInit == EntryInit => BoardInv
<1> SUFFICES ASSUME EntryInit PROVE BoardInv
  OBVIOUS
<1>1. EntryTyped
  BY EntryConstants, FreshFeeOK DEF EntryInit, EntryTyped, BoardRoom, Chain
<1>2. counting(seen) = FALSE /\ fee = FreshFee
  BY DEF EntryInit, counting
<1>3. KnowsRoom(fee, pays, seen)
  <2>1. fee.wasCounting = FALSE
    BY <1>2, FreshFeeOK
  <2>2. QED BY <1>2, <2>1, Zenon DEF KnowsRoom
<1>4. Paid(fee, chain)
  BY <1>2, FreshFeeOK DEF Paid
<1>5. QED BY <1>1, <1>3, <1>4 DEF BoardInv

(* A call of pay(game), whether or not an account is connected.            *)
LEMMA PayAsks ==
  ASSUME NEW f \in FeeState, NEW calls, \A p \in calls : PayOK(p, chain),
         NEW game \in Games, NEW connected, pay(f, calls, game, connected)
  PROVE  /\ fee' \in FeeState /\ \A p \in pays' : PayOK(p, chain)
         /\ fee'.wasCounting = f.wasCounting /\ fee'.paidFor = game /\ fee'.status # "paid"
         /\ Handled(fee', pays', game)
         /\ \A g : Handled(f, calls, g) => Handled(fee', pays', g)
<1>1. CASE connected
  <2> DEFINE new == NewPay(game)
             left == f.answered \ {game}
             a == [f EXCEPT !.paidFor = game, !.status = "preparing", !.answered = left]
  <2>1. fee' = a /\ pays' = calls \cup {new}
    BY <1>1 DEF pay
  <2>2. /\ a \in FeeState /\ a.wasCounting = f.wasCounting /\ a.paidFor = game
        /\ a.status = "preparing" /\ a.answered = f.answered \ {game}
    BY DEF FeeState
  <2>3. new.asked = "now" /\ new.game = game /\ new.landed = "none" /\ PayShape(new)
    BY DEF NewPay, PayShape
  <2> HIDE DEF new, a
  <2>4. PayOK(new, chain)
    BY <2>3 DEF PayOK
  <2>5. Handled(fee', pays', game)
    BY <2>1, <2>3 DEF Handled
  <2>6. \A g : g # game /\ Handled(f, calls, g) => Handled(fee', pays', g)
    BY <2>1, <2>2 DEF Handled
  <2>7. QED BY <2>1, <2>2, <2>4, <2>5, <2>6
<1>2. CASE ~connected
  <2> DEFINE more == f.answered \cup {game}
             a == [f EXCEPT !.paidFor = game, !.status = "failed", !.shownFor = game,
                            !.answered = more]
  <2>1. fee' = a /\ pays' = calls
    BY <1>2 DEF pay
  <2>2. /\ a \in FeeState /\ a.wasCounting = f.wasCounting /\ a.paidFor = game
        /\ a.status = "failed" /\ a.answered = f.answered \cup {game}
    BY DEF FeeState
  <2> HIDE DEF a
  <2>3. QED BY <2>1, <2>2 DEF Handled
<1>3. QED BY <1>1, <1>2

(* The second effect, run for the room r.                                  *)
LEMMA AskOnceAsks ==
  ASSUME NEW f \in FeeState, NEW calls, \A p \in calls : PayOK(p, chain),
         NEW r \in BoardRoom, NEW connected, askOnce(f, calls, r, connected),
         f.wasCounting = counting(r),
         counting(r) /\ f.paidFor # NoGame => Handled(f, calls, f.paidFor),
         Paid(f, chain)
  PROVE  /\ fee' \in FeeState /\ \A p \in pays' : PayOK(p, chain)
         /\ KnowsRoom(fee', pays', r) /\ Paid(fee', chain)
<1>1. gameId(r) # NoGame /\ counting(r) => r.game \in Games
  BY DEF BoardRoom, gameId
<1>2. CASE counting(r) /\ gameId(r) # NoGame /\ ~alreadyAsked(f, r.game)
  <2>1. pay(f, calls, r.game, connected) /\ r.game \in Games
    BY <1>1, <1>2 DEF askOnce
  <2>2. /\ fee' \in FeeState /\ \A p \in pays' : PayOK(p, chain)
        /\ fee'.wasCounting = f.wasCounting /\ fee'.paidFor = r.game /\ fee'.status # "paid"
        /\ Handled(fee', pays', r.game)
    BY <2>1, PayAsks
  <2>3. QED BY <2>2 DEF KnowsRoom, Paid
<1>3. CASE ~(counting(r) /\ gameId(r) # NoGame /\ ~alreadyAsked(f, r.game))
  <2>1. fee' = f /\ pays' = calls
    BY <1>3 DEF askOnce
  <2>2. counting(r) /\ r.game # NoGame => Handled(f, calls, r.game)
    BY <1>3 DEF alreadyAsked, gameId, counting
  <2>3. QED BY <2>1, <2>2 DEF KnowsRoom
<1>4. QED BY <1>2, <1>3

(* Both effects, from a state of the hook that fits the room it shows.     *)
LEMMA EffectsAsk ==
  ASSUME EntryTyped, NEW f \in FeeState, NEW shown \in BoardRoom, NEW r \in BoardRoom,
         KnowsRoom(f, pays, shown), Paid(f, chain), payEffects(f, shown, r)
  PROVE  /\ fee' \in FeeState /\ \A p \in pays' : PayOK(p, chain)
         /\ KnowsRoom(fee', pays', r) /\ Paid(fee', chain)
<1> DEFINE c == counting(r)
           begins == CountdownBegins(f, r)
           kept == clearedGuard(f, r)
           answers == IF begins THEN {} ELSE f.answered
           seenBegin == [f EXCEPT !.paidFor = kept, !.wasCounting = c, !.answered = answers]
           calls == IF ~begins THEN pays
                    ELSE {[p EXCEPT !.asked = IF p.asked = "now" THEN "before" ELSE p.asked] : p \in pays}
           changed == c # f.wasCounting \/ gameId(r) # gameId(shown)
<1>1. IF changed THEN askOnce(seenBegin, calls, r, publicKey)
      ELSE fee' = seenBegin /\ pays' = calls
  BY DEF payEffects
<1>2. c \in BOOLEAN /\ kept \in Games \cup {NoGame} /\ answers \in SUBSET Games
  BY DEF BoardRoom, counting, FeeState, clearedGuard
<1>3. /\ begins <=> c /\ ~f.wasCounting
      /\ begins => kept = NoGame
      /\ ~begins => kept = f.paidFor /\ answers = f.answered
  BY DEF CountdownBegins, clearedGuard
<1>4. \A p \in calls : PayOK(p, chain)
  <2>1. ASSUME NEW p \in pays
        PROVE  PayOK([p EXCEPT !.asked = IF p.asked = "now" THEN "before" ELSE p.asked], chain)
    <3> DEFINE a == IF p.asked = "now" THEN "before" ELSE p.asked
               q == [p EXCEPT !.asked = a]
    <3>1. PayOK(p, chain)
      BY DEF EntryTyped
    <3>2. a \in {"now", "before", "gone"}
      BY <3>1 DEF PayOK, PayShape
    <3> HIDE DEF a
    <3>3. PayShape(q) /\ q.landed = p.landed /\ q.game = p.game
      BY <3>1, <3>2 DEF PayOK, PayShape
    <3> HIDE DEF q
    <3>4. PayOK(q, chain)
      BY <3>1, <3>3 DEF PayOK
    <3>5. QED BY <3>4 DEF q, a
  <2>2. QED BY <2>1 DEF EntryTyped
<1>5. ~begins => calls = pays
  OBVIOUS
<1> HIDE DEF calls, kept, answers, begins
<1>6. /\ seenBegin \in FeeState /\ seenBegin.paidFor = kept /\ seenBegin.wasCounting = c
      /\ seenBegin.answered = answers
      /\ seenBegin.status = f.status /\ seenBegin.shownFor = f.shownFor
  <2> HIDE DEF c
  <2>1. QED BY <1>2 DEF FeeState
<1>7. Paid(seenBegin, chain)
  BY <1>6 DEF Paid
<1> HIDE DEF seenBegin
<1>8. ASSUME c, kept # NoGame PROVE Handled(seenBegin, calls, kept)
  <2>1. ~begins /\ f.wasCounting /\ kept = f.paidFor
    BY <1>3, <1>8
  <2>2. Handled(f, pays, f.paidFor)
    BY <1>8, <2>1 DEF KnowsRoom
  <2>3. QED BY <1>3, <1>5, <1>6, <2>1, <2>2 DEF Handled
<1>9. CASE changed
  <2>1. askOnce(seenBegin, calls, r, publicKey)
    BY <1>1, <1>9
  <2> HIDE DEF changed
  <2>2. QED BY <1>4, <1>6, <1>7, <1>8, <2>1, AskOnceAsks
<1>10. CASE ~changed
  <2>1. fee' = seenBegin /\ pays' = calls
    BY <1>1, <1>10
  <2>2. ASSUME c, r.game # NoGame PROVE Handled(seenBegin, calls, r.game)
    <3>1. ~begins /\ f.wasCounting /\ r.game = shown.game /\ counting(shown)
      BY <1>3, <1>10, <2>2 DEF gameId, counting, KnowsRoom
    <3>2. Handled(f, pays, shown.game)
      BY <2>2, <3>1 DEF KnowsRoom
    <3>3. QED BY <1>3, <1>5, <1>6, <3>1, <3>2 DEF Handled
  <2>3. KnowsRoom(fee', pays', r)
    BY <1>6, <1>8, <2>1, <2>2 DEF KnowsRoom
  <2>4. QED BY <1>4, <1>6, <1>7, <2>1, <2>3
<1>11. QED BY <1>9, <1>10

(* A hook whose answers and running calls cover those of before fits what  *)
(* it did.                                                                 *)
LEMMA StillFits ==
  ASSUME NEW f, NEW ps, NEW r, KnowsRoom(fee, pays, r), f.wasCounting = fee.wasCounting,
         f.paidFor \in {fee.paidFor, NoGame},
         \A g : Handled(fee, pays, g) => Handled(f, ps, g)
  PROVE  KnowsRoom(f, ps, r)
BY DEF KnowsRoom

LEMMA HandledStays ==
  ASSUME NEW f, f.answered = fee.answered, NEW p \in pays, NEW q, q.game = p.game,
         q.asked = p.asked
  PROVE  \A g : Handled(fee, pays, g) => Handled(f, (pays \ {p}) \cup {q}, g)
BY DEF Handled

LEMMA BoardInvStep == BoardInv /\ [EntryNext]_entryVars => BoardInv'
<1> SUFFICES ASSUME BoardInv, [EntryNext]_entryVars PROVE BoardInv'
  OBVIOUS
<1>1. /\ EntryTyped /\ (mounted => KnowsRoom(fee, pays, seen)) /\ Paid(fee, chain)
      /\ room \in BoardRoom /\ seen \in BoardRoom /\ chain \in Chain /\ mounted \in BOOLEAN
      /\ publicKey \in BOOLEAN /\ fee \in FeeState /\ \A p \in pays : PayOK(p, chain)
  BY DEF BoardInv, EntryTyped
(* The room and the chain. *)
<1>2. ASSUME room' \in BoardRoom, chain' \in Chain, chain'.entered = chain.entered,
             chain'.bounced = chain.bounced, UNCHANGED <<publicKey, seen, mounted, fee, pays>>
      PROVE  BoardInv'
  <2>1. \A p \in pays : PayOK(p, chain')
    BY <1>1, <1>2 DEF PayOK
  <2>2. QED BY <1>1, <1>2, <2>1 DEF BoardInv, EntryTyped, KnowsRoom, Paid
<1>3. CASE joinOrLeave \/ countDown \/ callOff \/ launchRoom \/ reopenRoom
  <2>1. room' \in BoardRoom
    <3>1. CASE reopenRoom
      BY <3>1 DEF reopenRoom, external, BoardRoom
    <3>2. CASE joinOrLeave
      BY <1>1, <3>2 DEF joinOrLeave, external, BoardRoom
    <3>3. CASE countDown \/ callOff \/ launchRoom
      BY <1>1, <3>3 DEF countDown, callOff, launchRoom, external, BoardRoom
    <3>4. QED BY <1>3, <3>1, <3>2, <3>3
  <2>2. UNCHANGED <<chain, publicKey, seen, mounted, fee, pays>>
    BY <1>3 DEF joinOrLeave, countDown, callOff, launchRoom, reopenRoom, external
  <2>3. QED BY <1>1, <1>2, <2>1, <2>2
<1>4. CASE bindGame
  <2> DEFINE g == chain.games + 1
  <2>1. g \in Games /\ g \in 0..MaxGames
    BY <1>1, <1>4, EntryConstants DEF bindGame, Chain, Games
  <2>2. /\ chain' = [chain EXCEPT !.games = g] /\ room' = [room EXCEPT !.game = g]
        /\ UNCHANGED <<publicKey, seen, mounted, fee, pays>>
    BY <1>4 DEF bindGame
  <2> HIDE DEF g
  <2>3. /\ chain' \in Chain /\ chain'.entered = chain.entered /\ chain'.bounced = chain.bounced
        /\ room' \in BoardRoom
    BY <1>1, <2>1, <2>2 DEF Chain, BoardRoom
  <2>4. QED BY <1>2, <2>2, <2>3
(* The page. *)
<1>5. CASE poll
  <2>1. seen' = room /\ UNCHANGED <<room, chain, publicKey, mounted>>
    BY <1>5 DEF poll
  <2>2. CASE mounted
    <3>1. payEffects(fee, seen, room)
      BY <1>5, <2>2 DEF poll
    <3>2. /\ fee' \in FeeState /\ \A p \in pays' : PayOK(p, chain)
          /\ KnowsRoom(fee', pays', room) /\ Paid(fee', chain)
      BY <1>1, <2>2, <3>1, EffectsAsk
    <3>3. QED BY <1>1, <2>1, <3>2 DEF BoardInv, EntryTyped
  <2>3. CASE ~mounted
    <3>1. UNCHANGED <<fee, pays>>
      BY <1>5, <2>3 DEF poll
    <3>2. QED BY <1>1, <2>1, <2>3, <3>1 DEF BoardInv, EntryTyped
  <2>4. QED BY <2>2, <2>3
<1>6. CASE walletChanges
  <2>1. publicKey' \in BOOLEAN /\ UNCHANGED <<room, chain, seen, mounted>>
    BY <1>6 DEF walletChanges
  <2>2. CASE mounted
    <3>1. askOnce(fee, pays, seen, publicKey')
      BY <1>6, <2>2 DEF walletChanges
    <3>2. /\ fee.wasCounting = counting(seen)
          /\ counting(seen) /\ fee.paidFor # NoGame => Handled(fee, pays, fee.paidFor)
      BY <1>1, <2>2 DEF KnowsRoom
    <3>3. /\ fee' \in FeeState /\ \A p \in pays' : PayOK(p, chain)
          /\ KnowsRoom(fee', pays', seen) /\ Paid(fee', chain)
      BY <1>1, <3>1, <3>2, AskOnceAsks
    <3>4. QED BY <1>1, <2>1, <3>3 DEF BoardInv, EntryTyped
  <2>3. CASE ~mounted
    <3>1. UNCHANGED <<fee, pays>>
      BY <1>6, <2>3 DEF walletChanges
    <3>2. QED BY <1>1, <2>1, <2>3, <3>1 DEF BoardInv, EntryTyped
  <2>4. QED BY <2>2, <2>3
<1>7. CASE unmount
  <2>1. /\ mounted' = FALSE /\ fee' = FreshFee /\ UNCHANGED <<room, chain, publicKey, seen>>
        /\ pays' = {[p EXCEPT !.asked = "gone"] : p \in pays}
    BY <1>7 DEF unmount
  <2>2. \A p \in pays' : PayOK(p, chain)
    <3> SUFFICES ASSUME NEW p \in pays PROVE PayOK([p EXCEPT !.asked = "gone"], chain)
      BY <2>1
    <3> DEFINE q == [p EXCEPT !.asked = "gone"]
    <3>1. PayOK(p, chain)
      BY <1>1
    <3>2. PayShape(q) /\ q.landed = p.landed /\ q.game = p.game
      BY <3>1 DEF PayOK, PayShape
    <3> HIDE DEF q
    <3>3. PayOK(q, chain)
      BY <3>1, <3>2 DEF PayOK
    <3>4. QED BY <3>3 DEF q
  <2>3. QED BY <1>1, <2>1, <2>2, FreshFeeOK DEF BoardInv, EntryTyped, Paid
<1>8. CASE mount
  <2> DEFINE shown == [seen EXCEPT !.queued = FALSE]
  <2>1. /\ mounted' = TRUE /\ payEffects(FreshFee, shown, seen)
        /\ UNCHANGED <<room, chain, publicKey, seen>>
    BY <1>8 DEF mount
  <2>2. shown \in BoardRoom /\ counting(shown) = FALSE
    BY <1>1 DEF BoardRoom, counting
  <2> HIDE DEF shown
  <2>3. FreshFee.wasCounting = FALSE /\ Paid(FreshFee, chain) /\ FreshFee \in FeeState
    BY FreshFeeOK DEF Paid
  <2>4. KnowsRoom(FreshFee, pays, shown)
    BY <2>2, <2>3, Zenon DEF KnowsRoom
  <2>5. /\ fee' \in FeeState /\ \A p \in pays' : PayOK(p, chain)
        /\ KnowsRoom(fee', pays', seen) /\ Paid(fee', chain)
    BY <1>1, <2>1, <2>2, <2>3, <2>4, EffectsAsk
  <2>6. QED BY <1>1, <2>1, <2>5 DEF BoardInv, EntryTyped
<1>9. CASE retry
  <2>1. /\ mounted /\ pay(fee, pays, seen.game, publicKey)
        /\ seen.game \in Games /\ UNCHANGED <<room, chain, publicKey, seen, mounted>>
    BY <1>1, <1>9 DEF retry, gameId, BoardRoom
  <2>2. /\ fee' \in FeeState /\ \A p \in pays' : PayOK(p, chain)
        /\ fee'.wasCounting = fee.wasCounting /\ fee'.paidFor = seen.game /\ fee'.status # "paid"
        /\ Handled(fee', pays', seen.game)
    BY <1>1, <2>1, PayAsks
  <2>3. KnowsRoom(fee', pays', seen) /\ Paid(fee', chain)
    BY <1>1, <2>1, <2>2 DEF KnowsRoom, Paid
  <2>4. QED BY <1>1, <2>1, <2>2, <2>3 DEF BoardInv, EntryTyped
(* A call goes on. *)
<1>10. ASSUME NEW p \in pays, NEW step \in {"signing", "confirming"}, advance(p, step, "sending")
       PROVE  BoardInv'
  <2> DEFINE q == [p EXCEPT !.step = step]
             f == [fee EXCEPT !.status = "sending", !.shownFor = p.game]
  <2>1. /\ pays' = (pays \ {p}) \cup {q} /\ fee' = (IF p.asked # "gone" THEN f ELSE fee)
        /\ UNCHANGED <<room, chain, publicKey, seen, mounted>>
    BY <1>10 DEF advance
  <2>2. PayOK(p, chain)
    BY <1>1
  <2>3. /\ PayShape(q) /\ q.landed = p.landed /\ q.game = p.game /\ q.asked = p.asked
        /\ p.game \in Games
    BY <2>2 DEF PayOK, PayShape
  <2>4. /\ f \in FeeState /\ f.status = "sending" /\ f.paidFor = fee.paidFor
        /\ f.wasCounting = fee.wasCounting /\ f.answered = fee.answered
    BY <1>1, <2>3 DEF FeeState
  <2> HIDE DEF q, f
  <2>5. \A o \in pays' : PayOK(o, chain)
    BY <1>1, <2>1, <2>2, <2>3 DEF PayOK
  <2>6. /\ fee' \in FeeState /\ fee'.answered = fee.answered /\ fee'.paidFor = fee.paidFor
        /\ fee'.wasCounting = fee.wasCounting /\ Paid(fee', chain)
    BY <1>1, <2>1, <2>4 DEF Paid
  <2>7. \A g : Handled(fee, pays, g) => Handled(fee', pays', g)
    BY <2>1, <2>3, <2>6, HandledStays
  <2>8. mounted => KnowsRoom(fee', pays', seen)
    BY <1>1, <2>6, <2>7, StillFits
  <2>9. QED BY <1>1, <2>1, <2>5, <2>6, <2>8 DEF BoardInv, EntryTyped
<1>11. ASSUME NEW p \in pays, NEW status \in {"failed", "paid"}, finish(p, status),
              status = "paid" => p.landed # "none"
       PROVE  BoardInv'
  <2> DEFINE to == IF status = "failed" THEN NoGame ELSE fee.paidFor
             done == IF p.asked = "now" THEN fee.answered \cup {p.game} ELSE fee.answered
             f == [fee EXCEPT !.status = status, !.shownFor = p.game,
                              !.answered = done, !.paidFor = to]
  <2>1. /\ pays' = pays \ {p} /\ UNCHANGED <<room, chain, publicKey, seen, mounted>>
        /\ fee' = IF p.asked = "gone" THEN fee ELSE f
    BY <1>11 DEF finish
  <2>2. /\ p.game \in Games /\ p.asked \in {"now", "before", "gone"}
        /\ (p.landed # "none" => p.game \in chain.entered \cup chain.bounced)
    BY <1>1 DEF PayOK, PayShape
  <2>3. /\ to \in {fee.paidFor, NoGame} /\ to \in Games \cup {NoGame}
        /\ done \in SUBSET Games /\ fee.answered \subseteq done
        /\ p.asked = "now" => p.game \in done
    BY <1>1, <2>2 DEF FeeState
  <2> HIDE DEF to, done
  <2>4. /\ f \in FeeState /\ f.status = status /\ f.shownFor = p.game /\ f.paidFor = to
        /\ f.wasCounting = fee.wasCounting /\ f.answered = done
    BY <1>1, <2>2, <2>3 DEF FeeState
  <2> HIDE DEF f
  <2>5. \A o \in pays' : PayOK(o, chain)
    BY <1>1, <2>1
  <2>6. \A g : Handled(fee, pays, g) => Handled(fee', pays', g)
    <3>1. fee.answered \subseteq fee'.answered /\ (p.asked = "now" => p.game \in fee'.answered)
      BY <2>1, <2>3, <2>4
    <3>2. QED BY <2>1, <3>1 DEF Handled
  <2>7. /\ fee' \in FeeState /\ fee'.paidFor \in {fee.paidFor, NoGame}
        /\ fee'.wasCounting = fee.wasCounting /\ Paid(fee', chain)
    BY <1>1, <1>11, <2>1, <2>2, <2>3, <2>4 DEF Paid
  <2>8. mounted => KnowsRoom(fee', pays', seen)
    BY <1>1, <2>6, <2>7, StillFits
  <2>9. QED BY <1>1, <2>1, <2>5, <2>7, <2>8 DEF BoardInv, EntryTyped
<1>12. ASSUME NEW p \in pays, enterRoom(p) PROVE BoardInv'
  <2>1. PICK to \in {"ok", "err"} :
          /\ pays' = (pays \ {p}) \cup {[p EXCEPT !.landed = to]}
          /\ \/ chain' = [chain EXCEPT !.entered = @ \cup {p.game}]
             \/ chain' = [chain EXCEPT !.bounced = @ \cup {p.game}]
    BY <1>12 DEF enterRoom
  <2> DEFINE q == [p EXCEPT !.landed = to]
  <2>2. UNCHANGED <<room, publicKey, seen, mounted, fee>> /\ pays' = (pays \ {p}) \cup {q}
    BY <1>12, <2>1 DEF enterRoom
  <2>3. PayOK(p, chain)
    BY <1>1
  <2>4. PayShape(q) /\ q.game = p.game /\ q.asked = p.asked /\ p.game \in Games
    BY <2>1, <2>3 DEF PayOK, PayShape
  <2> HIDE DEF q
  <2>5. /\ chain' \in Chain /\ chain.entered \subseteq chain'.entered
        /\ chain.bounced \subseteq chain'.bounced
        /\ p.game \in chain'.entered \cup chain'.bounced
    BY <1>1, <2>1, <2>4 DEF Chain
  <2>6. \A o \in pays' : PayOK(o, chain')
    BY <1>1, <2>2, <2>4, <2>5 DEF PayOK
  <2>7. \A g : Handled(fee, pays, g) => Handled(fee', pays', g)
    BY <2>2, <2>4, HandledStays
  <2>8. (mounted => KnowsRoom(fee', pays', seen)) /\ Paid(fee', chain')
    BY <1>1, <2>2, <2>5, <2>7, StillFits DEF Paid
  <2>9. QED BY <1>1, <2>2, <2>5, <2>6, <2>8 DEF BoardInv, EntryTyped
<1>13. ASSUME NEW p \in pays,
              \/ waitForRoomOnChain(p) \/ rejectTransaction(p) \/ sendTransaction(p)
              \/ confirmTransaction(p)
       PROVE  BoardInv'
  <2>1. \/ advance(p, "signing", "sending") \/ advance(p, "confirming", "sending")
        \/ finish(p, "failed") \/ (finish(p, "paid") /\ p.landed # "none")
    BY <1>13 DEF waitForRoomOnChain, rejectTransaction, sendTransaction, confirmTransaction
  <2>2. QED BY <1>10, <1>11, <2>1
<1>14. CASE UNCHANGED entryVars
  BY <1>1, <1>2, <1>14 DEF entryVars
<1>15. QED
  BY <1>3, <1>4, <1>5, <1>6, <1>7, <1>8, <1>9, <1>12, <1>13, <1>14 DEF EntryNext

(* Whatever polls, remounts, wallets and answers come in between, for any  *)
(* number of games and calls: each countdown that is shown with its game   *)
(* brings a request for the fee of its own, also when the countdown before *)
(* it was of the same game, and "paid" is true of the chain (useEntryFee). *)
THEOREM FeeIsAsked == EntrySpec => []FeeInv
<1>1. EntryInit => BoardInv
  BY BoardInvInit
<1>2. BoardInv /\ [EntryNext]_entryVars => BoardInv'
  BY BoardInvStep
<1>3. BoardInv => FeeInv
  BY DEF BoardInv, KnowsRoom, Paid, FeeInv, CountingIsHandled, PaidIsOnChain, Handled
<1>4. QED BY <1>1, <1>2, <1>3, PTL DEF EntrySpec

(***************************************************************************)
(* The transaction pipeline.                                               *)
(***************************************************************************)
Endpoints == 0..(EndpointCount - 1)
Tx == [held : BOOLEAN, live : BOOLEAN, status : {"none", "ok", "err"}]
Underway == {"idle", "build", "send", "poll", "backoff"}
CallState == [pc : Underway \cup {"done"}, attempt : Nat, leg : Nat, sends : Nat, polls : Nat,
              result : {"none", "confirmed", "rpc", "program", "timeout"},
              tried : SUBSET Endpoints, moved : BOOLEAN, lost : BOOLEAN, tx : Nat]

PipelineTyped ==
  /\ index \in Endpoints /\ call \in CallState
  /\ txs \in [DOMAIN txs -> Tx] /\ DOMAIN txs \subseteq 1..Latest
  /\ Latest # 0 => Latest \in DOMAIN txs
  /\ call.pc \in {"send", "poll"} => Latest # 0

(* The endpoints of an attempt are a stretch of the ring that starts where *)
(* the index was and ends where it is, unless another call moved it.       *)
Hops(s, x) == IF x >= s THEN x - s ELSE x + EndpointCount - s
Stretch(s, n) == {x \in Endpoints : Hops(s, x) <= n}

TriedInv ==
  ~call.moved =>
    /\ call.pc = "idle" => call.tried = {}
    /\ call.pc \in {"build", "send", "poll"} =>
         call.leg < EndpointCount /\ \E s \in Endpoints :
           call.tried = Stretch(s, call.leg) /\ Hops(s, index) = call.leg
    /\ call.pc = "backoff" => call.tried = Endpoints

(* A call that lost no answer sends again only what cannot matter any      *)
(* more: until it polls nothing it built is with the cluster, and then     *)
(* only the latest is.                                                     *)
Quiet == \A n \in DOMAIN txs : ~Mattering(txs[n])

MoneyInv ==
  ~call.lost =>
    /\ \A n \in DOMAIN txs \ {Latest} : ~Mattering(txs[n])
    /\ call.pc \in {"idle", "build", "send", "backoff"} => Quiet
    /\ call.result \in {"program", "rpc"} => Quiet

AnswerInv ==
  /\ call.pc # "done" => call.result = "none"
  /\ call.result = "confirmed" => Landed # {}

PipeInv == PipelineTyped /\ TriedInv /\ MoneyInv /\ AnswerInv

LEMMA PipelineConstants == EndpointCount \in Nat /\ EndpointCount >= 1 /\ 0 \in Endpoints
BY PipelineAssumption DEF Endpoints

(* The next endpoint of the ring.                                          *)
LEMMA NextEndpoint ==
  ASSUME NEW i \in Endpoints
  PROVE  /\ (i + 1) % EndpointCount \in Endpoints
         /\ \A s \in Endpoints, n \in Nat :
              Hops(s, i) = n /\ n + 1 < EndpointCount =>
                /\ Hops(s, (i + 1) % EndpointCount) = n + 1
                /\ Stretch(s, n + 1) = Stretch(s, n) \cup {(i + 1) % EndpointCount}
         /\ \A s \in Endpoints : Stretch(s, EndpointCount - 1) = Endpoints
         /\ Stretch(i, 0) = {i} /\ Hops(i, i) = 0
<1>1. EndpointCount \in Nat /\ EndpointCount >= 1 /\ i \in 0..(EndpointCount - 1)
  BY PipelineConstants DEF Endpoints
<1> DEFINE j == (i + 1) % EndpointCount
<1>2. j = IF i + 1 = EndpointCount THEN 0 ELSE i + 1
  BY <1>1
<1> HIDE DEF j
<1>3. j \in Endpoints
  BY <1>1, <1>2 DEF Endpoints
<1>4. ASSUME NEW s \in Endpoints, NEW n \in Nat, Hops(s, i) = n, n + 1 < EndpointCount
      PROVE  Hops(s, j) = n + 1 /\ Stretch(s, n + 1) = Stretch(s, n) \cup {j}
  <2>1. Hops(s, j) = n + 1
    BY <1>1, <1>2, <1>4 DEF Hops, Endpoints
  <2>2. \A x \in Endpoints : Hops(s, x) \in Int /\ (Hops(s, x) = n + 1 => x = j)
    BY <1>1, <1>2, <1>4 DEF Hops, Endpoints
  <2>3. \A x \in Endpoints : (Hops(s, x) <= n + 1) <=> (Hops(s, x) <= n \/ x = j)
    BY <2>1, <2>2
  <2>4. \A x : x \in Stretch(s, n + 1) <=> x \in Stretch(s, n) \cup {j}
    BY <1>3, <2>3 DEF Stretch
  <2>5. Stretch(s, n + 1) = Stretch(s, n) \cup {j}
    BY <2>4, Zenon
  <2>6. QED BY <2>1, <2>5
<1>5. ASSUME NEW s \in Endpoints PROVE Stretch(s, EndpointCount - 1) = Endpoints
  BY <1>1 DEF Stretch, Hops, Endpoints
<1>6. Stretch(i, 0) = {i} /\ Hops(i, i) = 0
  BY <1>1 DEF Stretch, Hops, Endpoints
<1>7. QED BY <1>3, <1>4, <1>5, <1>6 DEF j

LEMMA PipeInvInit == TxInit => PipeInv
<1> SUFFICES ASSUME TxInit PROVE PipeInv
  OBVIOUS
<1>1. index = 0 /\ txs = <<>> /\ DOMAIN txs = {}
  BY DEF TxInit
<1>2. /\ call \in CallState /\ call.pc = "idle" /\ call.tx = 0 /\ call.result = "none"
      /\ call.tried = {}
  BY DEF TxInit, CallState, Underway
<1>3. PipelineTyped
  BY <1>1, <1>2, PipelineConstants DEF PipelineTyped, Latest
<1>4. TriedInv /\ MoneyInv /\ AnswerInv
  BY <1>1, <1>2 DEF TriedInv, MoneyInv, Quiet, AnswerInv
<1>5. QED BY <1>3, <1>4 DEF PipeInv

(***************************************************************************)
(* Errors.  What withFailover makes of a call c that failed.               *)
(***************************************************************************)
LEMMA FailsOver ==
  ASSUME NEW c \in CallState, NEW error \in {"transient", "rpc", "program", "timeout"},
         index \in Endpoints, withFailover(c, error),
         c.result = "none", c.pc \in {"build", "send", "poll"},
         ~c.moved => c.leg < EndpointCount /\ \E s \in Endpoints :
                       c.tried = Stretch(s, c.leg) /\ Hops(s, index) = c.leg
  PROVE  /\ index' \in Endpoints /\ call' \in CallState
         /\ call'.tx = c.tx /\ call'.lost = c.lost /\ call'.pc \in {"build", "backoff", "done"}
         /\ call'.pc # "done" => call'.result = "none" /\ error = "transient"
         /\ call'.pc = "done" => call'.result = toServiceError(error)
         /\ TriedInv'
<1> DEFINE next == (index + 1) % EndpointCount
           over == ~isRetryable(error)
                     \/ (c.leg + 1 >= EndpointCount /\ c.attempt >= MaxAttempts)
           told == toServiceError(error)
           ended == [c EXCEPT !.pc = "done", !.result = told]
           moves == [c EXCEPT !.pc = "build", !.leg = c.leg + 1, !.tried = @ \cup {next}]
           waits == [c EXCEPT !.pc = "backoff"]
<1>1. /\ index' = IF isRetryable(error) THEN next ELSE index
      /\ call' = IF over THEN ended ELSE IF c.leg + 1 < EndpointCount THEN moves ELSE waits
  BY DEF withFailover, leg
<1>2. next \in Endpoints
  BY NextEndpoint
<1>3. told \in {"rpc", "program", "timeout"}
  BY DEF toServiceError
<1>4. c.leg \in Nat /\ c.leg + 1 \in Nat /\ c.tried \cup {next} \subseteq Endpoints
  BY <1>2 DEF CallState
<1>5. EndpointCount \in Nat
  BY PipelineConstants
<1>6. CASE over
  <2> HIDE DEF told
  <2>1. /\ ended \in CallState /\ ended.pc = "done" /\ ended.result = told
        /\ ended.tx = c.tx /\ ended.lost = c.lost
    BY <1>3 DEF CallState
  <2> HIDE DEF ended, next, over
  <2>2. QED BY <1>1, <1>2, <1>6, <2>1 DEF TriedInv, told
<1>7. CASE ~over /\ c.leg + 1 < EndpointCount
  <2>1. isRetryable(error) /\ error = "transient"
    BY <1>7 DEF isRetryable
  <2> HIDE DEF next
  <2>2. /\ moves \in CallState /\ moves.pc = "build" /\ moves.leg = c.leg + 1
        /\ moves.tried = c.tried \cup {next} /\ moves.result = c.result
        /\ moves.tx = c.tx /\ moves.lost = c.lost /\ moves.moved = c.moved
    BY <1>4 DEF CallState, Underway
  <2> HIDE DEF moves, over
  <2>3. call' = moves /\ index' = next
    BY <1>1, <1>7, <2>1
  <2>4. ASSUME ~c.moved
        PROVE  \E s \in Endpoints : moves.tried = Stretch(s, moves.leg)
                                    /\ Hops(s, index') = moves.leg
    <3>1. PICK s \in Endpoints : c.tried = Stretch(s, c.leg) /\ Hops(s, index) = c.leg
      BY <2>4
    <3>2. Hops(s, next) = c.leg + 1 /\ Stretch(s, c.leg + 1) = Stretch(s, c.leg) \cup {next}
      BY <1>4, <1>7, <3>1, NextEndpoint DEF next
    <3>3. QED BY <2>2, <2>3, <3>1, <3>2
  <2>5. TriedInv'
    BY <1>7, <2>2, <2>3, <2>4 DEF TriedInv
  <2>6. QED BY <1>2, <2>1, <2>2, <2>3, <2>5
<1>8. CASE ~over /\ ~(c.leg + 1 < EndpointCount)
  <2>1. isRetryable(error) /\ error = "transient"
    BY <1>8 DEF isRetryable
  <2>2. /\ waits \in CallState /\ waits.pc = "backoff" /\ waits.tried = c.tried
        /\ waits.result = c.result /\ waits.tx = c.tx /\ waits.lost = c.lost
        /\ waits.moved = c.moved
    BY DEF CallState, Underway
  <2> HIDE DEF waits, over, next
  <2>3. call' = waits /\ index' = next
    BY <1>1, <1>8, <2>1
  <2>4. ASSUME ~c.moved PROVE c.tried = Endpoints
    <3>1. PICK s \in Endpoints : c.tried = Stretch(s, c.leg) /\ c.leg < EndpointCount
      BY <2>4
    <3>2. c.leg = EndpointCount - 1
      BY <1>4, <1>5, <1>8, <3>1
    <3>3. QED BY <3>1, <3>2, NextEndpoint
  <2>5. TriedInv'
    BY <2>2, <2>3, <2>4 DEF TriedInv
  <2>6. QED BY <1>2, <2>1, <2>2, <2>3, <2>5
<1>9. QED BY <1>6, <1>7, <1>8

(***************************************************************************)
(* The chain and the other calls.                                          *)
(***************************************************************************)
LEMMA ChainSteps ==
  ASSUME PipeInv, NEW n \in DOMAIN txs, land(n) \/ drop(n) \/ expire(n)
  PROVE  PipeInv'
<1>1. PipelineTyped /\ TriedInv /\ MoneyInv /\ AnswerInv
  BY DEF PipeInv
<1>2. txs \in [DOMAIN txs -> Tx] /\ txs[n] \in Tx
  BY <1>1 DEF PipelineTyped
<1>3. UNCHANGED <<index, call>>
  BY DEF land, drop, expire
<1>4. PICK tx \in Tx :
        /\ txs' = [txs EXCEPT ![n] = tx]
        /\ Mattering(tx) => Mattering(txs[n])
        /\ txs[n].status = "ok" => tx.status = "ok"
  <2>1. CASE land(n)
    <3>1. PICK outcome \in {"ok", "err"} : txs' = [txs EXCEPT ![n].status = outcome]
      BY <2>1 DEF land
    <3> DEFINE tx == [txs[n] EXCEPT !.status = outcome]
    <3>2. tx \in Tx /\ Mattering(txs[n]) /\ txs[n].status # "ok"
      BY <1>2, <2>1 DEF land, Mattering, Waiting, Tx
    <3>3. txs' = [txs EXCEPT ![n] = tx]
      BY <3>1
    <3> HIDE DEF tx
    <3>4. QED BY <3>2, <3>3
  <2>2. CASE drop(n)
    <3> DEFINE tx == [txs[n] EXCEPT !.held = FALSE]
    <3>1. /\ tx \in Tx /\ tx.status = txs[n].status /\ tx.held = FALSE
      BY <1>2 DEF Tx
    <3>2. txs' = [txs EXCEPT ![n] = tx]
      BY <2>2 DEF drop
    <3> HIDE DEF tx
    <3>3. Mattering(tx) => Mattering(txs[n])
      BY <3>1 DEF Mattering
    <3>4. QED BY <3>1, <3>2, <3>3
  <2>3. CASE expire(n)
    <3> DEFINE tx == [txs[n] EXCEPT !.live = FALSE]
    <3>1. /\ tx \in Tx /\ tx.status = txs[n].status /\ tx.live = FALSE
      BY <1>2 DEF Tx
    <3>2. txs' = [txs EXCEPT ![n] = tx]
      BY <2>3 DEF expire
    <3> HIDE DEF tx
    <3>3. Mattering(tx) => Mattering(txs[n])
      BY <3>1 DEF Mattering, Waiting
    <3>4. QED BY <3>1, <3>2, <3>3
  <2>4. QED BY <2>1, <2>2, <2>3
<1>5. /\ DOMAIN txs' = DOMAIN txs /\ txs' \in [DOMAIN txs -> Tx]
      /\ \A m \in DOMAIN txs : /\ Mattering(txs'[m]) => Mattering(txs[m])
                               /\ txs[m].status = "ok" => txs'[m].status = "ok"
  BY <1>2, <1>4
<1>6. PipelineTyped'
  BY <1>1, <1>3, <1>5 DEF PipelineTyped, Latest
<1>7. TriedInv'
  BY <1>1, <1>3 DEF TriedInv
<1>8. MoneyInv'
  BY <1>1, <1>3, <1>5 DEF MoneyInv, Quiet, Latest
<1>9. AnswerInv'
  BY <1>1, <1>3, <1>5 DEF AnswerInv, Landed
<1>10. QED BY <1>6, <1>7, <1>8, <1>9 DEF PipeInv

LEMMA OthersFailOver ==
  ASSUME PipeInv, failover
  PROVE  PipeInv'
<1> DEFINE c == [call EXCEPT !.moved = TRUE]
<1>1. PipelineTyped /\ MoneyInv /\ AnswerInv
  BY DEF PipeInv
<1>2. call' = c /\ txs' = txs /\ index' = (index + 1) % EndpointCount
  BY DEF failover
<1>3. /\ c \in CallState /\ c.moved = TRUE /\ c.pc = call.pc /\ c.tx = call.tx
      /\ c.result = call.result /\ c.lost = call.lost
  BY <1>1 DEF PipelineTyped, CallState
<1> HIDE DEF c
<1>4. index' \in Endpoints
  BY <1>1, <1>2, NextEndpoint DEF PipelineTyped
<1>5. PipelineTyped'
  BY <1>1, <1>2, <1>3, <1>4 DEF PipelineTyped, Latest
<1>6. TriedInv' /\ MoneyInv' /\ AnswerInv'
  BY <1>1, <1>2, <1>3 DEF TriedInv, MoneyInv, Quiet, AnswerInv, Latest, Landed
<1>7. QED BY <1>5, <1>6 DEF PipeInv

(***************************************************************************)
(* A turn of withFailover's loop begins.                                   *)
(***************************************************************************)
LEMMA Begins ==
  ASSUME PipeInv, sendSigned \/ withRetry
  PROVE  PipeInv'
<1>1. PipelineTyped /\ MoneyInv /\ AnswerInv /\ call \in CallState /\ index \in Endpoints
  BY DEF PipeInv, PipelineTyped
<1>2. /\ UNCHANGED <<index, txs>> /\ call.pc \in {"idle", "backoff"}
  BY DEF sendSigned, withRetry
<1>3. /\ call' \in CallState /\ call'.pc = "build" /\ call'.leg = 0 /\ call'.tx = call.tx
      /\ call'.lost = call.lost /\ call'.result = call.result
      /\ ~call'.moved => call'.tried = {index}
  <2>1. CASE sendSigned
    <3>1. call' = [[call EXCEPT !.pc = "build", !.leg = 0, !.tried = @ \cup {index}]
                     EXCEPT !.attempt = 1]
      BY <2>1 DEF sendSigned, leg
    <3> DEFINE tried == call.tried \cup {index}
    <3>2. tried \in SUBSET Endpoints
      BY <1>1 DEF CallState
    <3>3. call' = [call EXCEPT !.pc = "build", !.leg = 0, !.tried = tried, !.attempt = 1]
      BY <1>1, <3>1 DEF CallState
    <3> HIDE DEF tried
    <3>4. /\ call' \in CallState /\ call'.pc = "build" /\ call'.leg = 0 /\ call'.tx = call.tx
          /\ call'.lost = call.lost /\ call'.result = call.result /\ call'.tried = tried
          /\ call'.moved = call.moved
      BY <1>1, <3>2, <3>3 DEF CallState, Underway
    <3>5. ~call.moved => call.tried = {}
      BY <2>1 DEF PipeInv, TriedInv, sendSigned
    <3>6. QED BY <3>4, <3>5 DEF tried
  <2>2. CASE withRetry
    <3> DEFINE again == call.attempt + 1
               tried == {index}
    <3>1. call' = [call EXCEPT !.pc = "build", !.leg = 0, !.tried = tried, !.attempt = again,
                               !.moved = FALSE]
      BY <1>1, <2>2 DEF withRetry, leg, CallState
    <3>2. tried \in SUBSET Endpoints /\ again \in Nat
      BY <1>1 DEF CallState
    <3> HIDE DEF again, tried
    <3>3. /\ call' \in CallState /\ call'.pc = "build" /\ call'.leg = 0 /\ call'.tx = call.tx
          /\ call'.lost = call.lost /\ call'.result = call.result /\ call'.tried = tried
      BY <1>1, <3>1, <3>2 DEF CallState, Underway
    <3>4. QED BY <3>3 DEF tried
  <2>3. QED BY <2>1, <2>2
<1>4. PipelineTyped'
  BY <1>1, <1>2, <1>3 DEF PipelineTyped, Latest
<1>5. TriedInv'
  <2>1. EndpointCount \in Nat /\ 0 < EndpointCount
    BY PipelineConstants
  <2>2. Stretch(index, 0) = {index} /\ Hops(index, index) = 0
    BY <1>1, NextEndpoint
  <2>3. QED BY <1>1, <1>2, <1>3, <2>1, <2>2 DEF TriedInv
<1>6. MoneyInv' /\ AnswerInv'
  BY <1>1, <1>2, <1>3 DEF MoneyInv, Quiet, AnswerInv, Latest, Landed
<1>7. QED BY <1>4, <1>5, <1>6 DEF PipeInv

(***************************************************************************)
(* The call's own steps.                                                   *)
(***************************************************************************)
\* What FailsOver asks of a call in one of withFailover's turns.
LEMMA InATurn ==
  ASSUME PipeInv, call.pc \in {"build", "send", "poll"}
  PROVE  /\ call \in CallState /\ index \in Endpoints /\ call.result = "none"
         /\ txs \in [DOMAIN txs -> Tx] /\ DOMAIN txs \subseteq 1..Latest
         /\ Latest \in Nat /\ (Latest # 0 => Latest \in DOMAIN txs)
         /\ call.pc \in {"send", "poll"} => Latest # 0
         /\ ~call.moved => call.leg < EndpointCount /\ \E s \in Endpoints :
                             call.tried = Stretch(s, call.leg) /\ Hops(s, index) = call.leg
<1>1. PipelineTyped /\ TriedInv /\ AnswerInv
  BY DEF PipeInv
<1>2. Latest \in Nat
  BY <1>1 DEF PipelineTyped, CallState, Latest
<1>3. QED BY <1>1, <1>2 DEF PipelineTyped, TriedInv, AnswerInv

LEMMA Builds ==
  ASSUME PipeInv, build
  PROVE  PipeInv'
<1>1. PipelineTyped /\ TriedInv /\ MoneyInv /\ AnswerInv /\ call.pc = "build"
  BY DEF PipeInv, build
<1>2. CASE UNCHANGED txs /\ \E error \in {"transient", "rpc"} : withFailover(call, error)
  <2>1. PICK error \in {"transient", "rpc"} : withFailover(call, error)
    BY <1>2
  <2>2. /\ index' \in Endpoints /\ call' \in CallState
        /\ call'.tx = call.tx /\ call'.lost = call.lost /\ call'.pc \in {"build", "backoff", "done"}
        /\ call'.pc # "done" => call'.result = "none"
        /\ call'.pc = "done" => call'.result = toServiceError(error)
        /\ TriedInv'
    BY <1>1, <2>1, InATurn, FailsOver
  <2>3. call'.result # "confirmed"
    BY <2>2 DEF toServiceError
  <2>4. PipelineTyped'
    BY <1>1, <1>2, <2>2 DEF PipelineTyped, Latest
  <2>5. MoneyInv' /\ AnswerInv'
    BY <1>1, <1>2, <2>2, <2>3 DEF MoneyInv, Quiet, AnswerInv, Latest
  <2>6. QED BY <2>2, <2>4, <2>5 DEF PipeInv
<1>3. ASSUME NEW n \in {Latest, Latest + 1}, n # 0, call' = sending(n), UNCHANGED index,
             txs' \in [DOMAIN txs' -> Tx], DOMAIN txs' \subseteq 1..n, n \in DOMAIN txs',
             ~call.lost => Quiet'
      PROVE  PipeInv'
  <2>1. n \in Nat
    BY <1>1, <1>3, InATurn
  <2>2. /\ call' \in CallState /\ call'.pc = "send" /\ call'.tx = n /\ call'.leg = call.leg
        /\ call'.tried = call.tried /\ call'.moved = call.moved /\ call'.lost = call.lost
        /\ call'.result = call.result
    BY <1>1, <1>3, <2>1 DEF PipelineTyped, CallState, Underway, sending
  <2>3. PipelineTyped'
    BY <1>1, <1>3, <2>2 DEF PipelineTyped, Latest
  <2>4. TriedInv'
    BY <1>1, <1>3, <2>2 DEF TriedInv
  <2>5. MoneyInv'
    BY <1>3, <2>2 DEF MoneyInv, Quiet
  <2>6. AnswerInv'
    BY <1>1, <2>2 DEF AnswerInv
  <2>7. QED BY <2>3, <2>4, <2>5, <2>6 DEF PipeInv
<1>4. CASE txs' = rebuilt /\ call' = sending(Latest + 1) /\ UNCHANGED index
  <2> DEFINE kept == {m \in DOMAIN txs : Mattering(txs[m])}
  <2>1. /\ txs \in [DOMAIN txs -> Tx] /\ DOMAIN txs \subseteq 1..Latest /\ Latest \in Nat
    BY <1>1, InATurn
  <2>2. txs' = [n \in kept \cup {Latest + 1} |-> IF n = Latest + 1 THEN FreshTx ELSE txs[n]]
    BY <1>4 DEF rebuilt
  <2>3. FreshTx \in Tx /\ ~Mattering(FreshTx)
    BY DEF FreshTx, Tx, Mattering
  <2>4. /\ DOMAIN txs' = kept \cup {Latest + 1}
        /\ \A n \in kept \cup {Latest + 1} : txs'[n] \in Tx
    BY <2>1, <2>2, <2>3
  <2>5. txs' \in [DOMAIN txs' -> Tx] /\ DOMAIN txs' \subseteq 1..(Latest + 1)
    BY <2>1, <2>2, <2>4
  <2>6. ~call.lost => Quiet'
    <3>1. SUFFICES ASSUME ~call.lost PROVE Quiet'
      OBVIOUS
    <3>2. kept = {}
      BY <1>1, <3>1 DEF MoneyInv, Quiet
    <3>3. DOMAIN txs' = {Latest + 1} /\ txs'[Latest + 1] = FreshTx
      BY <2>2, <3>2
    <3>4. QED BY <2>3, <3>3 DEF Quiet
  <2>7. Latest + 1 # 0 /\ Latest + 1 \in DOMAIN txs'
    BY <2>1, <2>4
  <2>8. QED BY <1>3, <1>4, <2>5, <2>6, <2>7
<1>5. CASE Latest # 0 /\ txs[Latest].live /\ UNCHANGED txs /\ call' = sending(Latest)
           /\ UNCHANGED index
  <2>1. /\ txs' \in [DOMAIN txs' -> Tx] /\ DOMAIN txs' \subseteq 1..Latest
        /\ Latest \in DOMAIN txs' /\ (~call.lost => Quiet')
    BY <1>1, <1>5, InATurn DEF MoneyInv, Quiet
  <2>2. QED BY <1>3, <1>5, <2>1
<1>6. QED BY <1>2, <1>4, <1>5 DEF build

LEMMA SendFails ==
  ASSUME PipeInv, call.pc = "send", NEW lost \in BOOLEAN,
         NEW error \in {"transient", "rpc", "program"},
         NEW c, c = [call EXCEPT !.lost = lost], sendFailed(c, error)
  PROVE  /\ index' \in Endpoints /\ call' \in CallState
         /\ call'.tx = call.tx /\ call'.lost = lost
         /\ call'.pc \in {"build", "send", "backoff", "done"}
         /\ call'.result # "confirmed" /\ (call'.pc # "done" => call'.result = "none")
         /\ TriedInv'
<1>1. /\ call \in CallState /\ index \in Endpoints /\ call.result = "none"
      /\ ~call.moved => call.leg < EndpointCount /\ \E s \in Endpoints :
                          call.tried = Stretch(s, call.leg) /\ Hops(s, index) = call.leg
  BY InATurn
<1>2. /\ c \in CallState /\ c.pc = "send" /\ c.leg = call.leg /\ c.tried = call.tried
      /\ c.moved = call.moved /\ c.lost = lost /\ c.tx = call.tx /\ c.result = "none"
  BY <1>1 DEF CallState
<1>3. CASE call' = [c EXCEPT !.sends = @ + 1] /\ UNCHANGED index
  <2> DEFINE sends == c.sends + 1
  <2>1. sends \in Nat /\ call' = [c EXCEPT !.sends = sends]
    BY <1>2, <1>3 DEF CallState
  <2> HIDE DEF sends
  <2>2. /\ call' \in CallState /\ call'.pc = "send" /\ call'.leg = call.leg
        /\ call'.tried = call.tried /\ call'.moved = call.moved /\ call'.lost = lost
        /\ call'.tx = call.tx /\ call'.result = "none"
    BY <1>2, <2>1 DEF CallState
  <2>3. TriedInv'
    BY <1>1, <1>3, <2>2 DEF TriedInv
  <2>4. QED BY <1>1, <1>3, <2>2, <2>3
<1>4. CASE withFailover(c, error)
  <2>1. /\ index' \in Endpoints /\ call' \in CallState
        /\ call'.tx = c.tx /\ call'.lost = c.lost /\ call'.pc \in {"build", "backoff", "done"}
        /\ call'.pc # "done" => call'.result = "none"
        /\ call'.pc = "done" => call'.result = toServiceError(error)
        /\ TriedInv'
    BY <1>1, <1>2, <1>4, FailsOver
  <2>2. call'.result # "confirmed"
    BY <2>1 DEF toServiceError
  <2>3. QED BY <1>2, <2>1, <2>2
<1>5. QED BY <1>3, <1>4 DEF sendFailed

LEMMA Sends ==
  ASSUME PipeInv, sendRawTransaction
  PROVE  PipeInv'
<1>1. PipelineTyped /\ TriedInv /\ MoneyInv /\ AnswerInv /\ call.pc = "send"
  BY DEF PipeInv, sendRawTransaction
<1>2. /\ txs \in [DOMAIN txs -> Tx] /\ DOMAIN txs \subseteq 1..Latest
      /\ Latest \in Nat /\ Latest # 0 /\ Latest \in DOMAIN txs
      /\ call \in CallState /\ index \in Endpoints /\ call.result = "none"
  BY <1>1, InATurn
<1>3. CASE /\ Waiting(txs[Latest])
           /\ txs' = [txs EXCEPT ![Latest].held = TRUE]
           /\ \/ call' = [call EXCEPT !.pc = "poll"] /\ UNCHANGED index
              \/ sendFailed([call EXCEPT !.lost = TRUE], "transient")
  <2> DEFINE tx == [txs[Latest] EXCEPT !.held = TRUE]
  <2>1. tx \in Tx /\ txs' = [txs EXCEPT ![Latest] = tx]
    BY <1>2, <1>3 DEF Tx
  <2>2. tx.status = txs[Latest].status
    BY <1>2 DEF Tx
  <2> HIDE DEF tx
  <2>3. /\ txs' \in [DOMAIN txs -> Tx] /\ DOMAIN txs' = DOMAIN txs
        /\ \A n \in DOMAIN txs \ {Latest} : txs'[n] = txs[n]
    BY <1>2, <2>1
  <2>4. CASE call' = [call EXCEPT !.pc = "poll"] /\ UNCHANGED index
    <3>1. /\ call' \in CallState /\ call'.pc = "poll" /\ call'.leg = call.leg
          /\ call'.tried = call.tried /\ call'.moved = call.moved /\ call'.lost = call.lost
          /\ call'.tx = call.tx /\ call'.result = "none"
      BY <1>2, <2>4 DEF CallState, Underway
    <3>2. PipelineTyped'
      BY <1>2, <2>3, <2>4, <3>1 DEF PipelineTyped, Latest
    <3>3. TriedInv'
      BY <1>1, <2>4, <3>1 DEF TriedInv
    <3>4. MoneyInv' /\ AnswerInv'
      BY <1>1, <2>3, <3>1 DEF MoneyInv, AnswerInv, Latest
    <3>5. QED BY <3>2, <3>3, <3>4 DEF PipeInv
  <2>5. CASE sendFailed([call EXCEPT !.lost = TRUE], "transient")
    <3>1. /\ index' \in Endpoints /\ call' \in CallState /\ call'.tx = call.tx
          /\ call'.lost = TRUE /\ call'.result # "confirmed"
          /\ (call'.pc # "done" => call'.result = "none") /\ TriedInv'
          /\ call'.pc \in {"build", "send", "backoff", "done"}
      BY <1>1, <2>5, SendFails
    <3>2. PipelineTyped'
      BY <1>2, <2>3, <3>1 DEF PipelineTyped, Latest
    <3>3. MoneyInv' /\ AnswerInv'
      BY <3>1 DEF MoneyInv, AnswerInv
    <3>4. QED BY <3>1, <3>2, <3>3 DEF PipeInv
  <2>6. QED BY <1>3, <2>4, <2>5
<1>4. CASE /\ UNCHANGED txs
           /\ \E error \in {"transient", "rpc"}
                             \cup (IF Waiting(txs[Latest]) THEN {"program"} ELSE {}) :
                sendFailed(call, error)
  <2>1. PICK error \in {"transient", "rpc", "program"} : sendFailed(call, error)
    BY <1>4
  <2>2. call.lost \in BOOLEAN /\ call = [call EXCEPT !.lost = call.lost]
    BY <1>2 DEF CallState
  <2>3. /\ index' \in Endpoints /\ call' \in CallState /\ call'.tx = call.tx
        /\ call'.lost = call.lost /\ call'.result # "confirmed"
        /\ (call'.pc # "done" => call'.result = "none") /\ TriedInv'
        /\ call'.pc \in {"build", "send", "backoff", "done"}
    BY <1>1, <2>1, <2>2, SendFails
  <2>4. PipelineTyped'
    BY <1>2, <1>4, <2>3 DEF PipelineTyped, Latest
  <2>5. MoneyInv' /\ AnswerInv'
    BY <1>1, <1>4, <2>3 DEF MoneyInv, Quiet, AnswerInv, Latest
  <2>6. QED BY <2>3, <2>4, <2>5 DEF PipeInv
<1>5. QED BY <1>3, <1>4 DEF sendRawTransaction

\* The wait is over with an error: nothing of what was built is left with the
\* cluster unless the error is the timeout.
LEMMA PollFails ==
  ASSUME PipeInv, call.pc = "poll", UNCHANGED txs,
         NEW error \in {"program", "timeout"}, withFailover(call, error),
         error = "program" => txs[Latest].status = "err"
  PROVE  PipeInv'
<1>1. PipelineTyped /\ TriedInv /\ MoneyInv /\ AnswerInv
  BY DEF PipeInv
<1>2. /\ index' \in Endpoints /\ call' \in CallState
      /\ call'.tx = call.tx /\ call'.lost = call.lost /\ call'.pc \in {"build", "backoff", "done"}
      /\ call'.pc # "done" => error = "transient"
      /\ call'.pc = "done" => call'.result = toServiceError(error)
      /\ TriedInv'
  BY InATurn, FailsOver
<1>3. call'.pc = "done" /\ call'.result = error
  BY <1>2 DEF toServiceError
<1>4. PipelineTyped'
  BY <1>1, <1>2, <1>3 DEF PipelineTyped, Latest
<1>5. error = "program" => ~Mattering(txs[Latest])
  BY DEF Mattering, Waiting
<1>6. MoneyInv' /\ AnswerInv'
  BY <1>1, <1>2, <1>3, <1>5 DEF MoneyInv, Quiet, AnswerInv, Latest
<1>7. QED BY <1>2, <1>4, <1>6 DEF PipeInv

LEMMA Polls ==
  ASSUME PipeInv, sendAndConfirm
  PROVE  PipeInv'
<1>1. PipelineTyped /\ TriedInv /\ MoneyInv /\ AnswerInv /\ call.pc = "poll"
  BY DEF PipeInv, sendAndConfirm
<1>2. /\ txs \in [DOMAIN txs -> Tx] /\ DOMAIN txs \subseteq 1..Latest
      /\ Latest \in Nat /\ Latest # 0 /\ Latest \in DOMAIN txs
      /\ call \in CallState /\ index \in Endpoints /\ call.result = "none"
  BY <1>1, InATurn
<1>3. CASE withFailover(call, "timeout") /\ UNCHANGED txs
  BY <1>1, <1>3, PollFails
<1>4. CASE txs[Latest].status = "err" /\ withFailover(call, "program") /\ UNCHANGED txs
  BY <1>1, <1>4, PollFails
<1>5. CASE /\ txs[Latest].status = "ok"
           /\ call' = [call EXCEPT !.pc = "done", !.result = "confirmed"]
           /\ UNCHANGED <<index, txs>>
  <2>1. /\ call' \in CallState /\ call'.pc = "done" /\ call'.result = "confirmed"
        /\ call'.moved = call.moved /\ call'.lost = call.lost /\ call'.tx = call.tx
    BY <1>2, <1>5 DEF CallState
  <2>2. PipelineTyped'
    BY <1>2, <1>5, <2>1 DEF PipelineTyped, Latest
  <2>3. TriedInv' /\ MoneyInv'
    BY <1>1, <1>5, <2>1 DEF TriedInv, MoneyInv, Latest
  <2>4. AnswerInv'
    BY <1>2, <1>5, <2>1 DEF AnswerInv, Landed
  <2>5. QED BY <2>2, <2>3, <2>4 DEF PipeInv
<1>6. CASE /\ call' = [call EXCEPT !.polls = @ + 1]
           /\ \E heard \in BOOLEAN : txs' = [txs EXCEPT ![Latest].held = @ \/ heard]
           /\ UNCHANGED index
  <2>1. PICK heard \in BOOLEAN : txs' = [txs EXCEPT ![Latest].held = @ \/ heard]
    BY <1>6
  <2> DEFINE held == txs[Latest].held \/ heard
             tx == [txs[Latest] EXCEPT !.held = held]
             polls == call.polls + 1
  <2>2. held \in BOOLEAN
    BY Zenon
  <2>3. txs' = [txs EXCEPT ![Latest] = tx]
    BY <1>2, <2>1 DEF Tx
  <2>4. polls \in Nat /\ call' = [call EXCEPT !.polls = polls]
    BY <1>2, <1>6 DEF CallState
  <2> HIDE DEF held, polls
  <2>5. tx \in Tx
    BY <1>2, <2>2 DEF Tx
  <2>6. /\ call' \in CallState /\ call'.pc = "poll" /\ call'.leg = call.leg
        /\ call'.tried = call.tried /\ call'.moved = call.moved /\ call'.lost = call.lost
        /\ call'.tx = call.tx /\ call'.result = "none"
    BY <1>1, <1>2, <2>4 DEF CallState
  <2> HIDE DEF tx
  <2>7. /\ txs' \in [DOMAIN txs -> Tx] /\ DOMAIN txs' = DOMAIN txs
        /\ \A n \in DOMAIN txs \ {Latest} : txs'[n] = txs[n]
    BY <1>2, <2>3, <2>5
  <2>8. PipelineTyped'
    BY <1>2, <1>6, <2>6, <2>7 DEF PipelineTyped, Latest
  <2>9. TriedInv'
    BY <1>1, <1>6, <2>6 DEF TriedInv
  <2>10. MoneyInv' /\ AnswerInv'
    BY <1>1, <2>6, <2>7 DEF MoneyInv, AnswerInv, Latest
  <2>11. QED BY <2>8, <2>9, <2>10 DEF PipeInv
<1>7. QED BY <1>3, <1>4, <1>5, <1>6 DEF sendAndConfirm

LEMMA PipeInvStep == PipeInv /\ [TxNext]_txVars => PipeInv'
<1> SUFFICES ASSUME PipeInv, [TxNext]_txVars PROVE PipeInv'
  OBVIOUS
<1>1. CASE sendSigned \/ withRetry
  BY <1>1, Begins
<1>2. CASE build
  BY <1>2, Builds
<1>3. CASE sendRawTransaction
  BY <1>3, Sends
<1>4. CASE sendAndConfirm
  BY <1>4, Polls
<1>5. CASE failover
  BY <1>5, OthersFailOver
<1>6. ASSUME NEW n \in DOMAIN txs, land(n) \/ drop(n) \/ expire(n) PROVE PipeInv'
  BY <1>6, ChainSteps
<1>7. CASE UNCHANGED txVars
  BY <1>7 DEF txVars, PipeInv, PipelineTyped, TriedInv, MoneyInv, AnswerInv, Latest, Landed, Quiet
<1>8. QED BY <1>1, <1>2, <1>3, <1>4, <1>5, <1>6, <1>7 DEF TxNext

LEMMA PipeInvImplies == PipeInv => SendInv
<1> SUFFICES ASSUME PipeInv PROVE SendInv
  OBVIOUS
<1>1. PipelineTyped /\ TriedInv /\ MoneyInv /\ AnswerInv
  BY DEF PipeInv
<1>2. LandsOnce
  <2>1. SUFFICES ASSUME ~call.lost PROVE Cardinality(Landed) <= 1
    BY DEF LandsOnce
  <2>2. Landed \subseteq {Latest}
    BY <1>1, <2>1 DEF MoneyInv, Landed, Mattering
  <2>3. IsFiniteSet({Latest}) /\ Cardinality({Latest}) = 1
    BY FS_Singleton
  <2>4. QED BY <2>2, <2>3, FS_Subset, FS_CardinalityType
<1>3. AnswerIsTrue
  BY <1>1 DEF AnswerIsTrue, MoneyInv, AnswerInv, Quiet
<1>4. GivesUpAfterAll
  <2>1. Cardinality(Endpoints) = EndpointCount
    BY PipelineConstants, FS_Interval DEF Endpoints
  <2>2. QED BY <1>1, <2>1 DEF GivesUpAfterAll, TriedInv
<1>5. QED BY <1>2, <1>3, <1>4 DEF SendInv

(* However endpoints fail, answers get lost and transactions are late, a   *)
(* call moves money once, tells its caller the truth, and gives up only    *)
(* when no endpoint is left (sendSigned, with SendInv's exceptions).       *)
THEOREM SendsOnce == TxSpec => []SendInv
<1>1. TxInit => PipeInv
  BY PipeInvInit
<1>2. PipeInv /\ [TxNext]_txVars => PipeInv'
  BY PipeInvStep
<1>3. PipeInv => SendInv
  BY PipeInvImplies
<1>4. QED BY <1>1, <1>2, <1>3, PTL DEF TxSpec

(***************************************************************************)
(* The circuit breaker.  Its failures and its times only decide when it    *)
(* opens; what it lets loose depends on its state and on the probes.       *)
(***************************************************************************)
BreakerStates == {"closed", "open", "half-open"}

BreakerOK(b) ==
  b \in [state : BreakerStates, failures : {b.failures}, openedAt : {b.openedAt},
         probeSuccesses : Nat, probeInFlight : BOOLEAN]

Call == [role : {"none", "ordinary", "probe"}, age : Nat]

(* A probe is out only while the breaker is half-open and says so, the     *)
(* probes it counts came in a row, and fewer than it takes to close.       *)
ProbesInv ==
  /\ \A c, d \in Callers : running[c].role = "probe" /\ running[d].role = "probe" => c = d
  /\ \A c \in Callers :
       running[c].role = "probe" => breaker.state = "half-open" /\ breaker.probeInFlight
  /\ breaker.state = "half-open" => streak >= breaker.probeSuccesses

CarefulInv ==
  /\ BreakerOK(breaker)
  /\ running \in [Callers -> Call]
  /\ streak \in Nat /\ unruly \in BOOLEAN
  /\ ~unruly => ProbesInv

LEMMA BreakerConstants == SuccessThreshold \in Nat /\ SuccessThreshold >= 1
BY BreakerAssumption

LEMMA CarefulInvInit == BreakerInit => CarefulInv
<1> SUFFICES ASSUME BreakerInit PROVE CarefulInv
  OBVIOUS
<1>1. BreakerOK(breaker) /\ breaker.state = "closed" /\ breaker.probeSuccesses = 0
  BY DEF BreakerInit, BreakerOK, BreakerStates
<1>2. NoCall \in Call /\ NoCall.role = "none"
  BY DEF NoCall, Call
<1>3. running \in [Callers -> Call] /\ \A c \in Callers : running[c].role = "none"
  BY <1>2 DEF BreakerInit
<1>4. streak = 0 /\ unruly = FALSE
  BY DEF BreakerInit
<1>5. QED BY <1>1, <1>3, <1>4 DEF CarefulInv, ProbesInv

(***************************************************************************)
(* The methods.                                                            *)
(***************************************************************************)
Half(b) == [b EXCEPT !.state = "half-open", !.probeSuccesses = 0, !.probeInFlight = FALSE]

LEMMA Admitted ==
  ASSUME NEW b, BreakerOK(b)
  PROVE  LET d == admit(b) IN
         /\ BreakerOK(d.breaker) /\ d.role \in {"ordinary", "refused", "probe"}
         /\ d.role = "ordinary" => d.breaker = b /\ b.state = "closed"
         /\ d.role = "probe" => /\ d.breaker.state = "half-open" /\ d.breaker.probeInFlight
                                /\ b.state = "half-open" => ~b.probeInFlight
         /\ d.breaker = b \/ /\ d.breaker.state = "half-open" /\ b.state # "closed"
                             /\ d.breaker.probeSuccesses =
                                  IF b.state = "half-open" THEN b.probeSuccesses ELSE 0
                             /\ b.state = "half-open" /\ b.probeInFlight => d.breaker = b
<1> DEFINE half == IF b.state = "open" /\ b.openedAt >= Cooldown THEN Half(b) ELSE b
           out == [half EXCEPT !.probeInFlight = TRUE]
<1>1. admit(b) = IF b.state = "closed" THEN [breaker |-> b, role |-> "ordinary"]
                 ELSE IF half.state = "open" \/ half.probeInFlight
                      THEN [breaker |-> half, role |-> "refused"]
                      ELSE [breaker |-> out, role |-> "probe"]
  BY DEF admit, Half
<1>2. /\ BreakerOK(Half(b)) /\ Half(b).state = "half-open" /\ Half(b).probeSuccesses = 0
      /\ Half(b).probeInFlight = FALSE
  BY DEF BreakerOK, Half, BreakerStates
<1>3. /\ BreakerOK(half)
      /\ half = b \/ (half = Half(b) /\ b.state = "open")
      /\ b.state = "half-open" => half = b
  BY <1>2
<1> HIDE DEF half
<1>4. /\ BreakerOK(out) /\ out.state = half.state /\ out.probeInFlight = TRUE
      /\ out.probeSuccesses = half.probeSuccesses
  <2>1. half \in [state : BreakerStates, failures : {half.failures}, openedAt : {half.openedAt},
                  probeSuccesses : Nat, probeInFlight : BOOLEAN]
    BY <1>3, Zenon DEF BreakerOK
  <2>2. QED BY <2>1 DEF BreakerOK
<1>5. b.state \in BreakerStates /\ half.state \in BreakerStates
  <2>1. \A x : BreakerOK(x) => x.state \in BreakerStates
    BY DEF BreakerOK
  <2>2. QED BY <1>3, <2>1
<1> HIDE DEF out
<1>6. CASE b.state = "closed"
  <2>1. admit(b).breaker = b /\ admit(b).role = "ordinary"
    BY <1>1, <1>6
  <2>2. QED BY <1>6, <2>1
<1>7. CASE b.state # "closed" /\ (half.state = "open" \/ half.probeInFlight)
  <2>1. admit(b).breaker = half /\ admit(b).role = "refused"
    BY <1>1, <1>7
  <2>2. QED BY <1>2, <1>3, <1>7, <2>1
<1>8. CASE b.state # "closed" /\ half.state # "open" /\ ~half.probeInFlight
  <2>1. admit(b).breaker = out /\ admit(b).role = "probe"
    BY <1>1, <1>8
  <2>2. half.state = "half-open"
    BY <1>2, <1>3, <1>5, <1>8 DEF BreakerStates
  <2>3. QED BY <1>2, <1>3, <1>4, <1>8, <2>1, <2>2
<1>9. QED BY <1>6, <1>7, <1>8

LEMMA Succeeded ==
  ASSUME NEW b, BreakerOK(b)
  PROVE  /\ BreakerOK(onSuccess(b, TRUE)) /\ BreakerOK(onSuccess(b, FALSE))
         /\ onSuccess(b, FALSE).state = b.state
         /\ onSuccess(b, FALSE).probeInFlight = b.probeInFlight
         /\ onSuccess(b, FALSE).probeSuccesses = b.probeSuccesses
         /\ \/ /\ b.probeSuccesses + 1 >= SuccessThreshold
               /\ onSuccess(b, TRUE).state = "closed"
            \/ /\ b.probeSuccesses + 1 < SuccessThreshold
               /\ onSuccess(b, TRUE).state = b.state
               /\ onSuccess(b, TRUE).probeSuccesses = b.probeSuccesses + 1
<1> DEFINE done == [b EXCEPT !.probeInFlight = FALSE, !.probeSuccesses = @ + 1]
           cleared == [b EXCEPT !.failures = <<>>]
           shut == [done EXCEPT !.state = "closed", !.failures = <<>>, !.probeSuccesses = 0]
<1>1. /\ BreakerOK(done) /\ done.state = b.state /\ done.probeSuccesses = b.probeSuccesses + 1
      /\ b.probeSuccesses \in Nat
  <2>1. b \in [state : BreakerStates, failures : {b.failures}, openedAt : {b.openedAt},
               probeSuccesses : Nat, probeInFlight : BOOLEAN]
    BY DEF BreakerOK
  <2>2. b.probeSuccesses + 1 \in Nat
    BY <2>1
  <2>3. QED BY <2>1, <2>2 DEF BreakerOK
<1>2. /\ BreakerOK(cleared) /\ cleared.state = b.state /\ cleared.probeInFlight = b.probeInFlight
      /\ cleared.probeSuccesses = b.probeSuccesses
  BY DEF BreakerOK
<1>3. BreakerOK(shut) /\ shut.state = "closed"
  <2> HIDE DEF done
  <2>1. QED BY <1>1 DEF BreakerOK, BreakerStates
<1>4. /\ onSuccess(b, FALSE) = IF b.state = "closed" THEN cleared ELSE b
      /\ onSuccess(b, TRUE) = IF done.probeSuccesses >= SuccessThreshold THEN shut ELSE done
  BY DEF onSuccess
<1> HIDE DEF done, cleared, shut
<1>5. /\ BreakerOK(onSuccess(b, FALSE)) /\ onSuccess(b, FALSE).state = b.state
      /\ onSuccess(b, FALSE).probeInFlight = b.probeInFlight
      /\ onSuccess(b, FALSE).probeSuccesses = b.probeSuccesses
  BY <1>2, <1>4
<1>6. CASE done.probeSuccesses >= SuccessThreshold
  BY <1>1, <1>3, <1>4, <1>5, <1>6
<1>7. CASE ~(done.probeSuccesses >= SuccessThreshold)
  <2>1. onSuccess(b, TRUE) = done
    BY <1>4, <1>7
  <2>2. b.probeSuccesses + 1 < SuccessThreshold
    BY <1>1, <1>7, BreakerConstants
  <2>3. QED BY <1>1, <1>5, <2>1, <2>2
<1>8. QED BY <1>6, <1>7

LEMMA Failed ==
  ASSUME NEW b, BreakerOK(b), NEW age
  PROVE  /\ BreakerOK(onFailure(b, TRUE, age)) /\ onFailure(b, TRUE, age).state = "open"
         /\ BreakerOK(onFailure(b, FALSE, age))
         /\ onFailure(b, FALSE, age).state \in {b.state, "open"}
<1> DEFINE InWindow(at) == at - age < Window
           rows == SelectSeq(Append(b.failures, age), InWindow)
           counted == [b EXCEPT !.failures = rows]
           put == [b EXCEPT !.probeInFlight = FALSE]
<1>1. /\ onFailure(b, TRUE, age) = opened(put, age)
      /\ onFailure(b, FALSE, age) = IF Len(counted.failures) >= FailureThreshold
                                    THEN opened(counted, age) ELSE counted
  BY DEF onFailure
<1> HIDE DEF rows
<1>2. BreakerOK(counted) /\ counted.state = b.state
  BY DEF BreakerOK
<1>3. BreakerOK(put)
  BY DEF BreakerOK
<1>4. \A x : BreakerOK(x) => BreakerOK(opened(x, age)) /\ opened(x, age).state = "open"
  BY DEF BreakerOK, opened, BreakerStates
<1> HIDE DEF counted, put
<1>5. QED BY <1>1, <1>2, <1>3, <1>4

(* One at most is one in number.                                           *)
LEMMA AtMostOne ==
  ASSUME NEW S, \A c, d \in S : c = d PROVE Cardinality(S) <= 1
<1>1. CASE S = {}
  BY <1>1, FS_EmptySet
<1>2. CASE S # {}
  <2>1. PICK c \in S : TRUE
    BY <1>2
  <2>2. S = {c}
    BY <2>1
  <2>3. Cardinality({c}) = 1
    BY FS_Singleton
  <2>4. QED BY <2>2, <2>3
<1>3. QED BY <1>1, <1>2

(***************************************************************************)
(* A step.                                                                 *)
(***************************************************************************)
(* A circuit that closes by itself has had its probes.                     *)
Earned == breaker.state # "closed" /\ breaker'.state = "closed" =>
            streak' >= SuccessThreshold \/ reset \/ unruly

LEMMA CarefulStep ==
  ASSUME CarefulInv, BreakerNext
  PROVE  CarefulInv' /\ Earned
<1>1. /\ BreakerOK(breaker) /\ running \in [Callers -> Call]
      /\ streak \in Nat /\ unruly \in BOOLEAN /\ (~unruly => ProbesInv)
      /\ breaker.probeSuccesses \in Nat
  BY DEF CarefulInv, BreakerOK
<1>2. NoCall \in Call /\ NoCall.role = "none"
  BY DEF NoCall, Call
<1>3. ASSUME NEW c \in Callers, execute(c) PROVE CarefulInv' /\ Earned
  <2> DEFINE d == admit(breaker)
             made == [role |-> d.role, age |-> 0]
  <2>1. /\ breaker' = d.breaker /\ UNCHANGED <<streak, unruly>> /\ running[c] = NoCall
        /\ running' = IF d.role = "refused" THEN running ELSE [running EXCEPT ![c] = made]
    BY <1>3 DEF execute
  <2>2. /\ BreakerOK(d.breaker) /\ d.role \in {"ordinary", "refused", "probe"}
        /\ d.role = "ordinary" => d.breaker = breaker /\ breaker.state = "closed"
        /\ d.role = "probe" => /\ d.breaker.state = "half-open" /\ d.breaker.probeInFlight
                               /\ breaker.state = "half-open" => ~breaker.probeInFlight
        /\ d.breaker = breaker
             \/ /\ d.breaker.state = "half-open" /\ breaker.state # "closed"
                /\ d.breaker.probeSuccesses =
                     IF breaker.state = "half-open" THEN breaker.probeSuccesses ELSE 0
                /\ breaker.state = "half-open" /\ breaker.probeInFlight => d.breaker = breaker
    BY <1>1, Admitted
  <2> HIDE DEF d
  <2>3. /\ running' \in [Callers -> Call]
        /\ running'[c].role = IF d.role = "refused" THEN "none" ELSE d.role
        /\ \A e \in Callers \ {c} : running'[e] = running[e]
    BY <1>1, <1>2, <2>1, <2>2 DEF Call
  <2>4. ASSUME ~unruly PROVE ProbesInv'
    <3>1. ProbesInv
      BY <1>1, <2>4
    <3>2. CASE d.role = "probe"
      <4>1. \A e \in Callers : running[e].role # "probe"
        BY <2>2, <3>1, <3>2 DEF ProbesInv
      <4>2. \A e \in Callers : running'[e].role = "probe" => e = c
        BY <2>3, <4>1
      <4>3. breaker'.state = "half-open" /\ breaker'.probeInFlight
        BY <2>1, <2>2, <3>2
      <4>4. streak' >= breaker'.probeSuccesses
        BY <1>1, <2>1, <2>2, <3>1, <4>3 DEF ProbesInv
      <4>5. QED BY <4>2, <4>3, <4>4 DEF ProbesInv
    <3>3. CASE d.role # "probe"
      <4>1. \A e \in Callers : running'[e].role = "probe" => running[e].role = "probe"
        BY <2>3, <3>3
      <4>2. \A e \in Callers : running'[e].role = "probe" =>
                breaker'.state = "half-open" /\ breaker'.probeInFlight
        BY <2>1, <2>2, <3>1, <4>1 DEF ProbesInv
      <4>3. breaker'.state = "half-open" => streak' >= breaker'.probeSuccesses
        BY <1>1, <2>1, <2>2, <3>1 DEF ProbesInv
      <4>4. QED BY <3>1, <4>1, <4>2, <4>3 DEF ProbesInv
    <3>4. QED BY <3>2, <3>3
  <2>5. Earned
    BY <2>1, <2>2 DEF Earned
  <2>6. QED BY <1>1, <2>1, <2>2, <2>3, <2>4, <2>5 DEF CarefulInv
<1>4. ASSUME NEW c \in Callers, settle(c) PROVE CarefulInv' /\ Earned
  <2> DEFINE age == running[c].age
             probe == running[c].role = "probe"
  <2>1. /\ running' = [running EXCEPT ![c] = NoCall] /\ probe \in BOOLEAN
        /\ breaker' = IF healthy THEN onSuccess(breaker, probe)
                      ELSE onFailure(breaker, probe, age)
        /\ streak' = IF ~probe THEN streak
                     ELSE IF healthy /\ streak < SuccessThreshold THEN streak + 1
                     ELSE IF healthy THEN streak ELSE 0
        /\ unruly' = (unruly \/ (~probe /\ ~healthy /\ breaker.state # "closed"))
    BY <1>4 DEF settle
  <2>2. /\ running' \in [Callers -> Call] /\ running'[c].role = "none"
        /\ \A e \in Callers \ {c} : running'[e] = running[e]
    BY <1>1, <1>2, <2>1
  <2>3. streak' \in Nat /\ unruly' \in BOOLEAN /\ (~unruly' => ~unruly)
    BY <1>1, <2>1
  <2> HIDE DEF age
  <2>4. CASE probe
    <3>1. \/ healthy /\ breaker' = onSuccess(breaker, TRUE)
          \/ ~healthy /\ breaker' = onFailure(breaker, TRUE, age)
      <4>1. probe = TRUE
        BY <2>4
      <4> HIDE DEF probe
      <4>2. QED BY <2>1, <4>1
    <3>2. BreakerOK(breaker')
      BY <1>1, <3>1, Succeeded, Failed
    <3>3. ASSUME ~unruly PROVE ProbesInv' /\ Earned
      <4>1. ProbesInv /\ breaker.state = "half-open" /\ streak >= breaker.probeSuccesses
        BY <1>1, <2>4, <3>3 DEF ProbesInv
      <4>2. \A e \in Callers : running'[e].role # "probe"
        BY <2>2, <2>4, <4>1 DEF ProbesInv
      <4>3. CASE healthy
        <5>1. streak' = IF streak < SuccessThreshold THEN streak + 1 ELSE streak
          BY <2>1, <2>4, <4>3
        <5>2. \/ /\ breaker.probeSuccesses + 1 >= SuccessThreshold
                 /\ breaker'.state = "closed"
              \/ /\ breaker'.state = breaker.state
                 /\ breaker'.probeSuccesses = breaker.probeSuccesses + 1
                 /\ breaker.probeSuccesses + 1 < SuccessThreshold
          <6>1. breaker' = onSuccess(breaker, TRUE)
            BY <3>1, <4>3, Zenon
          <6>2. QED BY <1>1, <6>1, Succeeded
        <5>3. QED BY <1>1, <4>1, <4>2, <5>1, <5>2, BreakerConstants DEF ProbesInv, Earned
      <4>4. CASE ~healthy
        <5>1. breaker'.state = "open"
          BY <1>1, <3>1, <4>4, Failed
        <5>2. QED BY <4>2, <5>1 DEF ProbesInv, Earned
      <4>5. QED BY <4>3, <4>4
    <3>4. unruly => Earned
      BY DEF Earned
    <3>5. QED BY <2>2, <2>3, <3>2, <3>3, <3>4 DEF CarefulInv
  <2>5. CASE ~probe
    <3>1. \/ healthy /\ breaker' = onSuccess(breaker, FALSE)
          \/ ~healthy /\ breaker' = onFailure(breaker, FALSE, age)
      <4>1. probe = FALSE
        BY <2>5
      <4> HIDE DEF probe
      <4>2. QED BY <2>1, <4>1
    <3>2. BreakerOK(breaker')
      BY <1>1, <3>1, Succeeded, Failed
    <3>3. breaker'.state \in {breaker.state, "open"}
      BY <1>1, <3>1, Succeeded, Failed
    <3>4. Earned
      BY <3>3 DEF Earned
    <3>5. ASSUME ~unruly' PROVE ProbesInv'
      <4>1. ProbesInv /\ (~healthy => breaker.state = "closed") /\ streak' = streak
        BY <1>1, <2>1, <2>3, <2>5, <3>5
      <4>2. \A e \in Callers : running'[e].role = "probe" => running[e].role = "probe"
        BY <2>2
      <4>3. CASE healthy
        <5>1. /\ breaker'.state = breaker.state /\ breaker'.probeInFlight = breaker.probeInFlight
              /\ breaker'.probeSuccesses = breaker.probeSuccesses
          BY <1>1, <3>1, <4>3, Succeeded
        <5>2. QED BY <4>1, <4>2, <5>1 DEF ProbesInv
      <4>4. CASE ~healthy
        <5>1. /\ \A e \in Callers : running'[e].role # "probe"
              /\ breaker'.state # "half-open"
          BY <3>3, <4>1, <4>2, <4>4 DEF ProbesInv
        <5>2. QED BY <5>1 DEF ProbesInv
      <4>5. QED BY <4>3, <4>4
    <3>6. QED BY <2>2, <2>3, <3>2, <3>4, <3>5 DEF CarefulInv
  <2>6. QED BY <2>4, <2>5
<1>5. CASE reset
  <2>1. /\ breaker' = [breaker EXCEPT !.state = "closed", !.failures = <<>>,
                                      !.probeSuccesses = 0, !.probeInFlight = FALSE]
        /\ streak' = 0 /\ UNCHANGED running
        /\ unruly' = (unruly \/ \E c \in Callers : running[c].role = "probe")
    BY <1>5 DEF reset
  <2>2. BreakerOK(breaker') /\ breaker'.state = "closed"
    BY <1>1, <2>1 DEF BreakerOK, BreakerStates
  <2>3. ~unruly' => ~unruly /\ \A c \in Callers : running'[c].role # "probe"
    BY <1>1, <2>1
  <2>4. unruly' \in BOOLEAN
    BY <1>1, <2>1
  <2>5. QED BY <1>1, <1>5, <2>1, <2>2, <2>3, <2>4 DEF CarefulInv, ProbesInv, Earned
<1>6. CASE tick
  <2> DEFINE older(age, cap) == IF age < cap THEN age + 1 ELSE cap
             at == older(breaker.openedAt, Cooldown)
             ages == [n \in DOMAIN breaker.failures |-> older(breaker.failures[n], Oldest)]
  <2>1. /\ breaker' = [breaker EXCEPT !.openedAt = at, !.failures = ages]
        /\ running' = [c \in Callers |-> IF running[c] = NoCall THEN NoCall
                                         ELSE [running[c] EXCEPT !.age = @ + 1]]
        /\ UNCHANGED <<streak, unruly>>
    BY <1>6 DEF tick
  <2> HIDE DEF at, ages
  <2>2. /\ BreakerOK(breaker') /\ breaker'.state = breaker.state
        /\ breaker'.probeSuccesses = breaker.probeSuccesses
        /\ breaker'.probeInFlight = breaker.probeInFlight
    BY <1>1, <2>1 DEF BreakerOK
  <2>3. \A c \in Callers : running'[c] \in Call /\ running'[c].role = running[c].role
    BY <1>1, <1>2, <2>1 DEF Call
  <2>4. running' \in [Callers -> Call]
    BY <2>1, <2>3
  <2>5. QED BY <1>1, <2>1, <2>2, <2>3, <2>4 DEF CarefulInv, ProbesInv, Earned
<1>7. CASE turn
  BY <1>1, <1>7 DEF turn, CarefulInv, ProbesInv, Earned
<1>8. QED BY <1>3, <1>4, <1>5, <1>6, <1>7 DEF BreakerNext

(* Half-open lets one probe loose at a time, and the circuit closes by     *)
(* itself only over SuccessThreshold answered probes in a row, for any     *)
(* callers, thresholds and times, unless a result or an override reached   *)
(* the breaker out of turn (execute).                                      *)
THEOREM HalfOpenStaysCareful == BreakerSpec => HalfOpenIsCareful
<1>1. BreakerInit => CarefulInv
  BY CarefulInvInit
<1>2. CarefulInv /\ [BreakerNext]_breakerVars => CarefulInv'
  <2>1. CarefulInv /\ BreakerNext => CarefulInv'
    BY CarefulStep
  <2>2. CarefulInv /\ UNCHANGED breakerVars => CarefulInv'
    BY DEF breakerVars, CarefulInv, ProbesInv
  <2>3. QED BY <2>1, <2>2
<1>3. CarefulInv /\ [BreakerNext]_breakerVars =>
        [/\ OneProbe'
         /\ breaker.state # "closed" /\ breaker'.state = "closed" =>
              streak' >= SuccessThreshold \/ reset \/ unruly]_breakerVars
  <2> SUFFICES ASSUME CarefulInv, BreakerNext PROVE OneProbe' /\ Earned
    BY DEF Earned
  <2>1. CarefulInv' /\ Earned
    BY CarefulStep
  <2>2. ~unruly' => \A c, d \in Probes' : c = d
    BY <2>1 DEF CarefulInv, ProbesInv, Probes
  <2>3. OneProbe'
    BY <2>2, AtMostOne DEF OneProbe
  <2>4. QED BY <2>1, <2>3
<1>4. QED BY <1>1, <1>2, <1>3, PTL DEF BreakerSpec, HalfOpenIsCareful

(***************************************************************************)
(* The panel: what is typed.                                               *)
(***************************************************************************)
(* The ways to read a numeral digit by digit. *)
Worths(s) == {w \in [0..Len(s) -> Nat] :
                /\ w[0] = 0
                /\ \A n \in 0..Len(s) : n > 0 => w[n] = 10 * w[n - 1] + s[n]}

(* The value of a numeral can be read digit by digit.                      *)
LEMMA WorthExists ==
  ASSUME NEW s \in Seq(Nat)
  PROVE  Worths(s) # {}
<1> DEFINE L == Len(s)
           Good(m, w) == w[0] = 0 /\ \A n \in 0..m : n > 0 => w[n] = 10 * w[n - 1] + s[n]
           T == {m \in Nat : m <= L => \E w \in [0..m -> Nat] : Good(m, w)}
<1>t. \A m : m \in T <=> m \in Nat /\ (m <= L => \E w \in [0..m -> Nat] : Good(m, w))
  OBVIOUS
<1>0. L \in Nat /\ \A n \in 1..L : s[n] \in Nat
  OBVIOUS
<1>1. 0 \in T
  <2>1. [x \in 0..0 |-> 0] \in [0..0 -> Nat] /\ Good(0, [x \in 0..0 |-> 0])
    OBVIOUS
  <2>2. QED BY <2>1
<1> HIDE DEF T
<1>2. ASSUME NEW m \in Nat, m \in T PROVE m + 1 \in T
  <2> SUFFICES ASSUME m + 1 <= L PROVE \E w \in [0..(m + 1) -> Nat] : Good(m + 1, w)
    <3> HIDE DEF Good
    <3> QED BY <1>t
  <2>1. PICK w \in [0..m -> Nat] : Good(m, w)
    <3>1. m <= L
      BY <1>0
    <3> HIDE DEF Good
    <3> QED BY <1>2, <1>t, <3>1
  <2> DEFINE v == [n \in 0..(m + 1) |-> IF n = m + 1 THEN 10 * w[m] + s[m + 1] ELSE w[n]]
  <2>2. s[m + 1] \in Nat /\ w[m] \in Nat
    BY <1>0
  <2>3. v \in [0..(m + 1) -> Nat]
    BY <2>2
  <2>4. Good(m + 1, v)
    <3>1. v[0] = 0
      BY <2>1
    <3>2. ASSUME NEW n \in 0..(m + 1), n > 0 PROVE v[n] = 10 * v[n - 1] + s[n]
      <4>1. CASE n = m + 1
        BY <4>1
      <4>2. CASE n \in 0..m
        BY <2>1, <3>2, <4>2
      <4>3. QED BY <4>1, <4>2
    <3>3. QED BY <3>1, <3>2
  <2>5. QED BY <2>3, <2>4
<1>3. L \in T
  BY <1>0, <1>1, <1>2, NatInduct
<1>4. PICK w \in [0..L -> Nat] : Good(L, w)
  <2> HIDE DEF Good
  <2> QED BY <1>0, <1>3, <1>t
<1>5. QED BY <1>4 DEF Worths

(* digits is one such reading: the recursion in it has a solution.         *)
LEMMA Worth ==
  ASSUME NEW s \in Seq(Nat)
  PROVE  \E w \in Worths(s) : digits(s) = w[Len(s)]
<1> DEFINE f == CHOOSE worth : worth = [n \in 0..Len(s) |-> IF n = 0 THEN 0 ELSE 10 * worth[n - 1] + s[n]]
<1>1. digits(s) = f[Len(s)]
  BY DEF digits
<1>2. PICK w : w \in Worths(s)
  BY WorthExists
<1>3. w = [n \in 0..Len(s) |-> IF n = 0 THEN 0 ELSE 10 * w[n - 1] + s[n]]
  BY <1>2 DEF Worths
<1>4. f = [n \in 0..Len(s) |-> IF n = 0 THEN 0 ELSE 10 * f[n - 1] + s[n]]
  BY <1>3
<1> HIDE DEF f
<1>5. \A n \in 0..Len(s) : f[n] = IF n = 0 THEN 0 ELSE 10 * f[n - 1] + s[n]
  BY <1>4
<1>6. Len(s) \in Nat /\ \A n \in 1..Len(s) : s[n] \in Nat
  OBVIOUS
<1> DEFINE T == {m \in Nat : m <= Len(s) => f[m] \in Nat}
<1>7. \A m \in Nat : m \in T
  <2>1. 0 \in T
    BY <1>5, <1>6
  <2>2. ASSUME NEW m \in Nat, m \in T, m + 1 <= Len(s) PROVE f[m + 1] \in Nat
    <3>1. f[m + 1] = 10 * f[m] + s[m + 1] /\ f[m] \in Nat
      BY <1>5, <1>6, <2>2
    <3>2. QED BY <1>6, <2>2, <3>1
  <2>3. \A m \in Nat : m \in T => m + 1 \in T
    BY <2>2
  <2> HIDE DEF T
  <2>4. QED BY <2>1, <2>3, NatInduct
<1>8. f \in [0..Len(s) -> Nat]
  BY SMTT(30), <1>4, <1>6, <1>7
<1>9. f \in Worths(s)
  BY <1>5, <1>6, <1>8 DEF Worths
<1>10. QED BY <1>1, <1>9

(* A numeral is worth a natural number.                                    *)
LEMMA DigitsType ==
  ASSUME NEW s \in Seq(Nat)
  PROVE  digits(s) \in Nat
BY Worth DEF Worths

(* One more digit makes ten times the value, and the digit.                *)
LEMMA DigitsAppend ==
  ASSUME NEW s \in Seq(Nat), NEW d \in Nat
  PROVE  digits(Append(s, d)) = 10 * digits(s) + d
<1> DEFINE t == Append(s, d)
           n == Len(s)
<1>1. t \in Seq(Nat) /\ Len(t) = n + 1 /\ t[n + 1] = d /\ n \in Nat /\ \A i \in 1..n : t[i] = s[i]
  OBVIOUS
<1> HIDE DEF t, n
<1>2. PICK v \in Worths(s) : digits(s) = v[n]
  BY Worth DEF n
<1>3. PICK w \in Worths(t) : digits(t) = w[n + 1]
  BY <1>1, Worth
<1>4. /\ v[0] = 0 /\ \A i \in 0..n : i > 0 => v[i] = 10 * v[i - 1] + s[i]
      /\ w[0] = 0 /\ \A i \in 0..(n + 1) : i > 0 => w[i] = 10 * w[i - 1] + t[i]
  BY <1>1, <1>2, <1>3 DEF Worths, n
<1> DEFINE T == {m \in Nat : m <= n => w[m] = v[m]}
<1>5. \A m \in Nat : m \in T
  <2>1. 0 \in T
    BY <1>4
  <2>2. ASSUME NEW m \in Nat, m \in T, m + 1 <= n PROVE w[m + 1] = v[m + 1]
    <3>1. m + 1 \in 1..n /\ m + 1 - 1 = m
      BY <1>1, <2>2
    <3>2. w[m + 1] = 10 * w[m] + t[m + 1] /\ v[m + 1] = 10 * v[m] + s[m + 1]
      BY <1>1, <1>4, <3>1
    <3>3. QED BY <1>1, <2>2, <3>1, <3>2
  <2>3. \A m \in Nat : m \in T => m + 1 \in T
    BY <2>2
  <2> HIDE DEF T
  <2>4. QED BY <2>1, <2>3, NatInduct
<1>6. w[n] = v[n]
  BY <1>1, <1>5
<1>7. w[n + 1] = 10 * w[n] + t[n + 1]
  <2>1. n + 1 \in 0..(n + 1) /\ n + 1 > 0 /\ n + 1 - 1 = n
    BY <1>1
  <2>2. w[n + 1] = 10 * w[n + 1 - 1] + t[n + 1]
    BY <1>1, <1>4, <2>1
  <2>3. QED BY <2>1, <2>2
<1>8. QED BY <1>1, <1>2, <1>3, <1>6, <1>7 DEF t

(* The powers of ten up to n. *)
Powers(n) == {w \in [0..n -> Nat] : w[0] = 1 /\ \A i \in 0..n : i > 0 => w[i] = 10 * w[i - 1]}

(* The powers of ten up to n exist,                                        *)
LEMMA PowersExist ==
  ASSUME NEW n \in Nat
  PROVE  Powers(n) # {}
<1> DEFINE T == {m \in Nat : Powers(m) # {}}
<1>1. 0 \in T
  <2>1. [x \in 0..0 |-> 1] \in Powers(0)
    BY DEF Powers
  <2>2. QED BY <2>1
<1>2. ASSUME NEW m \in Nat, m \in T PROVE m + 1 \in T
  <2>1. PICK w : w \in Powers(m)
    BY <1>2
  <2>2. /\ w \in [0..m -> Nat] /\ w[0] = 1 /\ w[m] \in Nat
        /\ \A i \in 0..m : i > 0 => w[i] = 10 * w[i - 1]
    BY <2>1 DEF Powers
  <2> DEFINE v == [i \in 0..(m + 1) |-> IF i = m + 1 THEN 10 * w[m] ELSE w[i]]
  <2>3. v \in [0..(m + 1) -> Nat] /\ v[0] = 1
    BY <2>2
  <2>4. ASSUME NEW i \in 0..(m + 1), i > 0 PROVE v[i] = 10 * v[i - 1]
    <3>1. CASE i = m + 1
      BY <3>1
    <3>2. CASE i \in 0..m
      BY <2>2, <2>4, <3>2
    <3>3. QED BY <3>1, <3>2
  <2> HIDE DEF v
  <2>5. v \in Powers(m + 1)
    BY <2>3, <2>4 DEF Powers
  <2>6. QED BY <2>5
<1> HIDE DEF T
<1>3. n \in T
  BY <1>1, <1>2, NatInduct
<1>4. QED BY <1>3 DEF T

(* and every list of them is the same.                                     *)
LEMMA PowersAgree ==
  ASSUME NEW m \in Nat, NEW n \in Nat, m <= n, NEW w \in Powers(m), NEW v \in Powers(n)
  PROVE  w[m] = v[m]
<1>1. /\ w[0] = 1 /\ \A i \in 0..m : i > 0 => w[i] = 10 * w[i - 1]
      /\ v[0] = 1 /\ \A i \in 0..n : i > 0 => v[i] = 10 * v[i - 1]
  BY DEF Powers
<1> DEFINE T == {i \in Nat : i <= m => w[i] = v[i]}
<1>2. 0 \in T
  BY <1>1
<1>3. ASSUME NEW i \in Nat, i \in T, i + 1 <= m PROVE w[i + 1] = v[i + 1]
  <2>1. i + 1 \in 0..m /\ i + 1 \in 0..n /\ i + 1 > 0 /\ i + 1 - 1 = i
    BY <1>3
  <2>2. w[i + 1] = 10 * w[i + 1 - 1] /\ v[i + 1] = 10 * v[i + 1 - 1]
    BY <1>1, <2>1
  <2>3. w[i] = v[i]
    BY <1>3
  <2>4. QED BY <2>1, <2>2, <2>3
<1>4. \A i \in Nat : i \in T => i + 1 \in T
  BY <1>3
<1> HIDE DEF T
<1>5. m \in T
  BY <1>2, <1>4, NatInduct
<1>6. QED BY <1>5 DEF T

(* tens is the powers of ten.                                              *)
LEMMA Tens ==
  /\ tens[0] = 1
  /\ \A n \in Nat : tens[n] \in Nat /\ tens[n + 1] = 10 * tens[n]
<1> DEFINE power(n) == CHOOSE w : w \in Powers(n)
           g == [n \in Nat |-> power(n)[n]]
<1>1. \A n \in Nat : power(n) \in Powers(n)
  BY PowersExist
<1> HIDE DEF power
<1>2. g[0] = 1
  BY <1>1 DEF Powers
<1>3. ASSUME NEW n \in Nat PROVE g[n + 1] = 10 * g[n]
  <2>1. power(n) \in Powers(n) /\ power(n + 1) \in Powers(n + 1)
    BY <1>1
  <2>2. power(n)[n] = power(n + 1)[n]
    BY <2>1, PowersAgree
  <2>3. power(n + 1)[n + 1] = 10 * power(n + 1)[n + 1 - 1]
    BY <2>1 DEF Powers
  <2>4. n + 1 - 1 = n
    OBVIOUS
  <2>5. QED BY <2>2, <2>3, <2>4
<1>4. g = [n \in Nat |-> IF n = 0 THEN 1 ELSE 10 * g[n - 1]]
  <2>1. ASSUME NEW n \in Nat PROVE g[n] = IF n = 0 THEN 1 ELSE 10 * g[n - 1]
    <3>1. CASE n = 0
      BY <1>2, <3>1
    <3>2. CASE n # 0
      <4>1. n - 1 \in Nat /\ n - 1 + 1 = n
        BY <3>2
      <4>2. g[n - 1 + 1] = 10 * g[n - 1]
        BY <1>3, <4>1
      <4>3. QED BY <3>2, <4>1, <4>2
    <3>3. QED BY <3>1, <3>2
  <2>2. g = [n \in Nat |-> g[n]]
    OBVIOUS
  <2> HIDE DEF g
  <2>3. QED BY <2>1, <2>2
<1> HIDE DEF g
<1>5. tens = [n \in Nat |-> IF n = 0 THEN 1 ELSE 10 * tens[n - 1]]
  BY <1>4 DEF tens
<1>6. \A n \in Nat : tens[n] = IF n = 0 THEN 1 ELSE 10 * tens[n - 1]
  BY <1>5
<1>7. tens[0] = 1
  BY <1>6
<1>8. ASSUME NEW n \in Nat PROVE tens[n + 1] = 10 * tens[n]
  <2>1. n + 1 \in Nat /\ n + 1 # 0 /\ n + 1 - 1 = n
    OBVIOUS
  <2>2. tens[n + 1] = IF n + 1 = 0 THEN 1 ELSE 10 * tens[n + 1 - 1]
    BY <1>6, <2>1
  <2>3. QED BY <2>1, <2>2
<1> DEFINE T == {n \in Nat : tens[n] \in Nat}
<1>9. 0 \in T
  BY <1>7
<1>10. \A n \in Nat : n \in T => n + 1 \in T
  BY <1>8
<1> HIDE DEF T
<1>11. Nat \subseteq T
  BY <1>9, <1>10, NatInduct
<1>12. QED BY <1>7, <1>8, <1>11 DEF T

Zeros(k) == [i \in 1..k |-> 0]

(* Padding with zeros multiplies by a power of ten (padEnd).               *)
LEMMA DigitsPadded ==
  ASSUME NEW s \in Seq(Nat), NEW k \in Nat
  PROVE  digits(s \o Zeros(k)) = digits(s) * tens[k]
<1> DEFINE T == {m \in Nat : digits(s \o Zeros(m)) = digits(s) * tens[m]}
<1>1. digits(s) \in Nat
  BY DigitsType
<1>2. 0 \in T
  <2>1. s \o Zeros(0) = s
    BY DEF Zeros
  <2>2. digits(s) * 1 = digits(s)
    BY <1>1
  <2>3. QED BY <2>1, <2>2, Tens
<1>3. ASSUME NEW m \in Nat, m \in T PROVE m + 1 \in T
  <2>1. Zeros(m) \in Seq(Nat)
    BY DEF Zeros
  <2>2. s \o Zeros(m + 1) = Append(s \o Zeros(m), 0)
    BY DEF Zeros
  <2>3. s \o Zeros(m) \in Seq(Nat)
    BY <2>1
  <2>4. digits(s \o Zeros(m + 1)) = 10 * digits(s \o Zeros(m)) + 0
    BY <2>2, <2>3, DigitsAppend
  <2>5. digits(s \o Zeros(m)) = digits(s) * tens[m]
    BY <1>3
  <2>6. tens[m] \in Nat /\ tens[m + 1] = 10 * tens[m]
    BY Tens
  <2>7. \A a, b \in Nat : 10 * (a * b) + 0 = a * (10 * b)
    OBVIOUS
  <2>8. QED BY <1>1, <2>4, <2>5, <2>6, <2>7
<1> HIDE DEF T
<1>4. k \in T
  BY <1>2, <1>3, NatInduct
<1>5. QED BY <1>4 DEF T

(* Without floating point, the lamports of a text are its value            *)
(* (solToLamports).                                                        *)
LEMMA TextWorth ==
  ASSUME NEW t \in Texts
  PROVE  /\ solToLamports(t) \in Nat
         /\ solToLamports(t) > 0 => solToLamports(t) = typed(t)
<1>1. Decimals \in Nat /\ t.whole \in Seq(Nat) /\ t.fraction \in Seq(Nat)
  <2>1. Decimals \in Nat
    BY PanelAssumption
  <2>2. t.whole \in Seq(0..9) /\ t.fraction \in Seq(0..9)
    BY PanelAssumption
  <2>3. 0..9 \subseteq Nat
    OBVIOUS
  <2>4. QED BY ONLY <2>1, <2>2, <2>3
<1>2. CASE Len(t.fraction) > Decimals \/ t.whole \o t.fraction = <<>>
  BY <1>2 DEF solToLamports
<1>3. CASE ~(Len(t.fraction) > Decimals \/ t.whole \o t.fraction = <<>>)
  <2> DEFINE k == Decimals - Len(t.fraction)
  <2>1. k \in Nat
    BY <1>1, <1>3
  <2>2. digits(padEnd(t.fraction)) = digits(t.fraction) * tens[k]
    BY <1>1, <2>1, DigitsPadded DEF padEnd, Zeros
  <2>3. solToLamports(t) = digits(t.whole) * tens[Decimals] + digits(padEnd(t.fraction))
    BY <1>3 DEF solToLamports
  <2>4. /\ digits(t.whole) \in Nat /\ digits(t.fraction) \in Nat
        /\ tens[Decimals] \in Nat /\ tens[k] \in Nat
    BY <1>1, <2>1, DigitsType, Tens
  <2>5. QED BY <2>2, <2>3, <2>4 DEF typed
<1>4. QED BY <1>2, <1>3

(***************************************************************************)
(* The panel: what moves.                                                  *)
(***************************************************************************)
Transfers == {"deposit", "withdraw"}
Statuses == {"PENDING", "PENDING_REVIEW", "APPROVED", "SUBMITTED", "FAILED", "CONFIRMED", "EXPIRED"}
Row == [kind : Transfers, lamports : Nat, text : Texts, status : Statuses, signature : BOOLEAN,
        tx : {"unsigned", "sent", "ok", "err"}, heard : {"nothing", "open", "done"}]

(* What the rows of S and of a kind add up to. *)
Marked(rows, S, kind) ==
  Total([i \in 1..Len(rows) |-> IF i \in S /\ rows[i].kind = kind THEN rows[i].lamports ELSE 0])

LandedIn(rows) == {i \in 1..Len(rows) : rows[i].tx = "ok"}
BookedIn(rows) == {i \in 1..Len(rows) : rows[i].status = "CONFIRMED"}

(* What the rows hold.                                                     *)
LEMMA RowFacts ==
  ASSUME NEW rows \in Seq(Row)
  PROVE  /\ Len(rows) \in Nat /\ IsFiniteSet(1..Len(rows))
         /\ \A i \in 1..Len(rows) :
              rows[i] \in Row /\ rows[i].kind \in Transfers /\ rows[i].lamports \in Nat
<1>1. 1 \in Int /\ Len(rows) \in Int /\ Len(rows) \in Nat
  OBVIOUS
<1>2. IsFiniteSet(1..Len(rows))
  BY ONLY <1>1, FS_Interval
<1>3. \A i \in 1..Len(rows) : rows[i] \in Row
  OBVIOUS
<1>4. QED BY <1>1, <1>2, <1>3 DEF Row

(* A sum over rows is a natural number,                                    *)
LEMMA MarkedType ==
  ASSUME NEW rows \in Seq(Row), NEW S, NEW kind
  PROVE  Marked(rows, S, kind) \in Nat
<1> DEFINE f == [i \in 1..Len(rows) |-> IF i \in S /\ rows[i].kind = kind THEN rows[i].lamports ELSE 0]
<1>1. f \in [1..Len(rows) -> Nat]
  BY RowFacts
<1>2. IsFiniteSet(1..Len(rows))
  BY RowFacts
<1> HIDE DEF f
<1>3. QED BY <1>1, <1>2, TotalType DEF Marked, f

(* depends on their kinds and amounts alone,                               *)
LEMMA MarkedSame ==
  ASSUME NEW rows \in Seq(Row), NEW next \in Seq(Row), Len(next) = Len(rows), NEW S, NEW kind,
         \A i \in 1..Len(rows) : next[i].kind = rows[i].kind /\ next[i].lamports = rows[i].lamports
  PROVE  Marked(next, S, kind) = Marked(rows, S, kind)
<1>1. [i \in 1..Len(next) |-> IF i \in S /\ next[i].kind = kind THEN next[i].lamports ELSE 0]
      = [i \in 1..Len(rows) |-> IF i \in S /\ rows[i].kind = kind THEN rows[i].lamports ELSE 0]
  OBVIOUS
<1>2. QED BY <1>1 DEF Marked

Share(row, kind) == IF row.kind = kind THEN row.lamports ELSE 0

(* grows by the amount of a row that is counted too,                       *)
LEMMA MarkedMore ==
  ASSUME NEW rows, rows \in Seq(Row), NEW S, NEW j, j \in 1..Len(rows), j \notin S, NEW kind
  PROVE  Marked(rows, S \cup {j}, kind)
           = Marked(rows, S, kind) + Share(rows[j], kind)
<1> DEFINE D == 1..Len(rows)
           f == [i \in 1..Len(rows) |-> IF i \in S /\ rows[i].kind = kind THEN rows[i].lamports ELSE 0]
           g == [i \in 1..Len(rows) |->
                   IF i \in S \cup {j} /\ rows[i].kind = kind THEN rows[i].lamports ELSE 0]
           v == Share(rows[j], kind)
<1>1. f \in [D -> Nat] /\ g \in [D -> Nat] /\ v \in Nat /\ j \in D
  BY RowFacts DEF Share
<1>2. IsFiniteSet(D)
  BY RowFacts
<1>3. g[j] = f[j] + v /\ \A i \in D \ {j} : g[i] = f[i]
  BY <1>1 DEF Share
<1>4. Total(f) = Marked(rows, S, kind) /\ Total(g) = Marked(rows, S \cup {j}, kind)
  BY DEF Marked
<1>5. f[j] = 0 /\ f[j] <= g[j]
  BY <1>1, <1>3
<1> HIDE DEF D, f, g, v
<1>6. Total(g) = Total(f) + (g[j] - f[j])
  BY ONLY <1>1, <1>2, <1>3, <1>5, TotalGrow
<1>7. g[j] - f[j] = v
  BY <1>1, <1>3, <1>5
<1>8. QED BY <1>4, <1>6, <1>7 DEF v

(* and a row that is not counted leaves it.                                *)
LEMMA MarkedAppend ==
  ASSUME NEW rows \in Seq(Row), NEW row \in Row, NEW S \in SUBSET (1..Len(rows)), NEW kind
  PROVE  Marked(Append(rows, row), S, kind) = Marked(rows, S, kind)
<1> DEFINE n == Len(rows)
           next == Append(rows, row)
           f == [i \in 1..Len(rows) |-> IF i \in S /\ rows[i].kind = kind THEN rows[i].lamports ELSE 0]
           g == [i \in 1..Len(next) |-> IF i \in S /\ next[i].kind = kind THEN next[i].lamports ELSE 0]
<1>1. n \in Nat /\ Len(next) = n + 1 /\ next \in Seq(Row) /\ \A i \in 1..n : next[i] = rows[i]
  OBVIOUS
<1>2. f \in [1..n -> Nat] /\ g \in [1..(n + 1) -> Nat]
  BY <1>1, RowFacts
<1>3. g[n + 1] = 0 /\ \A i \in 1..n : g[i] = f[i]
  BY <1>1
<1>4. Total(f) = Marked(rows, S, kind) /\ Total(g) = Marked(next, S, kind)
  BY DEF Marked
<1> HIDE DEF n, next, f, g
<1>5. Total(g) = Total(f) + g[n + 1] /\ Total(f) \in Nat
  BY <1>1, <1>2, <1>3, TotalAppend
<1>6. QED BY <1>3, <1>4, <1>5 DEF next

(* What the program and the books hold, in the rows' lamports.             *)
Books(rows, held, balance) ==
  /\ held + Marked(rows, LandedIn(rows), "withdraw")
       = OpeningLamports + Marked(rows, LandedIn(rows), "deposit")
  /\ balance + Marked(rows, BookedIn(rows), "withdraw")
       = OpeningLamports + Marked(rows, BookedIn(rows), "deposit")

Signed(row) == IF row.kind = "deposit" THEN row.lamports ELSE -row.lamports

(* A row that has neither landed nor been booked keeps the books.          *)
LEMMA BooksAppend ==
  ASSUME NEW rows \in Seq(Row), NEW row \in Row, row.tx # "ok", row.status # "CONFIRMED",
         NEW held, NEW balance, Books(rows, held, balance)
  PROVE  Books(Append(rows, row), held, balance)
<1> DEFINE next == Append(rows, row)
<1>1. LandedIn(next) = LandedIn(rows) /\ BookedIn(next) = BookedIn(rows)
  <2>1. /\ 1..Len(next) = 1..Len(rows) \cup {Len(rows) + 1} /\ next[Len(rows) + 1] = row
        /\ \A i \in 1..Len(rows) : next[i] = rows[i]
    OBVIOUS
  <2> HIDE DEF next
  <2>2. QED BY <2>1 DEF LandedIn, BookedIn
<1>2. LandedIn(rows) \in SUBSET (1..Len(rows)) /\ BookedIn(rows) \in SUBSET (1..Len(rows))
  BY DEF LandedIn, BookedIn
<1>3. QED BY <1>1, <1>2, MarkedAppend DEF Books

(* Arithmetic: the same transfer on both sides.                            *)
LEMMA Balance ==
  ASSUME NEW h \in Int, NEW o \in Nat, NEW a \in Nat, NEW b \in Nat, NEW x \in Nat, NEW y \in Nat,
         h + a = o + b
  PROVE  h + (y - x) + (a + x) = o + (b + y)
OBVIOUS

(* A row changes: what lands or is booked is its amount.                   *)
LEMMA BooksChange ==
  ASSUME NEW rows \in Seq(Row), NEW j \in 1..Len(rows), NEW row \in Row,
         row.kind = rows[j].kind, row.lamports = rows[j].lamports,
         rows[j].tx = "ok" => row.tx = "ok",
         rows[j].status = "CONFIRMED" => row.status = "CONFIRMED",
         NEW held \in Int, NEW balance \in Int, Books(rows, held, balance),
         NEW paid, paid = (IF row.tx = "ok" /\ rows[j].tx # "ok" THEN Signed(row) ELSE 0),
         NEW posted,
         posted = (IF row.status = "CONFIRMED" /\ rows[j].status # "CONFIRMED" THEN Signed(row) ELSE 0)
  PROVE  Books([rows EXCEPT ![j] = row], held + paid, balance + posted)
<1> DEFINE next == [rows EXCEPT ![j] = row]
           given == Share(rows[j], "deposit")
           taken == Share(rows[j], "withdraw")
<1>1. /\ next \in Seq(Row) /\ Len(next) = Len(rows) /\ next[j] = row
      /\ \A i \in 1..Len(rows) : i # j => next[i] = rows[i]
  OBVIOUS
<1>2. \A i \in 1..Len(rows) : next[i].kind = rows[i].kind /\ next[i].lamports = rows[i].lamports
  BY <1>1
<1>3. rows[j].kind \in Transfers /\ rows[j].lamports \in Nat
  BY DEF Row
<1>4. Signed(row) = given - taken
  BY <1>3 DEF Signed, Share, Transfers
<1> HIDE DEF next
<1>5. \A S, kind : Marked(next, S, kind) = Marked(rows, S, kind)
  BY <1>1, <1>2, MarkedSame
<1>6. /\ LandedIn(next) = IF row.tx = "ok" THEN LandedIn(rows) \cup {j} ELSE LandedIn(rows)
      /\ j \in LandedIn(rows) <=> rows[j].tx = "ok"
  BY <1>1 DEF LandedIn
<1>7. /\ BookedIn(next) = IF row.status = "CONFIRMED" THEN BookedIn(rows) \cup {j} ELSE BookedIn(rows)
      /\ j \in BookedIn(rows) <=> rows[j].status = "CONFIRMED"
  BY <1>1 DEF BookedIn
<1>8. /\ \A S, kind : Marked(rows, S, kind) \in Nat
      /\ \A S, kind : j \notin S => Marked(rows, S \cup {j}, kind)
                                       = Marked(rows, S, kind) + Share(rows[j], kind)
  <2>1. \A S, kind : Marked(rows, S, kind) \in Nat
    BY MarkedType
  <2>2. ASSUME NEW S, NEW kind, j \notin S
        PROVE  Marked(rows, S \cup {j}, kind)
                                       = Marked(rows, S, kind) + Share(rows[j], kind)
    BY <2>2, MarkedMore
  <2>3. QED BY <2>1, <2>2
<1>9. given \in Nat /\ taken \in Nat /\ OpeningLamports \in Nat
  BY <1>3, PanelAssumption DEF Share
<1>10. held + paid + Marked(next, LandedIn(next), "withdraw")
        = OpeningLamports + Marked(next, LandedIn(next), "deposit")
  <2> DEFINE out == Marked(rows, LandedIn(rows), "withdraw")
             in == Marked(rows, LandedIn(rows), "deposit")
  <2>1. held + out = OpeningLamports + in /\ out \in Nat /\ in \in Nat
    BY <1>8 DEF Books
  <2>2. CASE row.tx = "ok" /\ rows[j].tx # "ok"
    <3>1. /\ Marked(next, LandedIn(next), "withdraw") = out + taken
          /\ Marked(next, LandedIn(next), "deposit") = in + given
      BY <1>5, <1>6, <1>8, <2>2
    <3>2. paid = given - taken
      BY <1>4, <2>2
    <3> HIDE DEF out, in, given, taken
    <3>3. held + (given - taken) + (out + taken) = OpeningLamports + (in + given)
      BY <1>9, <2>1, Balance
    <3>4. QED BY <3>1, <3>2, <3>3
  <2>3. CASE ~(row.tx = "ok" /\ rows[j].tx # "ok")
    <3>1. LandedIn(next) = LandedIn(rows) /\ paid = 0
      BY <1>6, <2>3
    <3>2. /\ Marked(next, LandedIn(next), "withdraw") = out
          /\ Marked(next, LandedIn(next), "deposit") = in
      BY <1>5, <3>1
    <3> HIDE DEF out, in, given, taken
    <3>3. held + 0 + out = OpeningLamports + in
      BY <2>1
    <3>4. QED BY <3>1, <3>2, <3>3
  <2>4. QED BY <2>2, <2>3
<1>11. balance + posted + Marked(next, BookedIn(next), "withdraw")
        = OpeningLamports + Marked(next, BookedIn(next), "deposit")
  <2> DEFINE out == Marked(rows, BookedIn(rows), "withdraw")
             in == Marked(rows, BookedIn(rows), "deposit")
  <2>1. balance + out = OpeningLamports + in /\ out \in Nat /\ in \in Nat
    BY <1>8 DEF Books
  <2>2. CASE row.status = "CONFIRMED" /\ rows[j].status # "CONFIRMED"
    <3>1. /\ Marked(next, BookedIn(next), "withdraw") = out + taken
          /\ Marked(next, BookedIn(next), "deposit") = in + given
      BY <1>5, <1>7, <1>8, <2>2
    <3>2. posted = given - taken
      BY <1>4, <2>2
    <3> HIDE DEF out, in, given, taken
    <3>3. balance + (given - taken) + (out + taken) = OpeningLamports + (in + given)
      BY SMTT(30), <1>9, <2>1, Balance
    <3>4. QED BY <3>1, <3>2, <3>3
  <2>3. CASE ~(row.status = "CONFIRMED" /\ rows[j].status # "CONFIRMED")
    <3>1. BookedIn(next) = BookedIn(rows) /\ posted = 0
      BY <1>7, <2>3
    <3>2. /\ Marked(next, BookedIn(next), "withdraw") = out
          /\ Marked(next, BookedIn(next), "deposit") = in
      BY <1>5, <3>1
    <3> HIDE DEF out, in, given, taken
    <3>3. balance + 0 + out = OpeningLamports + in
      BY <2>1
    <3>4. QED BY <3>1, <3>2, <3>3
  <2>4. QED BY <2>2, <2>3
<1>12. QED BY <1>10, <1>11 DEF Books, next

(***************************************************************************)
(* The panel: the inductive invariant.                                     *)
(***************************************************************************)
Flow == [step : {"idle", "creating-intent", "awaiting-signature", "sending"}, shown : BOOLEAN,
         kind : Transfers, lamports : Nat, text : Texts \cup {NoFlow.text}, id : Nat]

(* What a flow knows at each of its awaits.                                *)
FlowOK(fl, rows) ==
  /\ fl.step \in {"idle", "creating-intent"} => fl.id = 0
  /\ fl.step = "creating-intent" => fl.text \in Texts /\ fl.lamports = typed(fl.text)
  /\ fl.step \in {"awaiting-signature", "sending"} => fl.id \in 1..Len(rows)
  /\ fl.step = "awaiting-signature" => rows[fl.id].tx = "unsigned"
  /\ fl.step \in {"awaiting-signature", "sending"} => fl.shown \/ rows[fl.id].heard # "nothing"

(* What holds of a row whoever follows it. *)
RowOK(row) ==
  /\ row.lamports = typed(row.text)
  /\ row.status = "CONFIRMED" => row.tx = "ok"
  /\ row.heard = "done" => row.status = "CONFIRMED"

Follows(fl, i) == fl.id = i /\ fl.shown

PanelTypes == /\ flow \in [Flows -> Flow] /\ intents \in Seq(Row)
              /\ custody \in [balance : Int, reserved : Int] /\ vault \in Int

FlowsInv == /\ \A f \in Flows : FlowOK(flow[f], intents)
            /\ \A f, g \in Flows : f # g /\ flow[f].id # 0 => flow[f].id # flow[g].id

RowsInv == \A i \in 1..Len(intents) :
  /\ RowOK(intents[i])
  /\ intents[i].heard = "nothing" =>
       intents[i].tx = "unsigned" \/ \E f \in Flows : Follows(flow[f], i)

(* The flows and the rows fit each other, and the books their amounts.     *)
WalletInv == PanelTypes /\ FlowsInv /\ RowsInv /\ Books(intents, vault, custody.balance)

(* What a confirmation may make of a row, given what the account holds.    *)
Outcome(row, held, c) ==
  /\ c.row \in Row /\ c.custody \in [balance : Int, reserved : Int]
  /\ c.row.kind = row.kind /\ c.row.lamports = row.lamports /\ c.row.text = row.text
  /\ c.row.tx = row.tx /\ c.row.heard = row.heard
  /\ row.status = "CONFIRMED" => c.row.status = "CONFIRMED"
  /\ c.row.status = "CONFIRMED" => row.tx = "ok"
  /\ c.custody.balance = held.balance
       + (IF c.row.status = "CONFIRMED" /\ row.status # "CONFIRMED" THEN Signed(row) ELSE 0)
  /\ c.answer = "confirmed" => c.row.status = "CONFIRMED"

(* releaseReservation leaves the balance alone.                            *)
LEMMA Released ==
  ASSUME custody \in [balance : Int, reserved : Int], NEW row \in Row
  PROVE  /\ releasedBy(row) \in [balance : Int, reserved : Int]
         /\ releasedBy(row).balance = custody.balance
BY DEF releasedBy, Row

(* What POST .../confirm may answer, and do.                               *)
LEMMA Confirmations ==
  ASSUME custody \in [balance : Int, reserved : Int], NEW row \in Row, RowOK(row),
         NEW c \in confirmations(row)
  PROVE  Outcome(row, custody, c)
<1>0. /\ row.kind \in Transfers /\ row.lamports \in Nat /\ custody.balance \in Int
      /\ custody.balance + 0 = custody.balance
  BY DEF Row
<1>1. CASE row.status = "CONFIRMED"
  BY <1>0, <1>1 DEF confirmations, Outcome, RowOK
<1>2. CASE row.status \notin {"CONFIRMED", "PENDING", "APPROVED", "SUBMITTED"}
  BY <1>0, <1>2 DEF confirmations, throws, Outcome, RowOK
<1>3. CASE row.status \in {"PENDING", "APPROVED", "SUBMITTED"}
  <2>1. CASE c = notVisible(row)
    BY <1>0, <1>3, <2>1 DEF notVisible, Outcome, RowOK, Row, Statuses
  <2>2. CASE row.tx = "err" /\ c = refuted(row)
    <3>1. c.row = [row EXCEPT !.status = "FAILED"] /\ c.answer = "failed"
      BY <2>2 DEF refuted
    <3>2. c.custody \in [balance : Int, reserved : Int] /\ c.custody.balance = custody.balance
      BY <2>2, Released DEF refuted
    <3>3. c.row \in Row /\ c.row.status = "FAILED"
      BY <3>1 DEF Row, Statuses
    <3>4. QED BY <1>0, <1>3, <3>1, <3>2, <3>3 DEF Outcome, Row
  <2>3. CASE c = throws(row)
    BY <1>0, <1>3, <2>3 DEF throws, Outcome, RowOK
  <2>4. CASE row.tx = "ok" /\ c = posts(row)
    <3>1. c.row = [row EXCEPT !.status = "CONFIRMED", !.signature = TRUE] /\ c.answer = "confirmed"
      BY <2>4 DEF posts
    <3>2. /\ c.custody \in [balance : Int, reserved : Int]
          /\ c.custody.balance = custody.balance + Signed(row)
      <4>1. CASE row.kind = "deposit"
        BY <1>0, <2>4, <4>1 DEF posts, Signed
      <4>2. CASE row.kind # "deposit"
        <5>1. c.custody = [releasedBy(row) EXCEPT !.balance = @ - row.lamports]
          BY <2>4, <4>2 DEF posts
        <5> DEFINE left == releasedBy(row)
        <5>2. left \in [balance : Int, reserved : Int] /\ left.balance = custody.balance
          BY Released
        <5> HIDE DEF left
        <5>3. c.custody = [left EXCEPT !.balance = @ - row.lamports]
          BY <5>1 DEF left
        <5>4. /\ c.custody \in [balance : Int, reserved : Int]
              /\ c.custody.balance = custody.balance - row.lamports
          BY <1>0, <5>2, <5>3
        <5>5. QED BY <1>0, <4>2, <5>4 DEF Signed
      <4>3. QED BY <4>1, <4>2
    <3>3. c.row \in Row /\ c.row.status = "CONFIRMED"
      BY <3>1 DEF Row, Statuses
    <3>4. QED BY <1>0, <1>3, <2>4, <3>1, <3>2, <3>3 DEF Outcome, Row
  <2>5. QED BY <1>3, <2>1, <2>2, <2>3, <2>4 DEF confirmations, verified
<1>4. QED BY <1>1, <1>2, <1>3 DEF Row, Statuses

(* A flow that has settled.                                                *)
LEMMA NoFlowType == NoFlow \in Flow /\ NoFlow.id = 0 /\ NoFlow.step = "idle" /\ ~NoFlow.shown
BY DEF NoFlow, Flow, Transfers

(* A row that changes while the flows stand still.                         *)
LEMMA RowChanges ==
  ASSUME WalletInv, NEW j \in 1..Len(intents), NEW row \in Row,
         intents' = [intents EXCEPT ![j] = row], flow' = flow, RowOK(row),
         row.kind = intents[j].kind, row.lamports = intents[j].lamports,
         intents[j].tx = "ok" => row.tx = "ok",
         row.tx # intents[j].tx => intents[j].tx = "sent",
         intents[j].status = "CONFIRMED" => row.status = "CONFIRMED",
         row.heard = intents[j].heard,
         custody' \in [balance : Int, reserved : Int], vault' \in Int,
         vault' = vault + (IF row.tx = "ok" /\ intents[j].tx # "ok" THEN Signed(row) ELSE 0),
         custody'.balance = custody.balance
           + (IF row.status = "CONFIRMED" /\ intents[j].status # "CONFIRMED" THEN Signed(row) ELSE 0)
  PROVE  WalletInv'
<1>1. PanelTypes /\ FlowsInv /\ RowsInv /\ Books(intents, vault, custody.balance)
  BY DEF WalletInv
<1>2. /\ intents \in Seq(Row) /\ intents' \in Seq(Row) /\ Len(intents') = Len(intents)
      /\ intents'[j] = row /\ \A i \in 1..Len(intents) : i # j => intents'[i] = intents[i]
  BY <1>1 DEF PanelTypes
<1>3. PanelTypes'
  BY <1>1, <1>2 DEF PanelTypes
<1>4. FlowsInv'
  <2>1. ASSUME NEW f \in Flows PROVE FlowOK(flow[f], intents')
    <3>1. FlowOK(flow[f], intents)
      BY <1>1 DEF FlowsInv
    <3>2. QED BY <1>2, <3>1 DEF FlowOK
  <2>2. QED BY <1>1, <2>1 DEF FlowsInv
<1>5. RowsInv'
  <2>1. ASSUME NEW i \in 1..Len(intents)
        PROVE  /\ RowOK(intents'[i])
               /\ intents'[i].heard = "nothing" =>
                    intents'[i].tx = "unsigned" \/ \E f \in Flows : Follows(flow[f], i)
    <3>1. /\ RowOK(intents[i])
          /\ intents[i].heard = "nothing" =>
               intents[i].tx = "unsigned" \/ \E f \in Flows : Follows(flow[f], i)
      BY <1>1 DEF RowsInv
    <3>2. QED BY <1>2, <3>1
  <2>2. QED BY <1>2, <2>1 DEF RowsInv
<1>6. Books(intents', vault', custody'.balance)
  <2>1. vault \in Int /\ custody.balance \in Int
    BY <1>1 DEF PanelTypes
  <2> DEFINE paid == IF row.tx = "ok" /\ intents[j].tx # "ok" THEN Signed(row) ELSE 0
             posted == IF row.status = "CONFIRMED" /\ intents[j].status # "CONFIRMED"
                       THEN Signed(row) ELSE 0
  <2>2. Books([intents EXCEPT ![j] = row], vault + paid, custody.balance + posted)
    BY <1>1, <1>2, <2>1, BooksChange
  <2>3. QED BY <2>2
<1>7. QED BY <1>3, <1>4, <1>5, <1>6 DEF WalletInv

(* The chain and the reconciler keep the invariant.                        *)
LEMMA LedgerSteps ==
  ASSUME WalletInv, NEW i \in 1..Len(intents), landTransfer(i) \/ reconcileRow(i) \/ expireRow(i)
  PROVE  WalletInv'
<1>1. /\ PanelTypes /\ RowsInv /\ intents \in Seq(Row) /\ vault \in Int
      /\ custody \in [balance : Int, reserved : Int]
  BY DEF WalletInv, PanelTypes
<1>2. PICK r \in Row : r = intents[i]
  BY <1>1
<1>3. RowOK(r) /\ r.kind \in Transfers /\ r.lamports \in Nat /\ custody.balance \in Int
  BY <1>1, <1>2 DEF RowsInv, Row
<1>4. vault + 0 = vault /\ custody.balance + 0 = custody.balance
  BY <1>1, <1>3
<1>5. CASE landTransfer(i)
  <2>1. PICK tx \in {"ok", "err"} :
          /\ intents' = [intents EXCEPT ![i].tx = tx]
          /\ vault' = IF tx = "err" THEN vault
                      ELSE IF r.kind = "deposit" THEN vault + r.lamports ELSE vault - r.lamports
    BY <1>2, <1>5 DEF landTransfer
  <2> DEFINE row == [r EXCEPT !.tx = tx]
  <2>2. /\ row \in Row /\ row.tx = tx /\ row.kind = r.kind /\ row.lamports = r.lamports
        /\ row.text = r.text /\ row.status = r.status /\ row.heard = r.heard
    BY DEF Row
  <2>3. intents' = [intents EXCEPT ![i] = row] /\ r.tx = "sent" /\ flow' = flow /\ custody' = custody
    BY <1>2, <1>5, <2>1 DEF landTransfer
  <2> HIDE DEF row
  <2>4. RowOK(row)
    BY <1>3, <2>2, <2>3 DEF RowOK
  <2>5. vault' = vault + (IF row.tx = "ok" /\ r.tx # "ok" THEN Signed(row) ELSE 0) /\ vault' \in Int
    BY <1>1, <1>3, <1>4, <2>1, <2>2, <2>3 DEF Signed
  <2>6. QED BY <1>1, <1>2, <1>4, <2>2, <2>3, <2>4, <2>5, RowChanges
<1>6. CASE reconcileRow(i)
  <2>1. PICK c \in confirmations(r) :
          intents' = [intents EXCEPT ![i] = c.row] /\ custody' = c.custody
    BY <1>2, <1>6 DEF reconcileRow
  <2>2. flow' = flow /\ vault' = vault
    BY <1>6 DEF reconcileRow
  <2>3. Outcome(r, custody, c)
    BY <1>1, <1>3, Confirmations
  <2>4. /\ RowOK(c.row) /\ Signed(c.row) = Signed(r)
    BY <1>3, <2>3 DEF Outcome, RowOK, Signed
  <2>5. QED BY <1>1, <1>2, <1>4, <2>1, <2>2, <2>3, <2>4, RowChanges DEF Outcome
<1>7. CASE expireRow(i)
  <2>1. PICK row \in Row :
          /\ row = [r EXCEPT !.status = IF r.kind = "deposit" THEN "EXPIRED" ELSE "FAILED"]
          /\ row.status # "CONFIRMED"
    <3>1. [r EXCEPT !.status = IF r.kind = "deposit" THEN "EXPIRED" ELSE "FAILED"] \in Row
      BY DEF Row, Statuses
    <3>2. QED BY <3>1 DEF Row
  <2>2. intents' = [intents EXCEPT ![i] = row]
    BY <1>2, <1>7, <2>1 DEF expireRow, refuted
  <2>3. /\ r.status # "CONFIRMED" /\ flow' = flow /\ vault' = vault
        /\ custody' = IF r.kind = "deposit" THEN custody ELSE releasedBy(r)
    BY <1>2, <1>7 DEF expireRow, refuted
  <2>4. custody' \in [balance : Int, reserved : Int] /\ custody'.balance = custody.balance
    BY <1>1, <2>3, Released
  <2>5. /\ row.kind = r.kind /\ row.lamports = r.lamports /\ row.text = r.text /\ row.tx = r.tx
        /\ row.heard = r.heard
    BY <2>1 DEF Row
  <2>6. RowOK(row)
    BY <1>3, <2>1, <2>3, <2>5 DEF RowOK
  <2>7. QED BY ZenonT(30), <1>1, <1>2, <1>4, <2>1, <2>2, <2>3, <2>4, <2>5, <2>6, RowChanges
<1>8. QED BY <1>5, <1>6, <1>7

(* A flow's step on the row it opened.                                     *)
LEMMA OwnRow ==
  ASSUME WalletInv, NEW f \in Flows, NEW j, j = flow[f].id, j # 0, NEW row \in Row, NEW fl \in Flow,
         intents' = [intents EXCEPT ![j] = row], flow' = [flow EXCEPT ![f] = fl],
         fl.id \in {0, j}, FlowOK(fl, intents'), RowOK(row),
         row.kind = intents[j].kind, row.lamports = intents[j].lamports,
         row.tx = "ok" <=> intents[j].tx = "ok",
         intents[j].status = "CONFIRMED" => row.status = "CONFIRMED",
         row.heard = "nothing" => row.tx = "unsigned" \/ Follows(fl, j),
         custody' \in [balance : Int, reserved : Int], vault' = vault,
         custody'.balance = custody.balance
           + (IF row.status = "CONFIRMED" /\ intents[j].status # "CONFIRMED" THEN Signed(row) ELSE 0)
  PROVE  WalletInv'
<1>1. PanelTypes /\ FlowsInv /\ RowsInv /\ Books(intents, vault, custody.balance)
  BY DEF WalletInv
<1>2. flow \in [Flows -> Flow] /\ intents \in Seq(Row) /\ vault \in Int /\ custody.balance \in Int
  BY <1>1 DEF PanelTypes
<1>3. j \in 1..Len(intents)
  <2>1. FlowOK(flow[f], intents) /\ flow[f] \in Flow
    BY <1>1, <1>2 DEF FlowsInv
  <2>2. QED BY <2>1 DEF FlowOK, Flow
<1>4. /\ intents' \in Seq(Row) /\ Len(intents') = Len(intents)
      /\ intents'[j] = row /\ \A i \in 1..Len(intents) : i # j => intents'[i] = intents[i]
  BY <1>2, <1>3
<1>5. flow' \in [Flows -> Flow] /\ flow'[f] = fl /\ \A g \in Flows : g # f => flow'[g] = flow[g]
  BY <1>2
<1>6. PanelTypes'
  BY <1>2, <1>4, <1>5 DEF PanelTypes
<1>7. FlowsInv'
  <2>1. ASSUME NEW g \in Flows, g # f PROVE FlowOK(flow[g], intents')
    <3>1. FlowOK(flow[g], intents) /\ flow[g].id # j
      BY <1>1, <2>1 DEF FlowsInv
    <3>2. QED BY <1>4, <3>1 DEF FlowOK
  <2>2. \A g \in Flows : FlowOK(flow'[g], intents')
    BY <1>5, <2>1
  <2>3. \A g, h \in Flows : g # h /\ flow'[g].id # 0 => flow'[g].id # flow'[h].id
    BY <1>1, <1>5 DEF FlowsInv
  <2>4. QED BY <2>2, <2>3 DEF FlowsInv
<1>8. RowsInv'
  <2>1. ASSUME NEW i \in 1..Len(intents)
        PROVE  /\ RowOK(intents'[i])
               /\ intents'[i].heard = "nothing" =>
                    intents'[i].tx = "unsigned" \/ \E g \in Flows : Follows(flow'[g], i)
    <3>1. CASE i = j
      BY <1>4, <1>5, <3>1
    <3>2. CASE i # j
      <4>1. /\ RowOK(intents[i])
            /\ intents[i].heard = "nothing" =>
                 intents[i].tx = "unsigned" \/ \E g \in Flows : Follows(flow[g], i)
        BY <1>1 DEF RowsInv
      <4>2. \A g \in Flows : Follows(flow[g], i) => Follows(flow'[g], i)
        BY <1>5, <3>2 DEF Follows
      <4>3. QED BY <1>4, <3>2, <4>1, <4>2
    <3>3. QED BY <3>1, <3>2
  <2>2. QED BY <1>4, <2>1 DEF RowsInv
<1>9. Books(intents', vault', custody'.balance)
  <2> DEFINE posted == IF row.status = "CONFIRMED" /\ intents[j].status # "CONFIRMED"
                       THEN Signed(row) ELSE 0
  <2>1. 0 = IF row.tx = "ok" /\ intents[j].tx # "ok" THEN Signed(row) ELSE 0
    OBVIOUS
  <2> HIDE DEF posted
  <2>2. Books([intents EXCEPT ![j] = row], vault + 0, custody.balance + posted)
    BY <1>1, <1>2, <1>3, <2>1, BooksChange DEF posted
  <2>3. vault + 0 = vault
    BY <1>2
  <2>4. QED BY <2>2, <2>3 DEF posted
<1>10. QED BY <1>6, <1>7, <1>8, <1>9 DEF WalletInv

(* The intent of a flow gets its row.                                      *)
LEMMA OpenSteps ==
  ASSUME WalletInv, NEW f \in Flows, intentAnswered(f) \/ intentAnswerLost(f)
  PROVE  WalletInv'
<1> DEFINE fl == flow[f]
           n == Len(intents) + 1
<1>1. PanelTypes /\ FlowsInv /\ RowsInv /\ Books(intents, vault, custody.balance)
  BY DEF WalletInv
<1>2. /\ flow \in [Flows -> Flow] /\ intents \in Seq(Row) /\ vault \in Int
      /\ custody \in [balance : Int, reserved : Int] /\ custody.balance \in Int
  BY <1>1 DEF PanelTypes
<1>3. fl.step = "creating-intent" /\ openRow(f) /\ vault' = vault
  BY DEF intentAnswered, intentAnswerLost
<1>4. /\ fl.text \in Texts /\ fl.lamports = typed(fl.text) /\ fl.id = 0
      /\ fl.kind \in Transfers /\ fl.lamports \in Nat /\ fl.shown \in BOOLEAN
  BY <1>1, <1>2, <1>3 DEF FlowsInv, FlowOK, Flow
<1>5. PICK row \in Row : /\ intents' = Append(intents, row) /\ RowOK(row) /\ row.tx = "unsigned"
                         /\ row.status # "CONFIRMED" /\ (~fl.shown => row.heard # "nothing")
  <2>1. PICK status \in {"PENDING", "PENDING_REVIEW", "APPROVED"} : openedRow(f) = NewRow(f, status)
    BY DEF openedRow
  <2> DEFINE row == NewRow(f, status)
  <2>2. /\ row \in Row /\ row.tx = "unsigned" /\ row.status = status /\ row.lamports = fl.lamports
        /\ row.text = fl.text /\ row.heard = IF fl.shown THEN "nothing" ELSE "open"
    BY <1>4 DEF NewRow, Row, Statuses
  <2>3. intents' = Append(intents, row)
    BY <1>3, <2>1 DEF openRow
  <2> HIDE DEF row
  <2>4. RowOK(row)
    BY <1>4, <2>1, <2>2 DEF RowOK
  <2>5. QED BY <1>4, <2>1, <2>2, <2>3, <2>4
<1>6. custody' \in [balance : Int, reserved : Int] /\ custody'.balance = custody.balance
  BY <1>2, <1>3, <1>4 DEF openRow
<1>7. PICK next \in Flow :
        /\ flow' = [flow EXCEPT ![f] = next]
        /\ \/ next.step = "idle" /\ next.id = 0
           \/ next.step = "awaiting-signature" /\ next.id = n /\ next.shown = fl.shown
  <2>1. CASE settles(f)
    BY <2>1, NoFlowType DEF settles
  <2>2. CASE flow' = [flow EXCEPT ![f].step = "awaiting-signature", ![f].id = Len(intents) + 1]
    <3> DEFINE next == [fl EXCEPT !.step = "awaiting-signature", !.id = n]
    <3>1. fl \in Flow /\ n \in Nat
      BY <1>2
    <3> HIDE DEF fl, n
    <3>2. next \in Flow /\ next.step = "awaiting-signature" /\ next.id = n /\ next.shown = fl.shown
      BY <3>1 DEF Flow
    <3>3. flow' = [flow EXCEPT ![f] = next]
      BY <1>2, <2>2 DEF fl, n
    <3>4. QED BY <3>2, <3>3
  <2>3. QED BY <2>1, <2>2 DEF intentAnswered, intentAnswerLost
<1> HIDE DEF fl, n
<1>8. flow' \in [Flows -> Flow] /\ flow'[f] = next /\ \A g \in Flows : g # f => flow'[g] = flow[g]
  BY <1>2, <1>7
<1>9. /\ intents' \in Seq(Row) /\ Len(intents') = n /\ n \in Nat /\ n > 0 /\ n = Len(intents) + 1
      /\ intents'[n] = row /\ \A i \in 1..Len(intents) : intents'[i] = intents[i]
  BY <1>2, <1>5 DEF n
<1>10. PanelTypes'
  BY <1>2, <1>3, <1>6, <1>8, <1>9 DEF PanelTypes
<1>11. FlowsInv'
  <2>1. ASSUME NEW g \in Flows, g # f PROVE FlowOK(flow[g], intents')
    <3>1. FlowOK(flow[g], intents)
      BY <1>1 DEF FlowsInv
    <3>2. QED BY <1>2, <1>9, <3>1 DEF FlowOK
  <2>2. FlowOK(next, intents')
    BY <1>5, <1>7, <1>9 DEF FlowOK
  <2>3. \A g \in Flows : FlowOK(flow'[g], intents')
    BY <1>8, <2>1, <2>2
  <2>4. ASSUME NEW g \in Flows PROVE flow[g].id # n
    <3>1. FlowOK(flow[g], intents) /\ flow[g] \in Flow
      BY <1>1, <1>2 DEF FlowsInv
    <3>2. QED BY <1>2, <1>9, <3>1 DEF FlowOK, Flow
  <2>5. \A g, h \in Flows : g # h /\ flow'[g].id # 0 => flow'[g].id # flow'[h].id
    BY <1>1, <1>7, <1>8, <2>4 DEF FlowsInv
  <2>6. QED BY <2>3, <2>5 DEF FlowsInv
<1>12. RowsInv'
  <2>1. ASSUME NEW i \in 1..n
        PROVE  /\ RowOK(intents'[i])
               /\ intents'[i].heard = "nothing" =>
                    intents'[i].tx = "unsigned" \/ \E g \in Flows : Follows(flow'[g], i)
    <3>1. CASE i = n
      BY <1>5, <1>9, <3>1
    <3>2. CASE i \in 1..Len(intents)
      <4>1. /\ RowOK(intents[i])
            /\ intents[i].heard = "nothing" =>
                 intents[i].tx = "unsigned" \/ \E g \in Flows : Follows(flow[g], i)
        BY <1>1, <3>2 DEF RowsInv
      <4>2. \A g \in Flows : Follows(flow[g], i) => Follows(flow'[g], i)
        BY <1>4, <1>8, <3>2 DEF Follows, fl
      <4>3. QED BY <1>9, <3>2, <4>1, <4>2
    <3>3. i = n \/ i \in 1..Len(intents)
      BY <1>2, <1>9
    <3>4. QED BY <3>1, <3>2, <3>3
  <2>2. QED BY <1>9, <2>1 DEF RowsInv
<1>13. Books(intents', vault', custody'.balance)
  BY <1>1, <1>2, <1>3, <1>5, <1>6, BooksAppend
<1>14. QED BY <1>10, <1>11, <1>12, <1>13 DEF WalletInv

(* submit keeps it.                                                        *)
LEMMA SubmitStep ==
  ASSUME WalletInv, NEW f \in Flows, NEW kind \in Transfers, NEW t \in Texts, submit(f, kind, t)
  PROVE  WalletInv'
<1>1. /\ flow \in [Flows -> Flow] /\ flow[f].step = "idle" /\ FlowOK(flow[f], intents)
      /\ PanelTypes /\ FlowsInv /\ RowsInv
  BY DEF WalletInv, PanelTypes, FlowsInv, submit
<1>2. PICK next \in Flow : /\ flow' = [flow EXCEPT ![f] = next] /\ next.step = "creating-intent"
                           /\ next.id = 0 /\ next.text \in Texts /\ next.lamports = typed(next.text)
  <2>1. solToLamports(t) \in Nat /\ solToLamports(t) = typed(t)
    BY TextWorth DEF submit
  <2> DEFINE next == [step |-> "creating-intent", shown |-> TRUE, kind |-> kind,
                      lamports |-> solToLamports(t), text |-> t, id |-> 0]
  <2>2. next \in Flow
    BY <2>1 DEF Flow
  <2>3. QED BY <2>1, <2>2 DEF submit
<1>3. UNCHANGED <<intents, custody, vault>>
  BY DEF submit
<1>4. flow' \in [Flows -> Flow] /\ flow'[f] = next /\ \A g \in Flows : g # f => flow'[g] = flow[g]
  BY <1>1, <1>2
<1>5. PanelTypes'
  BY <1>1, <1>3, <1>4 DEF PanelTypes
<1>6. FlowsInv'
  <2>1. FlowOK(next, intents)
    BY <1>2 DEF FlowOK
  <2>2. \A g \in Flows : FlowOK(flow'[g], intents')
    BY <1>1, <1>3, <1>4, <2>1 DEF FlowsInv
  <2>3. \A g, h \in Flows : g # h /\ flow'[g].id # 0 => flow'[g].id # flow'[h].id
    BY <1>1, <1>2, <1>4 DEF FlowsInv
  <2>4. QED BY <2>2, <2>3 DEF FlowsInv
<1>7. RowsInv'
  <2>1. ASSUME NEW i \in 1..Len(intents), NEW g \in Flows, Follows(flow[g], i) PROVE Follows(flow'[g], i)
    <3>1. flow[f].id = 0 /\ i # 0
      BY <1>1 DEF FlowOK
    <3>2. QED BY <1>4, <2>1, <3>1 DEF Follows
  <2>2. \A i \in 1..Len(intents) :
          /\ RowOK(intents[i])
          /\ intents[i].heard = "nothing" =>
               intents[i].tx = "unsigned" \/ \E g \in Flows : Follows(flow'[g], i)
    BY <1>1, <2>1 DEF RowsInv
  <2>3. QED BY <1>3, <2>2 DEF RowsInv
<1>8. QED BY <1>3, <1>5, <1>6, <1>7 DEF WalletInv

(* So do the later steps of a flow.                                        *)
LEMMA OwnSteps ==
  ASSUME WalletInv, NEW f \in Flows, signTransfer(f) \/ confirmAnswered(f) \/ flowThrows(f)
  PROVE  WalletInv'
<1> DEFINE fl == flow[f]
           j == fl.id
<1>1. /\ fl \in Flow /\ FlowOK(fl, intents) /\ intents \in Seq(Row) /\ RowsInv
      /\ custody \in [balance : Int, reserved : Int] /\ flow \in [Flows -> Flow]
  BY DEF WalletInv, PanelTypes, FlowsInv
<1>0. custody.balance \in Int /\ custody.balance + 0 = custody.balance
  BY <1>1
<1>2. ASSUME fl.step \in {"awaiting-signature", "sending"}
      PROVE  /\ j \in 1..Len(intents) /\ j # 0 /\ intents[j] \in Row /\ RowOK(intents[j])
             /\ fl.shown \/ intents[j].heard # "nothing"
  BY <1>1, <1>2 DEF FlowOK, RowsInv
<1>3. CASE signTransfer(f)
  <2>1. /\ fl.step = "awaiting-signature" /\ custody' = custody /\ vault' = vault
        /\ intents[j].tx = "unsigned"
    BY <1>1, <1>3 DEF signTransfer, FlowOK
  <2>2. PICK r \in Row : r = intents[j] /\ RowOK(r) /\ r.tx = "unsigned"
    BY <1>2, <2>1
  <2>3. PICK row \in Row : row = [r EXCEPT !.tx = "sent"]
    BY DEF Row
  <2>4. /\ row.kind = r.kind /\ row.lamports = r.lamports /\ row.text = r.text
        /\ row.status = r.status /\ row.heard = r.heard /\ row.tx = "sent"
    BY <2>3 DEF Row
  <2>5. PICK next \in Flow : /\ next = [fl EXCEPT !.step = "sending"]
                             /\ next.step = "sending" /\ next.id = j /\ next.shown = fl.shown
    <3>1. [fl EXCEPT !.step = "sending"] \in Flow
      BY <1>1 DEF Flow
    <3>2. QED BY <1>1, <3>1 DEF Flow
  <2>6. flow' = [flow EXCEPT ![f] = next] /\ intents' = [intents EXCEPT ![j] = row]
    BY <1>3, <2>2, <2>3, <2>5 DEF signTransfer
  <2>7. RowOK(row)
    BY <2>2, <2>4 DEF RowOK
  <2>8. intents'[j] = row /\ Len(intents') = Len(intents)
    BY <1>1, <1>2, <2>1, <2>6
  <2>9. FlowOK(next, intents')
    BY <1>2, <2>1, <2>2, <2>4, <2>5, <2>8 DEF FlowOK
  <2>10. row.heard = "nothing" => Follows(next, j)
    BY <1>2, <2>1, <2>2, <2>4, <2>5 DEF Follows
  <2>11. j = flow[f].id /\ j # 0 /\ next.id \in {0, j} /\ row.status = r.status
    BY <1>2, <2>1, <2>4, <2>5
  <2> HIDE DEF fl, j
  <2>12. QED BY <1>0, <1>1, <2>1, <2>2, <2>4, <2>6, <2>7, <2>9, <2>10, <2>11, OwnRow
<1>4. CASE confirmAnswered(f)
  <2>1. fl.step = "sending" /\ vault' = vault /\ flow' = [flow EXCEPT ![f] = NoFlow]
    BY <1>4 DEF confirmAnswered, settles
  <2>2. PICK r \in Row : r = intents[j] /\ RowOK(r)
    BY <1>2, <2>1
  <2>13. PICK c \in confirmations(r) : \E status \in {"throws", c.answer} :
           intents' = [intents EXCEPT ![j] = hears(f, c.row, status)] /\ custody' = c.custody
    BY <1>4, <2>2 DEF confirmAnswered
  <2>3. PICK status \in {"throws", c.answer} :
          intents' = [intents EXCEPT ![j] = hears(f, c.row, status)] /\ custody' = c.custody
    BY <2>13
  <2>4. Outcome(r, custody, c)
    BY <1>1, <2>2, Confirmations
  <2>5. PICK row \in Row :
          /\ row = hears(f, c.row, status)
          /\ row.kind = c.row.kind /\ row.lamports = c.row.lamports /\ row.text = c.row.text
          /\ row.tx = c.row.tx /\ row.status = c.row.status
          /\ row.heard = "done" => c.row.heard = "done" \/ c.answer = "confirmed"
          /\ row.heard = "nothing" => ~fl.shown /\ c.row.heard = "nothing"
    <3>1. CASE ~fl.shown
      BY <2>4, <3>1 DEF hears, Outcome
    <3>2. CASE fl.shown
      <4>1. PICK heard \in {"done", "open"} : /\ hears(f, c.row, status) = [c.row EXCEPT !.heard = heard]
                                              /\ heard = "done" => c.answer = "confirmed"
        BY <2>3, <3>2 DEF hears, succeeded
      <4>2. c.row \in Row
        BY <2>4 DEF Outcome
      <4>3. [c.row EXCEPT !.heard = heard] \in Row
        BY <4>2 DEF Row
      <4>4. QED BY <4>1, <4>2, <4>3 DEF Row
    <3>3. QED BY <3>1, <3>2
  <2>6. RowOK(row) /\ Signed(row) = Signed(r)
    BY <2>2, <2>4, <2>5 DEF Outcome, RowOK, Signed
  <2>7. row.heard # "nothing"
    BY <1>2, <2>1, <2>2, <2>4, <2>5 DEF Outcome
  <2>8. FlowOK(NoFlow, intents')
    BY NoFlowType DEF FlowOK
  <2>9. /\ j = flow[f].id /\ j # 0 /\ NoFlow.id \in {0, j} /\ NoFlow \in Flow
    BY <1>2, <2>1, NoFlowType
  <2> HIDE DEF fl, j
  <2>10. /\ row.kind = r.kind /\ row.lamports = r.lamports /\ row.tx = r.tx
         /\ r.status = "CONFIRMED" => row.status = "CONFIRMED"
         /\ custody' \in [balance : Int, reserved : Int]
         /\ custody'.balance = custody.balance
              + (IF row.status = "CONFIRMED" /\ r.status # "CONFIRMED" THEN Signed(row) ELSE 0)
    BY <2>3, <2>4, <2>5, <2>6 DEF Outcome
  <2>11. intents' = [intents EXCEPT ![j] = row]
    BY <2>3, <2>5
  <2>12. QED BY <2>1, <2>2, <2>6, <2>7, <2>8, <2>9, <2>10, <2>11, OwnRow
<1>5. CASE flowThrows(f)
  <2>1. /\ flow' = [flow EXCEPT ![f] = NoFlow] /\ custody' = custody /\ vault' = vault
        /\ fl.step # "idle"
    BY <1>5 DEF flowThrows, settles
  <2>2. CASE j # 0
    <3>1. fl.step \in {"awaiting-signature", "sending"}
      BY <1>1, <2>1, <2>2 DEF FlowOK, Flow
    <3>2. PICK r \in Row : r = intents[j] /\ RowOK(r)
      BY <1>2, <3>1
    <3>3. PICK row \in Row : /\ row = hears(f, r, "throws") /\ (row.heard = "open" \/ row.heard = r.heard)
                             /\ row.kind = r.kind /\ row.lamports = r.lamports /\ row.text = r.text
                             /\ row.tx = r.tx /\ row.status = r.status
      <4>1. CASE fl.shown
        <5>1. [r EXCEPT !.heard = "open"] \in Row
          BY DEF Row
        <5>2. hears(f, r, "throws") = [r EXCEPT !.heard = "open"]
          BY <4>1 DEF hears, succeeded
        <5>3. QED BY <5>1, <5>2 DEF Row
      <4>2. CASE ~fl.shown
        BY <1>2, <3>1, <3>2, <4>2 DEF hears
      <4>3. QED BY <4>1, <4>2
    <3>4. RowOK(row)
      BY <3>2, <3>3 DEF RowOK
    <3>5. row.heard # "nothing"
      <4>1. fl.shown => row = [r EXCEPT !.heard = "open"]
        BY <3>3 DEF hears, succeeded
      <4>2. ~fl.shown => row = r
        BY <3>3 DEF hears
      <4>3. QED BY <1>2, <3>1, <3>2, <4>1, <4>2 DEF Row
    <3>6. intents' = [intents EXCEPT ![j] = row]
      BY <1>5, <2>2, <3>2, <3>3 DEF flowThrows
    <3>7. FlowOK(NoFlow, intents')
      BY NoFlowType DEF FlowOK
    <3>8. j = flow[f].id /\ j # 0 /\ NoFlow.id \in {0, j} /\ NoFlow \in Flow
      BY <2>2, NoFlowType
    <3>9. /\ row.kind = r.kind /\ row.lamports = r.lamports /\ row.tx = r.tx /\ row.status = r.status
      BY <3>3
    <3> HIDE DEF fl, j
    <3>10. QED BY <1>0, <1>1, <2>1, <3>2, <3>4, <3>5, <3>6, <3>7, <3>8, <3>9, OwnRow
  <2>3. CASE j = 0
    <3>1. intents' = intents
      BY <1>5, <2>3 DEF flowThrows
    <3>2. flow' \in [Flows -> Flow] /\ flow'[f] = NoFlow /\ \A g \in Flows : g # f => flow'[g] = flow[g]
      BY <1>1, <2>1, NoFlowType
    <3>3. PanelTypes /\ FlowsInv /\ RowsInv /\ Books(intents, vault, custody.balance)
      BY DEF WalletInv
    <3>4. PanelTypes'
      BY <2>1, <3>1, <3>2, <3>3 DEF PanelTypes
    <3>5. FlowsInv'
      <4>1. FlowOK(NoFlow, intents)
        BY NoFlowType DEF FlowOK
      <4>2. \A g \in Flows : FlowOK(flow'[g], intents')
        BY <3>1, <3>2, <3>3, <4>1 DEF FlowsInv
      <4>3. \A g, h \in Flows : g # h /\ flow'[g].id # 0 => flow'[g].id # flow'[h].id
        BY <3>2, <3>3, NoFlowType DEF FlowsInv
      <4>4. QED BY <4>2, <4>3 DEF FlowsInv
    <3>6. RowsInv'
      <4>1. ASSUME NEW i \in 1..Len(intents), NEW g \in Flows, Follows(flow[g], i)
            PROVE  Follows(flow'[g], i)
        BY <2>3, <3>2, <4>1 DEF Follows
      <4>2. \A i \in 1..Len(intents) :
              /\ RowOK(intents[i])
              /\ intents[i].heard = "nothing" =>
                   intents[i].tx = "unsigned" \/ \E g \in Flows : Follows(flow'[g], i)
        BY <3>3, <4>1 DEF RowsInv
      <4>3. QED BY <3>1, <4>2 DEF RowsInv
    <3>7. QED BY <2>1, <3>1, <3>3, <3>4, <3>5, <3>6 DEF WalletInv
  <2>4. QED BY <2>2, <2>3
<1>6. QED BY <1>3, <1>4, <1>5

(* The rows of what was running are left open.                             *)
LEMMA LeaveStep ==
  ASSUME WalletInv, leavePanel
  PROVE  WalletInv'
<1>1. PanelTypes /\ FlowsInv /\ RowsInv /\ Books(intents, vault, custody.balance)
  BY DEF WalletInv
<1>2. intents \in Seq(Row) /\ flow \in [Flows -> Flow] /\ custody' = custody /\ vault' = vault
  BY <1>1 DEF PanelTypes, leavePanel
<1>3. /\ intents' \in Seq(Row) /\ Len(intents') = Len(intents)
      /\ \A i \in 1..Len(intents) :
           /\ intents'[i].kind = intents[i].kind /\ intents'[i].lamports = intents[i].lamports
           /\ intents'[i].text = intents[i].text /\ intents'[i].tx = intents[i].tx
           /\ intents'[i].status = intents[i].status
           /\ intents'[i] = intents[i] \/ intents'[i].heard = "open"
           /\ (\E f \in Flows : Follows(flow[f], i)) => intents'[i].heard = "open"
  <2>1. ASSUME NEW r \in Row
        PROVE  /\ [r EXCEPT !.heard = "open"] \in Row /\ [r EXCEPT !.heard = "open"].heard = "open"
               /\ [r EXCEPT !.heard = "open"].kind = r.kind
               /\ [r EXCEPT !.heard = "open"].lamports = r.lamports
               /\ [r EXCEPT !.heard = "open"].text = r.text /\ [r EXCEPT !.heard = "open"].tx = r.tx
               /\ [r EXCEPT !.heard = "open"].status = r.status
    BY DEF Row
  <2>2. \A i \in 1..Len(intents) : intents[i] \in Row
    BY <1>2
  <2> DEFINE open(i) == \E f \in Flows : Follows(flow[f], i)
  <2>3. intents' = [i \in 1..Len(intents) |->
                      IF open(i) THEN [intents[i] EXCEPT !.heard = "open"] ELSE intents[i]]
    BY DEF leavePanel, abandoned, Follows
  <2> HIDE DEF open
  <2>4. \A i \in 1..Len(intents) : (IF open(i) THEN [intents[i] EXCEPT !.heard = "open"] ELSE intents[i]) \in Row
    BY <2>1, <2>2
  <2>5. Len(intents) \in Nat
    BY <1>2
  <2>6. intents' \in Seq(Row) /\ Len(intents') = Len(intents)
    BY <2>3, <2>4, <2>5
  <2>7. ASSUME NEW i \in 1..Len(intents)
        PROVE  /\ intents'[i].kind = intents[i].kind /\ intents'[i].lamports = intents[i].lamports
               /\ intents'[i].text = intents[i].text /\ intents'[i].tx = intents[i].tx
               /\ intents'[i].status = intents[i].status
               /\ intents'[i] = intents[i] \/ intents'[i].heard = "open"
               /\ open(i) => intents'[i].heard = "open"
    BY <2>1, <2>2, <2>3
  <2>8. QED BY <2>6, <2>7 DEF open
<1>4. /\ flow' \in [Flows -> Flow]
      /\ \A f \in Flows : /\ ~flow'[f].shown
                          /\ \/ flow'[f] = NoFlow
                             \/ /\ flow'[f].step = flow[f].step /\ flow'[f].id = flow[f].id
                                /\ flow'[f].text = flow[f].text /\ flow'[f].lamports = flow[f].lamports
  <2>1. CASE flow' = [f \in Flows |-> [flow[f] EXCEPT !.shown = FALSE]]
    <3>1. ASSUME NEW x \in Flow
          PROVE  /\ [x EXCEPT !.shown = FALSE] \in Flow /\ ~[x EXCEPT !.shown = FALSE].shown
                 /\ [x EXCEPT !.shown = FALSE].step = x.step /\ [x EXCEPT !.shown = FALSE].id = x.id
                 /\ [x EXCEPT !.shown = FALSE].text = x.text
                 /\ [x EXCEPT !.shown = FALSE].lamports = x.lamports
      BY DEF Flow
    <3>2. QED BY <1>2, <2>1, <3>1
  <2>2. CASE flow' = [f \in Flows |-> NoFlow]
    BY <2>2, NoFlowType
  <2>3. QED BY <2>1, <2>2 DEF leavePanel
<1>5. PanelTypes'
  BY <1>1, <1>2, <1>3, <1>4 DEF PanelTypes
<1>6. FlowsInv'
  <2>1. ASSUME NEW f \in Flows PROVE FlowOK(flow'[f], intents')
    <3>1. FlowOK(flow[f], intents) /\ flow[f] \in Flow /\ flow[f].shown \in BOOLEAN
      BY <1>1, <1>2 DEF FlowsInv, Flow
    <3>2. CASE flow'[f] = NoFlow
      BY <3>2, NoFlowType DEF FlowOK
    <3>3. CASE /\ flow'[f].step = flow[f].step /\ flow'[f].id = flow[f].id
               /\ flow'[f].text = flow[f].text /\ flow'[f].lamports = flow[f].lamports
      <4>1. flow[f].step \in {"awaiting-signature", "sending"} => intents'[flow[f].id].heard # "nothing"
        <5>1. SUFFICES ASSUME flow[f].step \in {"awaiting-signature", "sending"}
                       PROVE  intents'[flow[f].id].heard # "nothing"
          OBVIOUS
        <5>2. flow[f].id \in 1..Len(intents) /\ (flow[f].shown \/ intents[flow[f].id].heard # "nothing")
          BY <3>1, <5>1 DEF FlowOK
        <5>3. QED BY <1>3, <5>2 DEF Follows
      <4>2. QED BY <1>3, <3>1, <3>3, <4>1 DEF FlowOK
    <3>4. QED BY <1>4, <3>2, <3>3
  <2>2. \A f, g \in Flows : f # g /\ flow'[f].id # 0 => flow'[f].id # flow'[g].id
    BY <1>1, <1>4, NoFlowType DEF FlowsInv
  <2>3. QED BY <2>1, <2>2 DEF FlowsInv
<1>7. RowsInv'
  <2>1. ASSUME NEW i \in 1..Len(intents)
        PROVE  RowOK(intents'[i]) /\ (intents'[i].heard = "nothing" => intents'[i].tx = "unsigned")
    <3>1. /\ RowOK(intents[i])
          /\ intents[i].heard = "nothing" =>
               intents[i].tx = "unsigned" \/ \E f \in Flows : Follows(flow[f], i)
      BY <1>1 DEF RowsInv
    <3>2. QED BY <1>3, <3>1 DEF RowOK
  <2>2. QED BY <1>3, <2>1 DEF RowsInv
<1>8. Books(intents', vault', custody'.balance)
  <2>1. LandedIn(intents') = LandedIn(intents) /\ BookedIn(intents') = BookedIn(intents)
    BY <1>3 DEF LandedIn, BookedIn
  <2>2. \A S, kind : Marked(intents', S, kind) = Marked(intents, S, kind)
    BY <1>2, <1>3, MarkedSame
  <2>3. QED BY <1>1, <1>2, <2>1, <2>2 DEF Books
<1>9. QED BY <1>5, <1>6, <1>7, <1>8 DEF WalletInv

(* The invariant holds of an empty panel,                                  *)
LEMMA WalletStart == PanelInit => WalletInv
<1> SUFFICES ASSUME PanelInit PROVE WalletInv
  OBVIOUS
<1>1. /\ flow = [f \in Flows |-> NoFlow] /\ intents = <<>> /\ vault = OpeningLamports
      /\ custody = [balance |-> OpeningLamports, reserved |-> 0] /\ OpeningLamports \in Nat
  BY PanelAssumption DEF PanelInit
<1>2. PanelTypes
  BY <1>1, NoFlowType DEF PanelTypes
<1>3. FlowsInv
  BY <1>1, NoFlowType DEF FlowsInv, FlowOK
<1>4. RowsInv
  BY <1>1 DEF RowsInv
<1>5. \A S, kind : Marked(intents, S, kind) = 0
  <2>1. ASSUME NEW S, NEW kind PROVE Marked(intents, S, kind) = 0
    <3> DEFINE f == [i \in 1..Len(intents) |->
                       IF i \in S /\ intents[i].kind = kind THEN intents[i].lamports ELSE 0]
    <3>1. 1..Len(intents) = {} /\ intents \in Seq(Row)
      BY <1>1
    <3>2. f = [i \in 1..Len(intents) |-> 0]
      BY <3>1
    <3> HIDE DEF f
    <3>3. Total(f) = 0
      BY <3>2, TotalZero
    <3>4. QED BY <3>3 DEF Marked, f
  <2>2. QED BY <2>1
<1>6. Books(intents, vault, custody.balance)
  BY <1>1, <1>5 DEF Books
<1>7. QED BY <1>2, <1>3, <1>4, <1>6 DEF WalletInv

(* and every step keeps it.                                                *)
LEMMA WalletSteps == WalletInv /\ [PanelNext]_panelVars => WalletInv'
<1> SUFFICES ASSUME WalletInv, [PanelNext]_panelVars PROVE WalletInv'
  OBVIOUS
<1>1. CASE \E f \in Flows, kind \in {"deposit", "withdraw"}, t \in Texts : submit(f, kind, t)
  BY <1>1, SubmitStep DEF Transfers
<1>2. CASE \E f \in Flows : intentAnswered(f) \/ intentAnswerLost(f)
  BY <1>2, OpenSteps
<1>3. CASE \E f \in Flows : signTransfer(f) \/ confirmAnswered(f) \/ flowThrows(f)
  BY <1>3, OwnSteps
<1>4. CASE \E i \in 1..Len(intents) : landTransfer(i) \/ reconcileRow(i) \/ expireRow(i)
  BY <1>4, LedgerSteps
<1>5. CASE leavePanel
  BY <1>5, LeaveStep
<1>6. CASE useProgramDeployed \/ UNCHANGED panelVars
  BY <1>6 DEF useProgramDeployed, panelVars, WalletInv, PanelTypes, FlowsInv, RowsInv
<1>7. QED BY <1>1, <1>2, <1>3, <1>4, <1>5, <1>6 DEF PanelNext

(* It implies what the run checks.                                         *)
LEMMA WalletImplies == WalletInv => PanelInv
<1> SUFFICES ASSUME WalletInv PROVE PanelInv
  OBVIOUS
<1>1. PanelTypes /\ RowsInv /\ Books(intents, vault, custody.balance)
  BY DEF WalletInv
<1>2. \A i \in 1..Len(intents) :
        /\ intents[i] \in Row /\ RowOK(intents[i])
        /\ intents[i].heard = "nothing" =>
             intents[i].tx = "unsigned" \/ \E f \in Flows : Follows(flow[f], i)
  BY <1>1 DEF PanelTypes, RowsInv
<1>3. DoneIsBooked
  BY <1>2 DEF DoneIsBooked, RowOK
<1>4. UnbookedIsKnown
  BY <1>2 DEF UnbookedIsKnown, RowOK, Row, Follows
<1>5. TypedIsMoved
  <2>1. \A kind, S : typedIn(kind, S) = Marked(intents, S, kind)
    BY <1>2 DEF typedIn, Marked, RowOK
  <2>2. landed = LandedIn(intents) /\ booked = BookedIn(intents)
    BY DEF landed, booked, LandedIn, BookedIn
  <2>3. QED BY <1>1, <2>1, <2>2 DEF Books, TypedIsMoved
<1>6. QED BY <1>3, <1>4, <1>5 DEF PanelInv

(* Whatever the player types, whatever requests, answers and pages get     *)
(* lost, and for any amounts and any number of flows and rows: what was    *)
(* typed is what moves, no flow reports as done what the books do not      *)
(* have, and no transfer that landed unbooked goes without word to the     *)
(* player (submit, useDeposit, useWithdraw).                               *)
THEOREM TypedTextMoves == PanelSpec => []PanelInv
<1>1. PanelSpec => []WalletInv
  BY WalletStart, WalletSteps, PTL DEF PanelSpec
<1>2. QED BY <1>1, WalletImplies, PTL

-----------------------------------------------------------------------------
(***************************************************************************)
(* The way into a match.  A second ticket is never asked for because a     *)
(* claim is dropped only when what made it is over: no match starts while  *)
(* a request is in flight, and what the board shows is older than that.    *)
(***************************************************************************)
LobbyStates == [current : Rooms \cup {NoTier}, status : {"waiting", "launching"},
                pending : Rooms \cup {NoTier}, launched : Nat]
Asks == [op : {"none", "join", "leave"}, tier : Rooms \cup {NoTier}]
Launchers == [claimed : Rooms \cup {NoTier}, error : BOOLEAN, entering : [Rooms -> Nat], started : BOOLEAN,
              mixed : BOOLEAN]

(* The lobby has the player in a match that is about to be entered.        *)
Due(l) == l.pending # NoTier \/ (l.current = "paid" /\ l.status = "launching")

(* Nothing free has been asked for.                                        *)
OnlyPaid(l, b, n) ==
  /\ l.current # "free" /\ l.pending # "free" /\ b.current # "free" /\ b.pending # "free"
  /\ n.claimed # "free" /\ n.entering["free"] = 0

(* A request in flight whose claim was dropped is the last one: no match   *)
(* starts while it lasts, and what made it is over.                        *)
LastRequest(l, b, s, n) ==
  /\ n.entering["paid"] <= 1
  /\ s = "play" => n.entering["paid"] = 0
  /\ n.entering["paid"] = 1 /\ TierOf(b) = NoTier => ~Due(l)
  /\ n.entering["paid"] = 1 /\ n.claimed # "paid" => ~Due(l) /\ ~launching(b)

LaunchInv ==
  /\ lobby \in LobbyStates /\ board \in LobbyStates /\ screen \in {"board", "play"}
  /\ ticket \in BOOLEAN /\ mutation \in Asks /\ confirming \in BOOLEAN /\ launcher \in Launchers
  /\ screen = "play" /\ ~ticket => lobby.current = NoTier /\ board.current = NoTier /\ mutation = NoAsk
  /\ ~launcher.mixed => OnlyPaid(lobby, board, launcher) /\ LastRequest(lobby, board, screen, launcher)

LaunchTypes ==
  /\ lobby \in LobbyStates /\ board \in LobbyStates /\ screen \in {"board", "play"}
  /\ ticket \in BOOLEAN /\ mutation \in Asks /\ confirming \in BOOLEAN /\ launcher \in Launchers

LEMMA LaunchStarts == LaunchInit => LaunchInv
<1> SUFFICES ASSUME LaunchInit PROVE LaunchInv
  OBVIOUS
<1>1. LaunchTypes
  BY DEF LaunchInit, LaunchTypes, LobbyStates, Asks, Launchers, NotClaimed, NoAsk, NoTier, Rooms, NoneInFlight
<1>2. lobby.current = NoTier /\ board.current = NoTier /\ mutation = NoAsk
  BY DEF LaunchInit
<1>3. OnlyPaid(lobby, board, launcher) /\ LastRequest(lobby, board, screen, launcher)
  BY DEF LaunchInit, OnlyPaid, LastRequest, NotClaimed, NoneInFlight, NoTier, Rooms
<1>4. QED BY <1>1, <1>2, <1>3 DEF LaunchInv, LaunchTypes

LEMMA StartsMatch == LaunchInv /\ startMatch => LaunchInv'
<1> SUFFICES ASSUME LaunchInv, startMatch PROVE LaunchInv'
  OBVIOUS
<1>1. /\ lobby.status = "waiting" /\ launcher.entering = NoneInFlight
      /\ lobby' = [lobby EXCEPT !.status = "launching", !.launched = @ + 1]
      /\ UNCHANGED <<board, screen, ticket, mutation, confirming, launcher>>
  BY DEF startMatch, serves
<1>2. lobby' \in LobbyStates /\ lobby'.current = lobby.current /\ lobby'.pending = lobby.pending
  <2>1. lobby \in LobbyStates
    BY DEF LaunchInv
  <2>2. PICK n \in Nat : n = lobby.launched + 1
    BY <2>1 DEF LobbyStates
  <2>3. lobby' = [lobby EXCEPT !.status = "launching", !.launched = n]
    BY <1>1, <2>2
  <2>4. QED BY ONLY <2>1, <2>3, n \in Nat DEF LobbyStates
<1>3. launcher.entering["paid"] = 0
  BY <1>1 DEF NoneInFlight, Rooms
<1>4. ~launcher.mixed => OnlyPaid(lobby', board, launcher) /\ LastRequest(lobby', board, screen, launcher)
  BY <1>2, <1>3 DEF LaunchInv, OnlyPaid, LastRequest
<1>5. QED BY <1>1, <1>2, <1>4 DEF LaunchInv

LEMMA Reopens == LaunchInv /\ reopen => LaunchInv'
<1> SUFFICES ASSUME LaunchInv, reopen PROVE LaunchInv'
  OBVIOUS
<1>1. /\ lobby.status = "launching"
      /\ lobby' = [lobby EXCEPT !.status = "waiting", !.current = IF @ = "paid" THEN NoTier ELSE @,
                                !.pending = IF lobby.current = "paid" THEN "paid" ELSE @]
      /\ UNCHANGED <<board, screen, ticket, mutation, confirming, launcher>>
  BY DEF reopen, serves
<1>2. /\ lobby' \in LobbyStates /\ lobby'.status = "waiting"
      /\ lobby'.current = IF lobby.current = "paid" THEN NoTier ELSE lobby.current
      /\ lobby'.pending = IF lobby.current = "paid" THEN "paid" ELSE lobby.pending
  BY <1>1 DEF LaunchInv, LobbyStates, NoTier, Rooms
<1>3. ~launcher.mixed => OnlyPaid(lobby', board, launcher) /\ LastRequest(lobby', board, screen, launcher)
  BY <1>1, <1>2 DEF LaunchInv, OnlyPaid, LastRequest, Due, NoTier
<1>4. QED BY <1>1, <1>2, <1>3 DEF LaunchInv, NoTier

LEMMA StartsFreeMatch == LaunchInv /\ startFreeMatch => LaunchInv'
<1> SUFFICES ASSUME LaunchInv, startFreeMatch PROVE LaunchInv'
  OBVIOUS
<1>1. /\ lobby.current = "free" /\ lobby' = [lobby EXCEPT !.current = NoTier, !.pending = "free"]
      /\ UNCHANGED <<board, screen, ticket, mutation, confirming, launcher>>
  BY DEF startFreeMatch, serves
<1>2. lobby' \in LobbyStates
  BY <1>1 DEF LaunchInv, LobbyStates, Rooms
<1>3. launcher.mixed /\ ~(screen = "play" /\ ~ticket)
  BY <1>1 DEF LaunchInv, OnlyPaid, NoTier
<1>4. QED BY <1>1, <1>2, <1>3 DEF LaunchInv

LEMMA SeatLapses == LaunchInv /\ seatLapses => LaunchInv'
<1> SUFFICES ASSUME LaunchInv, seatLapses PROVE LaunchInv'
  OBVIOUS
<1>1. /\ launcher.entering = NoneInFlight /\ lobby' = [lobby EXCEPT !.pending = NoTier]
      /\ UNCHANGED <<board, screen, ticket, mutation, confirming, launcher>>
  BY DEF seatLapses, serves
<1>2. lobby' \in LobbyStates /\ lobby'.current = lobby.current /\ lobby'.pending = NoTier
  BY <1>1 DEF LaunchInv, LobbyStates
<1>3. launcher.entering["paid"] = 0
  BY <1>1 DEF NoneInFlight, Rooms
<1>4. ~launcher.mixed => OnlyPaid(lobby', board, launcher) /\ LastRequest(lobby', board, screen, launcher)
  BY <1>2, <1>3 DEF LaunchInv, OnlyPaid, LastRequest, NoTier
<1>5. QED BY <1>1, <1>2, <1>4 DEF LaunchInv

(* A poll shows what the lobby is: a match that is not due is not shown as *)
(* launching.                                                              *)
LEMMA NotDueNotLaunching == \A l : ~Due(l) <=> ~launching(l)
BY DEF Due, launching

LEMMA BoardPolls == LaunchInv /\ useLobbies => LaunchInv'
<1> SUFFICES ASSUME LaunchInv, useLobbies PROVE LaunchInv'
  OBVIOUS
<1>1. board' = lobby /\ UNCHANGED <<lobby, screen, ticket, mutation, confirming, launcher>>
  BY DEF useLobbies
<1>2. ASSUME ~launcher.mixed PROVE OnlyPaid(lobby, lobby, launcher) /\ LastRequest(lobby, lobby, screen, launcher)
  <2>1. OnlyPaid(lobby, board, launcher) /\ LastRequest(lobby, board, screen, launcher)
    BY <1>2 DEF LaunchInv
  <2>2. OnlyPaid(lobby, lobby, launcher)
    BY <2>1 DEF OnlyPaid
  <2>3. TierOf(lobby) = NoTier => ~Due(lobby)
    BY DEF TierOf, Due, NoTier
  <2>4. LastRequest(lobby, lobby, screen, launcher)
    BY <2>1, <2>3, NotDueNotLaunching DEF LastRequest
  <2>5. QED BY <2>2, <2>4
<1>3. QED BY <1>1, <1>2 DEF LaunchInv

LEMMA AskedFor == LaunchInv /\ (\/ confirmJoin \/ \E t \in Rooms : handleJoin(t) \/ handleLeave(t)) => LaunchInv'
<1> SUFFICES ASSUME LaunchInv, \/ confirmJoin \/ \E t \in Rooms : handleJoin(t) \/ handleLeave(t)
             PROVE  LaunchInv'
  OBVIOUS
<1>1. /\ screen = "board" /\ mutation' \in Asks /\ confirming' \in BOOLEAN
      /\ UNCHANGED <<lobby, board, screen, ticket, launcher>>
  <2>1. CASE confirmJoin
    BY <2>1 DEF confirmJoin, asks, Asks, Rooms, LaunchInv
  <2>2. ASSUME NEW t \in Rooms, handleLeave(t) 
        PROVE  /\ screen = "board" /\ mutation' \in Asks /\ confirming' \in BOOLEAN
               /\ UNCHANGED <<lobby, board, screen, ticket, launcher>>
    BY <2>2 DEF handleLeave, asks, Asks, LaunchInv
  <2>3. ASSUME NEW t \in Rooms, handleJoin(t)
        PROVE  /\ screen = "board" /\ mutation' \in Asks /\ confirming' \in BOOLEAN
               /\ UNCHANGED <<lobby, board, screen, ticket, launcher>>
    <3>1. CASE t = "free"
      <4>1. asks("join", t) /\ confirming' = confirming
        BY <2>3, <3>1 DEF handleJoin
      <4>2. QED BY <4>1 DEF asks, Asks, LaunchInv
    <3>2. CASE t # "free"
      <4>1. screen = "board" /\ confirming' = TRUE /\ UNCHANGED <<lobby, board, screen, ticket, mutation, launcher>>
        BY <2>3, <3>2 DEF handleJoin
      <4>2. QED BY <4>1 DEF LaunchInv
    <3>3. QED BY <3>1, <3>2
  <2>4. QED BY <2>1, <2>2, <2>3
<1>2. QED BY <1>1 DEF LaunchInv

LEMMA Cancels == LaunchInv /\ onCancel => LaunchInv'
<1> SUFFICES ASSUME LaunchInv, onCancel PROVE LaunchInv'
  OBVIOUS
<1>1. confirming' = FALSE /\ UNCHANGED <<lobby, board, screen, ticket, mutation, launcher>>
  BY DEF onCancel
<1>2. QED BY <1>1 DEF LaunchInv

LEMMA NoAskIs == NoAsk \in Asks
BY DEF NoAsk, Asks, Rooms, NoTier

LEMMA JoinRefused == LaunchInv /\ refused => LaunchInv'
<1> SUFFICES ASSUME LaunchInv, refused PROVE LaunchInv'
  OBVIOUS
<1>1. mutation' = NoAsk /\ UNCHANGED <<lobby, board, screen, ticket, confirming, launcher>>
  BY DEF refused
<1>2. QED BY <1>1, NoAskIs DEF LaunchInv

LEMMA LaunchersAre ==
  ASSUME NEW c \in Rooms \cup {NoTier}, NEW e \in BOOLEAN, NEW f \in [Rooms -> Nat], NEW s \in BOOLEAN,
         NEW m \in BOOLEAN,
         NEW d, d = [claimed |-> c, error |-> e, entering |-> f, started |-> s, mixed |-> m]
  PROVE  d \in Launchers
BY DEF Launchers

(* The launcher taken apart.                                               *)
LEMMA LauncherOf ==
  ASSUME NEW d \in Launchers
  PROVE  /\ d = [claimed |-> d.claimed, error |-> d.error, entering |-> d.entering, started |-> d.started,
                 mixed |-> d.mixed]
         /\ d.claimed \in Rooms \cup {NoTier} /\ d.error \in BOOLEAN /\ d.entering \in [Rooms -> Nat]
         /\ d.started \in BOOLEAN /\ d.mixed \in BOOLEAN
BY DEF Launchers

LEMMA OneMoreAsked ==
  ASSUME NEW f \in [Rooms -> Nat], NEW t \in Rooms, NEW g, g = [f EXCEPT ![t] = @ + 1]
  PROVE  g \in [Rooms -> Nat] /\ g[t] = f[t] + 1 /\ \A u \in Rooms \ {t} : g[u] = f[u]
OBVIOUS

LEMMA OneAnswered ==
  ASSUME NEW f \in [Rooms -> Nat], NEW t \in Rooms, f[t] > 0, NEW g, g = [f EXCEPT ![t] = @ - 1]
  PROVE  g \in [Rooms -> Nat] /\ g[t] = f[t] - 1 /\ \A u \in Rooms \ {t} : g[u] = f[u]
OBVIOUS

LEMMA Serves == LaunchInv /\ served => LaunchInv'
<1> SUFFICES ASSUME LaunchInv, served PROVE LaunchInv'
  OBVIOUS
<1> DEFINE free == mutation = [op |-> "join", tier |-> "free"]
           op == mutation.op
           tier == mutation.tier
<1>1. /\ mutation # NoAsk /\ mutation' = NoAsk /\ ~Locked(tier)
      /\ lobby' = IF op = "join" THEN [lobby EXCEPT !.current = tier]
                  ELSE [lobby EXCEPT !.current = IF @ = tier THEN NoTier ELSE @]
      /\ board' = board /\ screen' = screen /\ ticket' = ticket
  BY DEF served
<1>2. confirming' = (confirming /\ ~(op = "join" /\ screen = "board"))
  BY DEF served
<1>3. confirming' \in BOOLEAN
  BY <1>2
<1>4. /\ op \in {"none", "join", "leave"} /\ tier \in Rooms \cup {NoTier}
      /\ mutation = [op |-> op, tier |-> tier]
  BY DEF LaunchInv, Asks
<1>5. /\ lobby' \in LobbyStates /\ lobby'.pending = lobby.pending /\ lobby'.status = lobby.status
      /\ lobby'.current = IF op = "join" THEN tier ELSE IF lobby.current = tier THEN NoTier ELSE lobby.current
  <2>1. lobby \in LobbyStates
    BY DEF LaunchInv
  <2> HIDE DEF op, tier
  <2>2. CASE op = "join"
    BY <1>1, <1>4, <2>1, <2>2 DEF LobbyStates
  <2>3. CASE op # "join"
    BY <1>1, <1>4, <2>1, <2>3 DEF LobbyStates
  <2>4. QED BY <2>2, <2>3
<1>6. launcher' \in Launchers /\ (free => launcher'.mixed) /\ (~free => launcher' = launcher)
  <2>1. CASE ~free
    BY <2>1 DEF served, LaunchInv
  <2>2. CASE free
    <3>1. launcher \in Launchers
      BY DEF LaunchInv
    <3>2. launcher' = [(IF screen = "board" THEN Requested("free") ELSE launcher) EXCEPT !.mixed = TRUE]
      BY <2>2 DEF served
    <3>3. "free" \in Rooms
      BY DEF Rooms
    <3>4. PICK g \in [Rooms -> Nat] : g = [launcher.entering EXCEPT !["free"] = @ + 1]
      BY <3>1, <3>3, LauncherOf, OneMoreAsked
    <3>5. Requested("free") = [launcher EXCEPT !.claimed = "free", !.entering = g]
      BY <3>1, <3>4 DEF Requested, Launchers
    <3>6. PICK c \in Rooms \cup {NoTier}, h \in [Rooms -> Nat] :
            launcher' = [claimed |-> c, error |-> launcher.error, entering |-> h, started |-> launcher.started,
                         mixed |-> TRUE]
      <4>1. launcher = [claimed |-> launcher.claimed, error |-> launcher.error, entering |-> launcher.entering,
                        started |-> launcher.started, mixed |-> launcher.mixed]
            /\ launcher.claimed \in Rooms \cup {NoTier} /\ launcher.entering \in [Rooms -> Nat]
        BY <3>1, LauncherOf
      <4>2. CASE screen = "board"
        <5>1. launcher' = [launcher EXCEPT !.claimed = "free", !.entering = g, !.mixed = TRUE]
          BY <3>2, <3>5, <4>2
        <5>2. launcher' = [claimed |-> "free", error |-> launcher.error, entering |-> g, started |-> launcher.started,
                           mixed |-> TRUE]
          BY ONLY <4>1, <5>1
        <5>3. QED BY <3>3, <5>2
      <4>3. CASE screen # "board"
        <5>1. launcher' = [launcher EXCEPT !.mixed = TRUE]
          BY <3>2, <4>3
        <5>2. launcher' = [claimed |-> launcher.claimed, error |-> launcher.error, entering |-> launcher.entering,
                           started |-> launcher.started, mixed |-> TRUE]
          BY ONLY <4>1, <5>1
        <5>3. QED BY <4>1, <5>2
      <4>4. QED BY <4>2, <4>3
    <3>7. launcher.error \in BOOLEAN /\ launcher.started \in BOOLEAN /\ TRUE \in BOOLEAN
      BY <3>1, LauncherOf
    <3>8. launcher' \in Launchers
      BY ONLY <3>6, <3>7, LaunchersAre
    <3>9. launcher'.mixed
      BY ONLY <3>6
    <3>10. QED BY <2>2, <3>8, <3>9
  <2>3. QED BY <2>1, <2>2
<1>7. ~(screen = "play" /\ ~ticket)
  BY <1>1 DEF LaunchInv
<1>8. ASSUME ~launcher'.mixed
      PROVE  OnlyPaid(lobby', board, launcher) /\ LastRequest(lobby', board, screen, launcher) /\ launcher' = launcher
  <2>1. ~free /\ launcher' = launcher /\ ~launcher.mixed
    BY <1>6, <1>8
  <2>2. OnlyPaid(lobby, board, launcher) /\ LastRequest(lobby, board, screen, launcher)
    BY <2>1 DEF LaunchInv
  <2>3. ~(op = "join" /\ tier = "free")
    BY <1>4, <2>1
  <2>4. lobby'.current # "free"
    BY <1>5, <2>2, <2>3 DEF OnlyPaid, NoTier
  <2>5. OnlyPaid(lobby', board, launcher)
    BY <1>5, <2>2, <2>4 DEF OnlyPaid
  <2>6. ~Due(lobby) => ~Due(lobby')
    BY <1>1, <1>5 DEF Due, Locked, NoTier
  <2>7. LastRequest(lobby', board, screen, launcher)
    BY <2>2, <2>6 DEF LastRequest
  <2>8. QED BY <2>1, <2>5, <2>7
<1>9. QED BY <1>1, <1>3, <1>5, <1>6, <1>7, <1>8, NoAskIs DEF LaunchInv

LEMMA Launches == LaunchInv /\ useMatchLaunch => LaunchInv'
<1> SUFFICES ASSUME LaunchInv, useMatchLaunch PROVE LaunchInv'
  OBVIOUS
<1> DEFINE tier == TierOf(board)
<1>1. screen = "board" /\ UNCHANGED <<lobby, board, screen, ticket, mutation, confirming>>
  BY DEF useMatchLaunch
<1>2. /\ launcher \in Launchers
      /\ launcher = [claimed |-> launcher.claimed, error |-> launcher.error, entering |-> launcher.entering,
                     started |-> launcher.started, mixed |-> launcher.mixed]
      /\ launcher.claimed \in Rooms \cup {NoTier} /\ launcher.error \in BOOLEAN
      /\ launcher.entering \in [Rooms -> Nat] /\ launcher.started \in BOOLEAN /\ launcher.mixed \in BOOLEAN
  BY LauncherOf DEF LaunchInv
<1>3. tier \in Rooms \cup {NoTier}
  BY DEF LaunchInv, LobbyStates, TierOf
<1>4. CASE tier = NoTier
  <2>1. launcher' = [launcher EXCEPT !.claimed = NoTier]
    BY <1>4 DEF useMatchLaunch
  <2>2. launcher' = [claimed |-> NoTier, error |-> launcher.error, entering |-> launcher.entering,
                     started |-> launcher.started, mixed |-> launcher.mixed]
    BY ONLY <1>2, <2>1
  <2>3. launcher' \in Launchers
    <3>1. NoTier \in Rooms \cup {NoTier}
      OBVIOUS
    <3>2. QED BY ONLY <1>2, <2>2, <3>1, LaunchersAre
  <2>4. launcher'.claimed = NoTier /\ launcher'.entering = launcher.entering /\ launcher'.mixed = launcher.mixed
    BY ONLY <2>2
  <2>5. ASSUME ~launcher'.mixed
        PROVE  OnlyPaid(lobby, board, launcher') /\ LastRequest(lobby, board, screen, launcher')
    <3>1. OnlyPaid(lobby, board, launcher) /\ LastRequest(lobby, board, screen, launcher)
      BY <2>4, <2>5 DEF LaunchInv
    <3>2. ~launching(board)
      BY <1>4 DEF TierOf, launching, NoTier
    <3>3. OnlyPaid(lobby, board, launcher')
      BY <2>4, <3>1 DEF OnlyPaid, NoTier
    <3>4. LastRequest(lobby, board, screen, launcher')
      BY <1>4, <2>4, <3>1, <3>2 DEF LastRequest
    <3>5. QED BY <3>3, <3>4
  <2>6. QED BY <1>1, <2>3, <2>5 DEF LaunchInv
<1>5. CASE tier # NoTier
  <2>1. launching(board) /\ launcher.claimed # tier /\ launcher' = Requested(tier)
    BY <1>5 DEF useMatchLaunch
  <2>2. tier \in Rooms
    BY <1>3, <1>5
  <2>3. PICK g \in [Rooms -> Nat] : /\ g = [launcher.entering EXCEPT ![tier] = @ + 1]
                                   /\ g[tier] = launcher.entering[tier] + 1
                                   /\ \A u \in Rooms \ {tier} : g[u] = launcher.entering[u]
    <3>1. PICK f : f = launcher.entering
      OBVIOUS
    <3>2. PICK g : g = [f EXCEPT ![tier] = @ + 1]
      OBVIOUS
    <3>3. g \in [Rooms -> Nat] /\ g[tier] = f[tier] + 1 /\ \A u \in Rooms \ {tier} : g[u] = f[u]
      BY <1>2, <2>2, <3>1, <3>2, OneMoreAsked
    <3>4. QED BY <3>1, <3>2, <3>3
  <2>4. launcher' = [claimed |-> tier, error |-> launcher.error, entering |-> g, started |-> launcher.started,
                     mixed |-> launcher.mixed]
    <3>1. launcher' = [launcher EXCEPT !.claimed = tier, !.entering = g]
      BY <1>2, <2>1, <2>3 DEF Requested
    <3> HIDE DEF tier
    <3>2. QED BY ONLY <1>2, <3>1
  <2>5. launcher' \in Launchers
    <3> HIDE DEF tier
    <3>1. QED BY ONLY <1>2, <1>3, <2>3, <2>4, LaunchersAre
  <2>6. launcher'.claimed = tier /\ launcher'.entering = g /\ launcher'.mixed = launcher.mixed
    BY ONLY <2>4
  <2>7. ASSUME ~launcher'.mixed
        PROVE  OnlyPaid(lobby, board, launcher') /\ LastRequest(lobby, board, screen, launcher')
    <3>1. OnlyPaid(lobby, board, launcher) /\ LastRequest(lobby, board, screen, launcher)
      BY <2>6, <2>7 DEF LaunchInv
    <3>2. tier = "paid"
      BY <2>2, <3>1 DEF OnlyPaid, TierOf, Rooms
    <3>3. g["free"] = 0 /\ g["paid"] = launcher.entering["paid"] + 1
      BY <2>3, <3>1, <3>2 DEF OnlyPaid, Rooms
    <3>4. launcher.entering["paid"] = 0
      <4>1. launcher.entering["paid"] \in Nat
        BY <1>2 DEF Rooms
      <4>2. launcher.entering["paid"] <= 1 /\ launcher.entering["paid"] # 1
        BY <2>1, <3>1, <3>2 DEF LastRequest
      <4>3. QED BY ONLY <4>1, <4>2
    <3>5. OnlyPaid(lobby, board, launcher')
      BY <2>6, <3>1, <3>2, <3>3 DEF OnlyPaid
    <3>6. LastRequest(lobby, board, screen, launcher')
      BY <1>1, <1>5, <2>6, <3>2, <3>3, <3>4 DEF LastRequest
    <3>7. QED BY <3>5, <3>6
  <2>8. QED BY <1>1, <2>5, <2>7 DEF LaunchInv
<1>6. QED BY <1>4, <1>5

LEMMA Enters ==
  ASSUME LaunchInv, NEW t \in Rooms, enterMatch(t)
  PROVE  LaunchInv'
<1>1. /\ launcher.entering[t] > 0
      /\ lobby' = [lobby EXCEPT !.pending = IF @ = t THEN NoTier ELSE @,
                                !.current = IF @ = t /\ ~Locked(t) THEN NoTier ELSE @]
      /\ screen' = "play" /\ ticket' = TRUE /\ confirming' = FALSE /\ board' = board /\ mutation' = mutation
      /\ launcher' = [launcher EXCEPT !.claimed = NoTier, !.error = FALSE, !.entering[t] = @ - 1, !.started = FALSE]
  BY DEF enterMatch
<1>2. /\ launcher \in Launchers
      /\ launcher = [claimed |-> launcher.claimed, error |-> launcher.error, entering |-> launcher.entering,
                     started |-> launcher.started, mixed |-> launcher.mixed]
      /\ launcher.entering \in [Rooms -> Nat] /\ launcher.mixed \in BOOLEAN
  BY LauncherOf DEF LaunchInv
<1>3. PICK g \in [Rooms -> Nat] : /\ g = [launcher.entering EXCEPT ![t] = @ - 1] /\ g[t] = launcher.entering[t] - 1
                                 /\ \A u \in Rooms \ {t} : g[u] = launcher.entering[u]
  <2>1. PICK f : f = launcher.entering
    OBVIOUS
  <2>2. PICK g : g = [f EXCEPT ![t] = @ - 1]
    OBVIOUS
  <2>3. g \in [Rooms -> Nat] /\ g[t] = f[t] - 1 /\ \A u \in Rooms \ {t} : g[u] = f[u]
    BY <1>2, <1>1, <2>1, <2>2, OneAnswered
  <2>4. QED BY <2>1, <2>2, <2>3
<1>4. launcher' = [claimed |-> NoTier, error |-> FALSE, entering |-> g, started |-> FALSE, mixed |-> launcher.mixed]
  <2>1. launcher' = [launcher EXCEPT !.claimed = NoTier, !.error = FALSE, !.entering = g, !.started = FALSE]
    BY <1>1, <1>2, <1>3
  <2>2. QED BY ONLY <1>2, <2>1
<1>5. launcher' \in Launchers
  <2>1. NoTier \in Rooms \cup {NoTier} /\ FALSE \in BOOLEAN
    OBVIOUS
  <2>2. QED BY ONLY <1>2, <1>3, <1>4, <2>1, LaunchersAre
<1>6. launcher'.claimed = NoTier /\ launcher'.entering = g /\ launcher'.mixed = launcher.mixed
  BY ONLY <1>4
<1>7. lobby' \in LobbyStates
  BY <1>1 DEF LaunchInv, LobbyStates
<1>8. ASSUME ~launcher'.mixed
      PROVE  OnlyPaid(lobby', board, launcher') /\ LastRequest(lobby', board, "play", launcher')
  <2>1. OnlyPaid(lobby, board, launcher) /\ LastRequest(lobby, board, screen, launcher)
    BY <1>6, <1>8 DEF LaunchInv
  <2>2. t = "paid"
    BY <1>1, <2>1 DEF OnlyPaid, Rooms
  <2>3. g["free"] = 0 /\ g["paid"] = 0
    <3>1. g["free"] = 0 /\ g["paid"] = launcher.entering["paid"] - 1
      BY <1>3, <2>1, <2>2 DEF OnlyPaid, Rooms
    <3>2. launcher.entering["paid"] \in Nat /\ launcher.entering["paid"] > 0 /\ launcher.entering["paid"] <= 1
      BY <1>1, <1>2, <2>1, <2>2 DEF LastRequest
    <3>3. QED BY ONLY <3>1, <3>2
  <2>4. lobby'.current # "free" /\ lobby'.pending # "free"
    <3>1. /\ lobby'.pending = (IF lobby.pending = t THEN NoTier ELSE lobby.pending)
          /\ lobby'.current = (IF lobby.current = t /\ ~Locked(t) THEN NoTier ELSE lobby.current)
      BY <1>1 DEF LaunchInv, LobbyStates
    <3>2. QED BY <2>1, <3>1 DEF OnlyPaid, NoTier
  <2>5. OnlyPaid(lobby', board, launcher')
    BY <1>6, <2>1, <2>3, <2>4 DEF OnlyPaid, NoTier
  <2>6. LastRequest(lobby', board, "play", launcher')
    BY <1>6, <2>3 DEF LastRequest
  <2>7. QED BY <2>5, <2>6
<1>9. QED BY <1>1, <1>5, <1>7, <1>8 DEF LaunchInv

LEMMA TicketFails ==
  ASSUME LaunchInv, NEW t \in Rooms, enterFailed(t)
  PROVE  LaunchInv'
<1>1. /\ launcher.entering[t] > 0
      /\ launcher' = [launcher EXCEPT !.entering[t] = @ - 1, !.error = TRUE,
                                     !.claimed = IF screen = "board" THEN NoTier ELSE @]
      /\ UNCHANGED <<lobby, board, screen, ticket, mutation, confirming>>
  BY DEF enterFailed
<1>2. /\ launcher \in Launchers
      /\ launcher = [claimed |-> launcher.claimed, error |-> launcher.error, entering |-> launcher.entering,
                     started |-> launcher.started, mixed |-> launcher.mixed]
      /\ launcher.claimed \in Rooms \cup {NoTier}
      /\ launcher.entering \in [Rooms -> Nat] /\ launcher.started \in BOOLEAN /\ launcher.mixed \in BOOLEAN
  BY LauncherOf DEF LaunchInv
<1>3. PICK g \in [Rooms -> Nat] : /\ g = [launcher.entering EXCEPT ![t] = @ - 1] /\ g[t] = launcher.entering[t] - 1
                                 /\ \A u \in Rooms \ {t} : g[u] = launcher.entering[u]
  <2>1. PICK f : f = launcher.entering
    OBVIOUS
  <2>2. PICK g : g = [f EXCEPT ![t] = @ - 1]
    OBVIOUS
  <2>3. g \in [Rooms -> Nat] /\ g[t] = f[t] - 1 /\ \A u \in Rooms \ {t} : g[u] = f[u]
    BY <1>2, <1>1, <2>1, <2>2, OneAnswered
  <2>4. QED BY <2>1, <2>2, <2>3
<1>4. PICK c \in Rooms \cup {NoTier} : c = (IF screen = "board" THEN NoTier ELSE launcher.claimed)
  BY <1>2
<1>5. launcher' = [claimed |-> c, error |-> TRUE, entering |-> g, started |-> launcher.started, mixed |-> launcher.mixed]
  <2>1. launcher' = [launcher EXCEPT !.entering = g, !.error = TRUE, !.claimed = c]
    BY <1>1, <1>2, <1>3, <1>4
  <2>2. QED BY ONLY <1>2, <2>1
<1>6. launcher' \in Launchers
  <2>1. TRUE \in BOOLEAN
    OBVIOUS
  <2>2. QED BY ONLY <1>2, <1>3, <1>5, <2>1, LaunchersAre
<1>7. launcher'.claimed = c /\ launcher'.entering = g /\ launcher'.mixed = launcher.mixed
  BY ONLY <1>5
<1>8. ASSUME ~launcher'.mixed
      PROVE  OnlyPaid(lobby, board, launcher') /\ LastRequest(lobby, board, screen, launcher')
  <2>1. OnlyPaid(lobby, board, launcher) /\ LastRequest(lobby, board, screen, launcher)
    BY <1>7, <1>8 DEF LaunchInv
  <2>2. t = "paid"
    BY <1>1, <2>1 DEF OnlyPaid, Rooms
  <2>3. g["free"] = 0 /\ g["paid"] = 0
    <3>1. g["free"] = 0 /\ g["paid"] = launcher.entering["paid"] - 1
      BY <1>3, <2>1, <2>2 DEF OnlyPaid, Rooms
    <3>2. launcher.entering["paid"] \in Nat /\ launcher.entering["paid"] > 0 /\ launcher.entering["paid"] <= 1
      BY <1>1, <1>2, <2>1, <2>2 DEF LastRequest
    <3>3. QED BY ONLY <3>1, <3>2
  <2>4. OnlyPaid(lobby, board, launcher')
    BY <1>4, <1>7, <2>1, <2>3 DEF OnlyPaid, NoTier
  <2>5. LastRequest(lobby, board, screen, launcher')
    BY <1>7, <2>3 DEF LastRequest
  <2>6. QED BY <2>4, <2>5
<1>9. QED BY <1>1, <1>6, <1>8 DEF LaunchInv

LEMMA AsksToPlay == LaunchInv /\ useMatchmaking => LaunchInv'
<1> SUFFICES ASSUME LaunchInv, useMatchmaking PROVE LaunchInv'
  OBVIOUS
<1>1. /\ screen = "play" /\ ~ticket /\ UNCHANGED <<lobby, board, screen, ticket, mutation, confirming>>
      /\ launcher' = [launcher EXCEPT !.started = TRUE, !.entering[tierToPlay(board)] = @ + 1,
                                    !.mixed = @ \/ tierToPlay(board) = "free"]
  BY DEF useMatchmaking
<1>2. tierToPlay(board) = "free" /\ "free" \in Rooms
  BY <1>1 DEF LaunchInv, tierToPlay, Rooms
<1>3. /\ launcher \in Launchers
      /\ launcher = [claimed |-> launcher.claimed, error |-> launcher.error, entering |-> launcher.entering,
                     started |-> launcher.started, mixed |-> launcher.mixed]
      /\ launcher.claimed \in Rooms \cup {NoTier} /\ launcher.error \in BOOLEAN
      /\ launcher.entering \in [Rooms -> Nat]
  BY LauncherOf DEF LaunchInv
<1>4. PICK g \in [Rooms -> Nat] : g = [launcher.entering EXCEPT !["free"] = @ + 1]
  BY <1>2, <1>3, OneMoreAsked
<1>5. launcher' = [launcher EXCEPT !.started = TRUE, !.entering = g, !.mixed = TRUE]
  BY <1>1, <1>2, <1>3, <1>4
<1>6. launcher' = [claimed |-> launcher.claimed, error |-> launcher.error, entering |-> g, started |-> TRUE, mixed |-> TRUE]
  BY ONLY <1>3, <1>5
<1>7. launcher' \in Launchers
  <2>1. TRUE \in BOOLEAN
    OBVIOUS
  <2>2. QED BY ONLY <1>3, <1>4, <1>6, <2>1, LaunchersAre
<1>8. launcher'.mixed
  BY ONLY <1>6
<1>9. QED BY <1>1, <1>7, <1>8 DEF LaunchInv

LEMMA Leaves == LaunchInv /\ leavePage => LaunchInv'
<1> SUFFICES ASSUME LaunchInv, leavePage PROVE LaunchInv'
  OBVIOUS
<1>1. /\ screen = "play" /\ screen' = "board" /\ ticket' = FALSE /\ UNCHANGED <<lobby, board, confirming>>
      /\ mutation' = IF board.current # NoTier THEN [op |-> "leave", tier |-> board.current] ELSE NoAsk
      /\ launcher' = [launcher EXCEPT !.claimed = NoTier, !.error = FALSE, !.started = FALSE]
  BY DEF leavePage
<1>2. mutation' \in Asks
  <2>1. board.current \in Rooms \cup {NoTier}
    BY DEF LaunchInv, LobbyStates
  <2>2. [op |-> "leave", tier |-> board.current] \in Asks
    BY <2>1 DEF Asks
  <2>3. QED BY <1>1, <2>2, NoAskIs
<1>3. /\ launcher \in Launchers
      /\ launcher = [claimed |-> launcher.claimed, error |-> launcher.error, entering |-> launcher.entering,
                     started |-> launcher.started, mixed |-> launcher.mixed]
      /\ launcher.entering \in [Rooms -> Nat] /\ launcher.mixed \in BOOLEAN
  BY LauncherOf DEF LaunchInv
<1>4. launcher' = [claimed |-> NoTier, error |-> FALSE, entering |-> launcher.entering, started |-> FALSE,
                   mixed |-> launcher.mixed]
  BY ONLY <1>1, <1>3
<1>5. launcher' \in Launchers
  <2>1. NoTier \in Rooms \cup {NoTier} /\ FALSE \in BOOLEAN
    OBVIOUS
  <2>2. QED BY ONLY <1>3, <1>4, <2>1, LaunchersAre
<1>6. launcher'.claimed = NoTier /\ launcher'.entering = launcher.entering /\ launcher'.mixed = launcher.mixed
  BY ONLY <1>4
<1>7. ASSUME ~launcher'.mixed
      PROVE  OnlyPaid(lobby, board, launcher') /\ LastRequest(lobby, board, "board", launcher')
  <2>1. OnlyPaid(lobby, board, launcher) /\ LastRequest(lobby, board, screen, launcher)
    BY <1>6, <1>7 DEF LaunchInv
  <2>2. launcher.entering["paid"] = 0
    BY <1>1, <2>1 DEF LastRequest
  <2>3. OnlyPaid(lobby, board, launcher')
    BY <1>6, <2>1 DEF OnlyPaid, NoTier
  <2>4. LastRequest(lobby, board, "board", launcher')
    BY <1>6, <2>2 DEF LastRequest
  <2>5. QED BY <2>3, <2>4
<1>8. QED BY <1>1, <1>2, <1>5, <1>7 DEF LaunchInv

LEMMA LaunchNextSound == LaunchInv /\ [LaunchNext]_launchVars => LaunchInv'
<1> SUFFICES ASSUME LaunchInv, [LaunchNext]_launchVars PROVE LaunchInv'
  OBVIOUS
<1>1. CASE UNCHANGED launchVars
  BY <1>1 DEF LaunchInv, launchVars
<1>2. CASE \E t \in Rooms : enterMatch(t) \/ enterFailed(t)
  BY <1>2, Enters, TicketFails
<1>3. CASE LaunchNext
  BY <1>2, <1>3, StartsMatch, Reopens, StartsFreeMatch, SeatLapses, BoardPolls, AskedFor, Cancels, Serves, JoinRefused,
     Launches, AsksToPlay, Leaves DEF LaunchNext
<1>4. QED BY <1>1, <1>3

(* A player who has not also played a free room has one ticket asked for   *)
(* at a time, whatever the board last showed and however the requests,     *)
(* polls and launches fall (useMatchLaunch, enterMatch).                   *)
THEOREM OneTicketAtATime == LaunchSpec => []OneTicket
<1>1. LaunchInit => LaunchInv
  BY LaunchStarts
<1>2. LaunchInv /\ [LaunchNext]_launchVars => LaunchInv'
  BY LaunchNextSound
<1>3. LaunchInv => OneTicket
  <2>1. ASSUME LaunchInv, ~launcher.mixed, NEW t \in Rooms PROVE launcher.entering[t] <= 1
    BY <2>1 DEF LaunchInv, OnlyPaid, LastRequest, Rooms
  <2>2. QED BY <2>1 DEF OneTicket
<1>4. QED BY <1>1, <1>2, <1>3, PTL DEF LaunchSpec
(***************************************************************************)
(* The calls of the program.  Each call is met by its handler position by  *)
(* position (Suits, Meets), so it fits (Fits); whatever the client and    *)
(* the services send is one of them (CallsInv).                            *)
(***************************************************************************)

(* CallsFitProgram, of any transaction.                                    *)
Fits(tx) ==
  LET d == tx.about
      wanted == handler(tx.instruction.name, d)
      keys == tx.instruction.keys
      payout == tx.instruction.name \in {"settle_to_winner", "distribute_winnings"}
  IN  (payout => d.fee = feeDestination) =>
        /\ Len(keys) = Len(wanted.accounts)
        /\ \A i \in DOMAIN keys :
             /\ keys[i].pubkey = wanted.accounts[i].at
             /\ wanted.accounts[i].mut => isWritable(tx, keys[i].pubkey)
             /\ wanted.accounts[i].signer => isSigner(tx, keys[i].pubkey)
        /\ tx.instruction.args = wanted.args
        /\ missingSignatures(tx) = {}

(* A key is what the program wants at a position, when who signs.          *)
Suits(key, wanted, who) ==
  /\ key.pubkey = wanted.at
  /\ wanted.mut => key.isWritable \/ key.pubkey = who
  /\ wanted.signer => key.pubkey = who
  /\ key.isSigner => key.pubkey = who

LEMMA Serving ==
  \A a, who : /\ Suits(readonly(a), account(a), who)
              /\ Suits(writable(a), mutable(a), who)
              /\ Suits(signer(a), Signer(a), a)
              /\ Suits(signer(a), payer(a), a)
              /\ Suits(paying(a), payer(a), a)
              /\ Suits(paying(a), Signer(a), a)
  BY DEF Suits, readonly, writable, signer, paying, account, mutable, Signer, payer

(* Each key suits its position, and the arguments are the wanted ones.     *)
Meets(tx, accounts, args) ==
  /\ Len(tx.instruction.keys) = Len(accounts)
  /\ \A i \in DOMAIN tx.instruction.keys : Suits(tx.instruction.keys[i], accounts[i], tx.payer)
  /\ tx.instruction.args = args

LEMMA Fitting ==
  \A tx : ((tx.instruction.name \in {"settle_to_winner", "distribute_winnings"} => tx.about.fee = feeDestination)
             => Meets(tx, handler(tx.instruction.name, tx.about).accounts,
                          handler(tx.instruction.name, tx.about).args))
          => Fits(tx)
  BY DEF Meets, Fits, Suits, isWritable, isSigner, missingSignatures

LEMMA FitsInitialize == Fits(initializeProgram)
<1> DEFINE tx == initializeProgram
           k == <<writable(findConfigPda), writable(findPoolPda), writable(findTreasuryPda),
                  paying(AdminWallet), readonly(SystemProgram)>>
           w == <<mutable(findConfigPda), mutable(findPoolPda), mutable(findTreasuryPda), payer(AdminWallet),
                  account(SystemProgram)>>
<1>1. /\ tx.payer = AdminWallet /\ tx.instruction.name = "initialize"
      /\ tx.instruction.args = <<"pubkey", "pubkey", "u16", "u16">>
  BY DEF createInitializeInstruction, encodeInstruction, send, initializeProgram
<1>2. tx.instruction.keys = k
  BY DEF createInitializeInstruction, encodeInstruction, send, initializeProgram
<1>3. /\ handler("initialize", tx.about).accounts = w
      /\ handler("initialize", tx.about).args = <<"pubkey", "pubkey", "u16", "u16">>
  BY <1>1 DEF handler, Initialize, findConfigPda, findPoolPda, findTreasuryPda
<1>4. Len(k) = Len(w) /\ \A i \in DOMAIN k : Suits(k[i], w[i], AdminWallet)
  <2>1. /\ Suits(k[1], w[1], AdminWallet) /\ Suits(k[2], w[2], AdminWallet) /\ Suits(k[3], w[3], AdminWallet)
        /\ Suits(k[4], w[4], AdminWallet) /\ Suits(k[5], w[5], AdminWallet)
    BY Serving
  <2> QED BY <2>1
<1> HIDE DEF tx, k, w
<1>5. Meets(tx, w, <<"pubkey", "pubkey", "u16", "u16">>)
  BY <1>1, <1>2, <1>4 DEF Meets
<1>6. Fits(tx)
  BY <1>1, <1>3, <1>5, Fitting
<1> QED BY <1>6 DEF tx

LEMMA FitsUpdateConfig == Fits(send(createUpdateConfigInstruction, AdminWallet, Nobody))
<1> DEFINE tx == send(createUpdateConfigInstruction, AdminWallet, Nobody)
           k == <<writable(findConfigPda), paying(AdminWallet)>>
           w == <<mutable(findConfigPda), Signer(AdminWallet)>>
<1>1. /\ tx.payer = AdminWallet /\ tx.instruction.name = "update_config"
      /\ tx.instruction.args = <<"u16?", "u16?", "pubkey?", "pubkey?", "bool?">>
  BY DEF createUpdateConfigInstruction, encodeInstruction, send
<1>2. tx.instruction.keys = k
  BY DEF createUpdateConfigInstruction, encodeInstruction, send
<1>3. /\ handler("update_config", tx.about).accounts = w
      /\ handler("update_config", tx.about).args = <<"u16?", "u16?", "pubkey?", "pubkey?", "bool?">>
  BY <1>1 DEF handler, UpdateConfig, findConfigPda
<1>4. Len(k) = Len(w) /\ \A i \in DOMAIN k : Suits(k[i], w[i], AdminWallet)
  <2>1. /\ Suits(k[1], w[1], AdminWallet) /\ Suits(k[2], w[2], AdminWallet)
    BY Serving
  <2> QED BY <2>1
<1> HIDE DEF tx, k, w
<1>5. Meets(tx, w, <<"u16?", "u16?", "pubkey?", "pubkey?", "bool?">>)
  BY <1>1, <1>2, <1>4 DEF Meets
<1>6. Fits(tx)
  BY <1>1, <1>3, <1>5, Fitting
<1> QED BY <1>6 DEF tx

LEMMA FitsWithdrawTreasury == \A to : Fits(withdrawTreasury(to))
<1> TAKE to
<1> DEFINE tx == withdrawTreasury(to)
           k == <<readonly(findConfigPda), writable(findTreasuryPda), writable(to), signer(AdminWallet),
                  readonly(SystemProgram)>>
           w == <<account(findConfigPda), mutable(findTreasuryPda), mutable(to), Signer(AdminWallet),
                  account(SystemProgram)>>
<1>1. /\ tx.payer = AdminWallet /\ tx.instruction.name = "withdraw_treasury"
      /\ tx.instruction.args = <<"u64">> /\ tx.about.fee = to
  BY DEF createWithdrawTreasuryInstruction, encodeInstruction, send, withdrawTreasury, Nobody
<1>2. tx.instruction.keys = k
  BY DEF createWithdrawTreasuryInstruction, encodeInstruction, send, withdrawTreasury
<1>3. /\ handler("withdraw_treasury", tx.about).accounts = w
      /\ handler("withdraw_treasury", tx.about).args = <<"u64">>
  BY <1>1 DEF handler, WithdrawTreasury, findConfigPda, findTreasuryPda
<1>4. Len(k) = Len(w) /\ \A i \in DOMAIN k : Suits(k[i], w[i], AdminWallet)
  <2>1. /\ Suits(k[1], w[1], AdminWallet) /\ Suits(k[2], w[2], AdminWallet) /\ Suits(k[3], w[3], AdminWallet)
        /\ Suits(k[4], w[4], AdminWallet) /\ Suits(k[5], w[5], AdminWallet)
    BY Serving
  <2> QED BY <2>1
<1> HIDE DEF tx, k, w
<1>5. Meets(tx, w, <<"u64">>)
  BY <1>1, <1>2, <1>4 DEF Meets
<1>6. Fits(tx)
  BY <1>1, <1>3, <1>5, Fitting
<1> QED BY <1>6 DEF tx

LEMMA FitsDeposit == \A p : Fits(send(createDepositInstruction(p), wallet(p), about(p, <<>>)))
<1> TAKE p
<1> DEFINE tx == send(createDepositInstruction(p), wallet(p), about(p, <<>>))
           k == <<readonly(findConfigPda), writable(findPlayerPda(p)), writable(findPoolPda), paying(wallet(p)),
                  readonly(SystemProgram)>>
           w == <<account(findConfigPda), mutable(findPlayerPda(p)), mutable(findPoolPda), payer(wallet(p)),
                  account(SystemProgram)>>
<1>1. /\ tx.payer = wallet(p) /\ tx.instruction.name = "deposit"
      /\ tx.instruction.args = <<"u64">> /\ tx.about.player = p
  BY DEF createDepositInstruction, encodeInstruction, send, about, Nobody
<1>2. tx.instruction.keys = k
  BY DEF createDepositInstruction, encodeInstruction, send
<1>3. /\ handler("deposit", tx.about).accounts = w
      /\ handler("deposit", tx.about).args = <<"u64">>
  BY <1>1 DEF handler, Deposit, findConfigPda, findPoolPda, findPlayerPda
<1>4. Len(k) = Len(w) /\ \A i \in DOMAIN k : Suits(k[i], w[i], wallet(p))
  <2>1. /\ Suits(k[1], w[1], wallet(p)) /\ Suits(k[2], w[2], wallet(p)) /\ Suits(k[3], w[3], wallet(p))
        /\ Suits(k[4], w[4], wallet(p)) /\ Suits(k[5], w[5], wallet(p))
    BY Serving
  <2> QED BY <2>1
<1> HIDE DEF tx, k, w
<1>5. Meets(tx, w, <<"u64">>)
  BY <1>1, <1>2, <1>4 DEF Meets
<1>6. Fits(tx)
  BY <1>1, <1>3, <1>5, Fitting
<1> QED BY <1>6 DEF tx

LEMMA FitsWithdraw == \A p : Fits(send(createWithdrawInstruction(p), wallet(p), about(p, <<>>)))
<1> TAKE p
<1> DEFINE tx == send(createWithdrawInstruction(p), wallet(p), about(p, <<>>))
           k == <<readonly(findConfigPda), writable(findPlayerPda(p)), writable(findPoolPda),
                  writable(findTreasuryPda), paying(wallet(p)), readonly(SystemProgram)>>
           w == <<account(findConfigPda), mutable(findPlayerPda(p)), mutable(findPoolPda),
                  mutable(findTreasuryPda), payer(wallet(p)), account(SystemProgram)>>
<1>1. /\ tx.payer = wallet(p) /\ tx.instruction.name = "withdraw"
      /\ tx.instruction.args = <<"u64">> /\ tx.about.player = p
  BY DEF createWithdrawInstruction, encodeInstruction, send, about, Nobody
<1>2. tx.instruction.keys = k
  BY DEF createWithdrawInstruction, encodeInstruction, send
<1>3. /\ handler("withdraw", tx.about).accounts = w
      /\ handler("withdraw", tx.about).args = <<"u64">>
  BY <1>1 DEF handler, Withdraw, findConfigPda, findPoolPda, findTreasuryPda, findPlayerPda
<1>4. Len(k) = Len(w) /\ \A i \in DOMAIN k : Suits(k[i], w[i], wallet(p))
  <2>1. /\ Suits(k[1], w[1], wallet(p)) /\ Suits(k[2], w[2], wallet(p)) /\ Suits(k[3], w[3], wallet(p))
        /\ Suits(k[4], w[4], wallet(p)) /\ Suits(k[5], w[5], wallet(p)) /\ Suits(k[6], w[6], wallet(p))
    BY Serving
  <2> QED BY <2>1
<1> HIDE DEF tx, k, w
<1>5. Meets(tx, w, <<"u64">>)
  BY <1>1, <1>2, <1>4 DEF Meets
<1>6. Fits(tx)
  BY <1>1, <1>3, <1>5, Fitting
<1> QED BY <1>6 DEF tx

LEMMA FitsPageDeposit == \A p : Fits(send(buildDepositInstruction(p), wallet(p), about(p, <<>>)))
<1> TAKE p
<1> DEFINE tx == send(buildDepositInstruction(p), wallet(p), about(p, <<>>))
           k == <<readonly(<<"config">>), writable(<<"player", p>>), writable(<<"pool">>), paying(wallet(p)),
                  readonly(SystemProgram)>>
           w == <<account(<<"config">>), mutable(<<"player", p>>), mutable(<<"pool">>), payer(wallet(p)),
                  account(SystemProgram)>>
<1>1. /\ tx.payer = wallet(p) /\ tx.instruction.name = "deposit"
      /\ tx.instruction.args = <<"u64">> /\ tx.about.player = p
  BY DEF buildDepositInstruction, encodeInstruction, send, about, Nobody
<1>2. tx.instruction.keys = k
  BY DEF buildDepositInstruction, encodeInstruction, send
<1>3. /\ handler("deposit", tx.about).accounts = w
      /\ handler("deposit", tx.about).args = <<"u64">>
  BY <1>1 DEF handler, Deposit
<1>4. Len(k) = Len(w) /\ \A i \in DOMAIN k : Suits(k[i], w[i], wallet(p))
  <2>1. /\ Suits(k[1], w[1], wallet(p)) /\ Suits(k[2], w[2], wallet(p)) /\ Suits(k[3], w[3], wallet(p))
        /\ Suits(k[4], w[4], wallet(p)) /\ Suits(k[5], w[5], wallet(p))
    BY Serving
  <2> QED BY <2>1
<1> HIDE DEF tx, k, w
<1>5. Meets(tx, w, <<"u64">>)
  BY <1>1, <1>2, <1>4 DEF Meets
<1>6. Fits(tx)
  BY <1>1, <1>3, <1>5, Fitting
<1> QED BY <1>6 DEF tx

LEMMA FitsPageWithdraw == \A p : Fits(send(buildWithdrawInstruction(p), wallet(p), about(p, <<>>)))
<1> TAKE p
<1> DEFINE tx == send(buildWithdrawInstruction(p), wallet(p), about(p, <<>>))
           k == <<readonly(<<"config">>), writable(<<"player", p>>), writable(<<"pool">>),
                  writable(<<"treasury">>), paying(wallet(p)), readonly(SystemProgram)>>
           w == <<account(<<"config">>), mutable(<<"player", p>>), mutable(<<"pool">>), mutable(<<"treasury">>),
                  payer(wallet(p)), account(SystemProgram)>>
<1>1. /\ tx.payer = wallet(p) /\ tx.instruction.name = "withdraw"
      /\ tx.instruction.args = <<"u64">> /\ tx.about.player = p
  BY DEF buildWithdrawInstruction, encodeInstruction, send, about, Nobody
<1>2. tx.instruction.keys = k
  BY DEF buildWithdrawInstruction, encodeInstruction, send
<1>3. /\ handler("withdraw", tx.about).accounts = w
      /\ handler("withdraw", tx.about).args = <<"u64">>
  BY <1>1 DEF handler, Withdraw
<1>4. Len(k) = Len(w) /\ \A i \in DOMAIN k : Suits(k[i], w[i], wallet(p))
  <2>1. /\ Suits(k[1], w[1], wallet(p)) /\ Suits(k[2], w[2], wallet(p)) /\ Suits(k[3], w[3], wallet(p))
        /\ Suits(k[4], w[4], wallet(p)) /\ Suits(k[5], w[5], wallet(p)) /\ Suits(k[6], w[6], wallet(p))
    BY Serving
  <2> QED BY <2>1
<1> HIDE DEF tx, k, w
<1>5. Meets(tx, w, <<"u64">>)
  BY <1>1, <1>2, <1>4 DEF Meets
<1>6. Fits(tx)
  BY <1>1, <1>3, <1>5, Fitting
<1> QED BY <1>6 DEF tx

LEMMA FitsCreateRoom == \A r : Fits(createRoom(r))
<1> TAKE r
<1> DEFINE tx == createRoom(r)
           k == <<writable(findConfigPda), writable(findRoomPda(r)), writable(findRoomVaultPda(r)),
                  paying(Authority), readonly(SystemProgram)>>
           w == <<mutable(findConfigPda), mutable(findRoomPda(r)), mutable(findRoomVaultPda(r)),
                  payer(Authority), account(SystemProgram)>>
<1>1. /\ tx.payer = Authority /\ tx.instruction.name = "create_room"
      /\ tx.instruction.args = <<"room_id", "u64", "u16">> /\ tx.about.room = r
  BY DEF createRoomInstruction, encodeInstruction, send, createRoom, about, Nobody
<1>2. tx.instruction.keys = k
  BY DEF createRoomInstruction, encodeInstruction, send, createRoom
<1>3. /\ handler("create_room", tx.about).accounts = w
      /\ handler("create_room", tx.about).args = <<"room_id", "u64", "u16">>
  BY <1>1 DEF handler, CreateRoom, roomAt, vaultAt, findConfigPda, findRoomPda, findRoomVaultPda
<1>4. Len(k) = Len(w) /\ \A i \in DOMAIN k : Suits(k[i], w[i], Authority)
  <2>1. /\ Suits(k[1], w[1], Authority) /\ Suits(k[2], w[2], Authority) /\ Suits(k[3], w[3], Authority)
        /\ Suits(k[4], w[4], Authority) /\ Suits(k[5], w[5], Authority)
    BY Serving
  <2> QED BY <2>1
<1> HIDE DEF tx, k, w
<1>5. Meets(tx, w, <<"room_id", "u64", "u16">>)
  BY <1>1, <1>2, <1>4 DEF Meets
<1>6. Fits(tx)
  BY <1>1, <1>3, <1>5, Fitting
<1> QED BY <1>6 DEF tx

LEMMA FitsJoinRoom == \A p, r : Fits(send(createJoinRoomInstruction(p, r), wallet(p), about(p, r)))
<1> TAKE p, r
<1> DEFINE tx == send(createJoinRoomInstruction(p, r), wallet(p), about(p, r))
           k == <<readonly(findConfigPda), writable(findRoomPda(r)),
                  writable(findRoomPlayerPda(findRoomPda(r), p)), writable(findPlayerPda(p)), paying(wallet(p)),
                  readonly(SystemProgram)>>
           w == <<account(findConfigPda), mutable(findRoomPda(r)),
                  mutable(findRoomPlayerPda(findRoomPda(r), p)), mutable(findPlayerPda(p)), payer(wallet(p)),
                  account(SystemProgram)>>
<1>1. /\ tx.payer = wallet(p) /\ tx.instruction.name = "join_room"
      /\ tx.instruction.args = <<>> /\ tx.about.player = p /\ tx.about.room = r
  BY DEF createJoinRoomInstruction, encodeInstruction, send, about, Nobody
<1>2. tx.instruction.keys = k
  BY DEF createJoinRoomInstruction, encodeInstruction, send
<1>3. /\ handler("join_room", tx.about).accounts = w
      /\ handler("join_room", tx.about).args = <<>>
  BY <1>1 DEF handler, JoinRoom, roomAt, seatAt, findConfigPda, findPlayerPda, findRoomPda, findRoomPlayerPda
<1>4. Len(k) = Len(w) /\ \A i \in DOMAIN k : Suits(k[i], w[i], wallet(p))
  <2>1. /\ Suits(k[1], w[1], wallet(p)) /\ Suits(k[2], w[2], wallet(p)) /\ Suits(k[3], w[3], wallet(p))
        /\ Suits(k[4], w[4], wallet(p)) /\ Suits(k[5], w[5], wallet(p)) /\ Suits(k[6], w[6], wallet(p))
    BY Serving
  <2> QED BY <2>1
<1> HIDE DEF tx, k, w
<1>5. Meets(tx, w, <<>>)
  BY <1>1, <1>2, <1>4 DEF Meets
<1>6. Fits(tx)
  BY <1>1, <1>3, <1>5, Fitting
<1> QED BY <1>6 DEF tx

LEMMA FitsLockEntryFee == \A p, r : Fits(send(createLockEntryFeeInstruction(p, r), wallet(p), about(p, r)))
<1> TAKE p, r
<1> DEFINE tx == send(createLockEntryFeeInstruction(p, r), wallet(p), about(p, r))
           k == <<readonly(findConfigPda), writable(findRoomPda(r)),
                  writable(findRoomPlayerPda(findRoomPda(r), p)), writable(findPlayerPda(p)),
                  writable(findPoolPda), writable(findRoomVaultPda(r)), signer(wallet(p)),
                  readonly(SystemProgram)>>
           w == <<account(findConfigPda), mutable(findRoomPda(r)),
                  mutable(findRoomPlayerPda(findRoomPda(r), p)), mutable(findPlayerPda(p)),
                  mutable(findPoolPda), mutable(findRoomVaultPda(r)), Signer(wallet(p)), account(SystemProgram)>>
<1>1. /\ tx.payer = wallet(p) /\ tx.instruction.name = "lock_entry_fee"
      /\ tx.instruction.args = <<>> /\ tx.about.player = p /\ tx.about.room = r
  BY DEF createLockEntryFeeInstruction, encodeInstruction, send, about, Nobody
<1>2. tx.instruction.keys = k
  BY DEF createLockEntryFeeInstruction, encodeInstruction, send
<1>3. /\ handler("lock_entry_fee", tx.about).accounts = w
      /\ handler("lock_entry_fee", tx.about).args = <<>>
  BY <1>1 DEF handler, LockEntryFee, roomAt, seatAt, vaultAt, findConfigPda, findPoolPda, findPlayerPda, findRoomPda, findRoomVaultPda, findRoomPlayerPda
<1>4. Len(k) = Len(w) /\ \A i \in DOMAIN k : Suits(k[i], w[i], wallet(p))
  <2>1. /\ Suits(k[1], w[1], wallet(p)) /\ Suits(k[2], w[2], wallet(p)) /\ Suits(k[3], w[3], wallet(p))
        /\ Suits(k[4], w[4], wallet(p)) /\ Suits(k[5], w[5], wallet(p)) /\ Suits(k[6], w[6], wallet(p))
        /\ Suits(k[7], w[7], wallet(p)) /\ Suits(k[8], w[8], wallet(p))
    BY Serving
  <2> QED BY <2>1
<1> HIDE DEF tx, k, w
<1>5. Meets(tx, w, <<>>)
  BY <1>1, <1>2, <1>4 DEF Meets
<1>6. Fits(tx)
  BY <1>1, <1>3, <1>5, Fitting
<1> QED BY <1>6 DEF tx

LEMMA FitsEnterRoom == \A p, r : Fits(buildEnterRoomInstruction(p, r))
<1> TAKE p, r
<1> DEFINE tx == buildEnterRoomInstruction(p, r)
           k == <<readonly(findConfigPda), writable(findRoomPda(r)),
                  writable(findRoomPlayerPda(findRoomPda(r), p)), writable(findRoomVaultPda(r)),
                  signer(wallet(p)), readonly(SystemProgram)>>
           w == <<account(findConfigPda), mutable(findRoomPda(r)),
                  mutable(findRoomPlayerPda(findRoomPda(r), p)), mutable(findRoomVaultPda(r)), payer(wallet(p)),
                  account(SystemProgram)>>
<1>1. /\ tx.payer = wallet(p) /\ tx.instruction.name = "enter_room"
      /\ tx.instruction.args = <<>> /\ tx.about.player = p /\ tx.about.room = r
  BY DEF createEnterRoomInstruction, encodeInstruction, send, buildEnterRoomInstruction, about, Nobody
<1>2. tx.instruction.keys = k
  BY DEF createEnterRoomInstruction, encodeInstruction, send, buildEnterRoomInstruction
<1>3. /\ handler("enter_room", tx.about).accounts = w
      /\ handler("enter_room", tx.about).args = <<>>
  BY <1>1 DEF handler, EnterRoom, roomAt, seatAt, vaultAt, findConfigPda, findRoomPda, findRoomVaultPda, findRoomPlayerPda
<1>4. Len(k) = Len(w) /\ \A i \in DOMAIN k : Suits(k[i], w[i], wallet(p))
  <2>1. /\ Suits(k[1], w[1], wallet(p)) /\ Suits(k[2], w[2], wallet(p)) /\ Suits(k[3], w[3], wallet(p))
        /\ Suits(k[4], w[4], wallet(p)) /\ Suits(k[5], w[5], wallet(p)) /\ Suits(k[6], w[6], wallet(p))
    BY Serving
  <2> QED BY <2>1
<1> HIDE DEF tx, k, w
<1>5. Meets(tx, w, <<>>)
  BY <1>1, <1>2, <1>4 DEF Meets
<1>6. Fits(tx)
  BY <1>1, <1>3, <1>5, Fitting
<1> QED BY <1>6 DEF tx

LEMMA FitsStartRoom == \A r : Fits(startRoom(r))
<1> TAKE r
<1> DEFINE tx == startRoom(r)
           k == <<readonly(findConfigPda), writable(findRoomPda(r)), signer(Authority)>>
           w == <<account(findConfigPda), mutable(findRoomPda(r)), Signer(Authority)>>
<1>1. /\ tx.payer = Authority /\ tx.instruction.name = "start_room"
      /\ tx.instruction.args = <<>> /\ tx.about.room = r
  BY DEF createStartRoomInstruction, encodeInstruction, send, startRoom, about, Nobody
<1>2. tx.instruction.keys = k
  BY DEF createStartRoomInstruction, encodeInstruction, send, startRoom
<1>3. /\ handler("start_room", tx.about).accounts = w
      /\ handler("start_room", tx.about).args = <<>>
  BY <1>1 DEF handler, StartRoom, roomAt, findConfigPda, findRoomPda
<1>4. Len(k) = Len(w) /\ \A i \in DOMAIN k : Suits(k[i], w[i], Authority)
  <2>1. /\ Suits(k[1], w[1], Authority) /\ Suits(k[2], w[2], Authority) /\ Suits(k[3], w[3], Authority)
    BY Serving
  <2> QED BY <2>1
<1> HIDE DEF tx, k, w
<1>5. Meets(tx, w, <<>>)
  BY <1>1, <1>2, <1>4 DEF Meets
<1>6. Fits(tx)
  BY <1>1, <1>3, <1>5, Fitting
<1> QED BY <1>6 DEF tx

LEMMA FitsUnlockPrize == \A r : Fits(unlockPrize(r))
<1> TAKE r
<1> DEFINE tx == unlockPrize(r)
           k == <<readonly(findConfigPda), writable(findRoomPda(r)), signer(Authority)>>
           w == <<account(findConfigPda), mutable(findRoomPda(r)), Signer(Authority)>>
<1>1. /\ tx.payer = Authority /\ tx.instruction.name = "unlock_prize"
      /\ tx.instruction.args = <<>> /\ tx.about.room = r
  BY DEF createUnlockPrizeInstruction, encodeInstruction, send, unlockPrize, about, Nobody
<1>2. tx.instruction.keys = k
  BY DEF createUnlockPrizeInstruction, encodeInstruction, send, unlockPrize
<1>3. /\ handler("unlock_prize", tx.about).accounts = w
      /\ handler("unlock_prize", tx.about).args = <<>>
  BY <1>1 DEF handler, UnlockPrize, roomAt, findConfigPda, findRoomPda
<1>4. Len(k) = Len(w) /\ \A i \in DOMAIN k : Suits(k[i], w[i], Authority)
  <2>1. /\ Suits(k[1], w[1], Authority) /\ Suits(k[2], w[2], Authority) /\ Suits(k[3], w[3], Authority)
    BY Serving
  <2> QED BY <2>1
<1> HIDE DEF tx, k, w
<1>5. Meets(tx, w, <<>>)
  BY <1>1, <1>2, <1>4 DEF Meets
<1>6. Fits(tx)
  BY <1>1, <1>3, <1>5, Fitting
<1> QED BY <1>6 DEF tx

LEMMA FitsCancelRoom == \A r : Fits(cancelRoom(r))
<1> TAKE r
<1> DEFINE tx == cancelRoom(r)
           k == <<readonly(findConfigPda), writable(findRoomPda(r)), signer(Authority)>>
           w == <<account(findConfigPda), mutable(findRoomPda(r)), Signer(Authority)>>
<1>1. /\ tx.payer = Authority /\ tx.instruction.name = "cancel_room"
      /\ tx.instruction.args = <<>> /\ tx.about.room = r
  BY DEF createCancelRoomInstruction, encodeInstruction, send, cancelRoom, about, Nobody
<1>2. tx.instruction.keys = k
  BY DEF createCancelRoomInstruction, encodeInstruction, send, cancelRoom
<1>3. /\ handler("cancel_room", tx.about).accounts = w
      /\ handler("cancel_room", tx.about).args = <<>>
  BY <1>1 DEF handler, CancelRoom, roomAt, findConfigPda, findRoomPda
<1>4. Len(k) = Len(w) /\ \A i \in DOMAIN k : Suits(k[i], w[i], Authority)
  <2>1. /\ Suits(k[1], w[1], Authority) /\ Suits(k[2], w[2], Authority) /\ Suits(k[3], w[3], Authority)
    BY Serving
  <2> QED BY <2>1
<1> HIDE DEF tx, k, w
<1>5. Meets(tx, w, <<>>)
  BY <1>1, <1>2, <1>4 DEF Meets
<1>6. Fits(tx)
  BY <1>1, <1>3, <1>5, Fitting
<1> QED BY <1>6 DEF tx

LEMMA FitsClaimRefund == \A p, r : Fits(claimRefundFor(p, r))
<1> TAKE p, r
<1> DEFINE tx == claimRefundFor(p, r)
           k == <<readonly(findConfigPda), writable(findRoomPda(r)),
                  writable(findRoomPlayerPda(findRoomPda(r), p)), writable(findPlayerPda(p)),
                  writable(findRoomVaultPda(r)), writable(findPoolPda), readonly(wallet(p)), paying(Authority),
                  readonly(SystemProgram)>>
           w == <<account(findConfigPda), mutable(findRoomPda(r)),
                  mutable(findRoomPlayerPda(findRoomPda(r), p)), mutable(findPlayerPda(p)),
                  mutable(findRoomVaultPda(r)), mutable(findPoolPda), account(wallet(p)), payer(Authority),
                  account(SystemProgram)>>
<1>1. /\ tx.payer = Authority /\ tx.instruction.name = "claim_refund"
      /\ tx.instruction.args = <<>> /\ tx.about.player = p /\ tx.about.room = r /\ tx.about.claimant = Authority
  BY DEF createClaimRefundInstruction, encodeInstruction, send, claimRefundFor, about, Nobody
<1>2. tx.instruction.keys = k
  BY DEF createClaimRefundInstruction, encodeInstruction, send, claimRefundFor
<1>3. /\ handler("claim_refund", tx.about).accounts = w
      /\ handler("claim_refund", tx.about).args = <<>>
  BY <1>1 DEF handler, ClaimRefund, roomAt, seatAt, vaultAt, findConfigPda, findPoolPda, findPlayerPda, findRoomPda, findRoomVaultPda, findRoomPlayerPda
<1>4. Len(k) = Len(w) /\ \A i \in DOMAIN k : Suits(k[i], w[i], Authority)
  <2>1. /\ Suits(k[1], w[1], Authority) /\ Suits(k[2], w[2], Authority) /\ Suits(k[3], w[3], Authority)
        /\ Suits(k[4], w[4], Authority) /\ Suits(k[5], w[5], Authority) /\ Suits(k[6], w[6], Authority)
        /\ Suits(k[7], w[7], Authority) /\ Suits(k[8], w[8], Authority) /\ Suits(k[9], w[9], Authority)
    BY Serving
  <2> QED BY <2>1
<1> HIDE DEF tx, k, w
<1>5. Meets(tx, w, <<>>)
  BY <1>1, <1>2, <1>4 DEF Meets
<1>6. Fits(tx)
  BY <1>1, <1>3, <1>5, Fitting
<1> QED BY <1>6 DEF tx

LEMMA FitsSettleToWinner == \A p, r, to : Fits(settleToWinner(p, r, to))
<1> TAKE p, r, to
<1> DEFINE tx == settleToWinner(p, r, to)
           k == <<readonly(findConfigPda), writable(findRoomPda(r)), writable(findRoomVaultPda(r)),
                  writable(findRoomPlayerPda(findRoomPda(r), p)), writable(wallet(p)), writable(to),
                  signer(Authority), readonly(SystemProgram)>>
           w == <<account(findConfigPda), mutable(findRoomPda(r)), mutable(findRoomVaultPda(r)),
                  mutable(findRoomPlayerPda(findRoomPda(r), p)), mutable(wallet(p)), mutable(to),
                  Signer(Authority), account(SystemProgram)>>
<1>1. /\ tx.payer = Authority /\ tx.instruction.name = "settle_to_winner"
      /\ tx.instruction.args = <<>> /\ tx.about.player = p /\ tx.about.room = r /\ tx.about.fee = to
  BY DEF createSettleToWinnerInstruction, encodeInstruction, send, settleToWinner, about, Nobody
<1>2. tx.instruction.keys = k
  BY DEF createSettleToWinnerInstruction, encodeInstruction, send, settleToWinner
<1>3. to = feeDestination => /\ handler("settle_to_winner", tx.about).accounts = w
                              /\ handler("settle_to_winner", tx.about).args = <<>>
  BY <1>1 DEF handler, SettleToWinner, roomAt, seatAt, vaultAt, findConfigPda, findRoomPda, findRoomVaultPda, findRoomPlayerPda
<1>4. Len(k) = Len(w) /\ \A i \in DOMAIN k : Suits(k[i], w[i], Authority)
  <2>1. /\ Suits(k[1], w[1], Authority) /\ Suits(k[2], w[2], Authority) /\ Suits(k[3], w[3], Authority)
        /\ Suits(k[4], w[4], Authority) /\ Suits(k[5], w[5], Authority) /\ Suits(k[6], w[6], Authority)
        /\ Suits(k[7], w[7], Authority) /\ Suits(k[8], w[8], Authority)
    BY Serving
  <2> QED BY <2>1
<1> HIDE DEF tx, k, w
<1>5. Meets(tx, w, <<>>)
  BY <1>1, <1>2, <1>4 DEF Meets
<1>6. Fits(tx)
  BY <1>1, <1>3, <1>5, Fitting
<1> QED BY <1>6 DEF tx

LEMMA FitsCloseRoom == \A r : Fits(closeRoom(r))
<1> TAKE r
<1> DEFINE tx == closeRoom(r)
           k == <<readonly(findConfigPda), writable(findRoomPda(r)), writable(findRoomVaultPda(r)),
                  writable(Authority)>>
           w == <<account(findConfigPda), mutable(findRoomPda(r)), mutable(findRoomVaultPda(r)),
                  mutable(Authority)>>
<1>1. /\ tx.payer = Authority /\ tx.instruction.name = "close_room"
      /\ tx.instruction.args = <<>> /\ tx.about.room = r
  BY DEF createCloseRoomInstruction, encodeInstruction, send, closeRoom, about, Nobody
<1>2. tx.instruction.keys = k
  BY DEF createCloseRoomInstruction, encodeInstruction, send, closeRoom
<1>3. /\ handler("close_room", tx.about).accounts = w
      /\ handler("close_room", tx.about).args = <<>>
  BY <1>1 DEF handler, CloseRoom, roomAt, vaultAt, findConfigPda, findRoomPda, findRoomVaultPda
<1>4. Len(k) = Len(w) /\ \A i \in DOMAIN k : Suits(k[i], w[i], Authority)
  <2>1. /\ Suits(k[1], w[1], Authority) /\ Suits(k[2], w[2], Authority) /\ Suits(k[3], w[3], Authority)
        /\ Suits(k[4], w[4], Authority)
    BY Serving
  <2> QED BY <2>1
<1> HIDE DEF tx, k, w
<1>5. Meets(tx, w, <<>>)
  BY <1>1, <1>2, <1>4 DEF Meets
<1>6. Fits(tx)
  BY <1>1, <1>3, <1>5, Fitting
<1> QED BY <1>6 DEF tx

LEMMA FitsCloseRoomPlayer == \A p, r : Fits(send(createCloseRoomPlayerInstruction(p, r), Authority, about(p, r)))
<1> TAKE p, r
<1> DEFINE tx == send(createCloseRoomPlayerInstruction(p, r), Authority, about(p, r))
           k == <<readonly(findRoomPda(r)), writable(findRoomPlayerPda(findRoomPda(r), p)), writable(wallet(p))>>
           w == <<account(findRoomPda(r)), mutable(findRoomPlayerPda(findRoomPda(r), p)), mutable(wallet(p))>>
<1>1. /\ tx.payer = Authority /\ tx.instruction.name = "close_room_player"
      /\ tx.instruction.args = <<>> /\ tx.about.player = p /\ tx.about.room = r
  BY DEF createCloseRoomPlayerInstruction, encodeInstruction, send, about, Nobody
<1>2. tx.instruction.keys = k
  BY DEF createCloseRoomPlayerInstruction, encodeInstruction, send
<1>3. /\ handler("close_room_player", tx.about).accounts = w
      /\ handler("close_room_player", tx.about).args = <<>>
  BY <1>1 DEF handler, CloseRoomPlayer, roomAt, seatAt, findRoomPda, findRoomPlayerPda
<1>4. Len(k) = Len(w) /\ \A i \in DOMAIN k : Suits(k[i], w[i], Authority)
  <2>1. /\ Suits(k[1], w[1], Authority) /\ Suits(k[2], w[2], Authority) /\ Suits(k[3], w[3], Authority)
    BY Serving
  <2> QED BY <2>1
<1> HIDE DEF tx, k, w
<1>5. Meets(tx, w, <<>>)
  BY <1>1, <1>2, <1>4 DEF Meets
<1>6. Fits(tx)
  BY <1>1, <1>3, <1>5, Fitting
<1> QED BY <1>6 DEF tx

(* A payout to several: the pairs of its winners follow the seven accounts. *)
LEMMA FitsDistributeWinnings ==
  ASSUME NEW r, NEW winners \in Winners
  PROVE  Fits(distributeWinnings(r, winners))
<1> DEFINE tx == distributeWinnings(r, winners)
           n == Len(winners)
           k7 == <<readonly(findConfigPda), writable(findRoomPda(r)), writable(findRoomVaultPda(r)),
                   writable(findPoolPda), writable(findTreasuryPda), signer(Authority), readonly(SystemProgram)>>
           w7 == <<account(findConfigPda), mutable(findRoomPda(r)), mutable(findRoomVaultPda(r)),
                   mutable(findPoolPda), mutable(findTreasuryPda), Signer(Authority), account(SystemProgram)>>
           at(i) == IF i % 2 = 1 THEN findRoomPlayerPda(findRoomPda(r), winners[(i + 1) \div 2])
                    ELSE findPlayerPda(winners[i \div 2])
           ks == [i \in 1 .. 2 * n |-> writable(at(i))]
           ws == [i \in 1 .. 2 * n |-> mutable(at(i))]
<1>1. /\ tx.payer = Authority /\ tx.instruction.name = "distribute_winnings"
      /\ tx.instruction.args = <<"u64[]">> /\ tx.about.room = r /\ tx.about.winners = winners
      /\ tx.about.fee = findTreasuryPda
  BY DEF createDistributeWinningsInstruction, encodeInstruction, send, distributeWinnings, about, Nobody
<1>2. tx.instruction.keys = k7 \o ks
  <2>1. tx.instruction.keys = k7 \o [i \in 1 .. 2 * n |->
          IF i % 2 = 1 THEN writable(findRoomPlayerPda(findRoomPda(r), winners[(i + 1) \div 2]))
          ELSE writable(findPlayerPda(winners[i \div 2]))]
    BY DEF createDistributeWinningsInstruction, encodeInstruction, send, distributeWinnings
  <2>2. ks = [i \in 1 .. 2 * n |->
          IF i % 2 = 1 THEN writable(findRoomPlayerPda(findRoomPda(r), winners[(i + 1) \div 2]))
          ELSE writable(findPlayerPda(winners[i \div 2]))]
    OBVIOUS
  <2> QED BY ONLY <2>1, <2>2
<1>3. findTreasuryPda = feeDestination => /\ handler("distribute_winnings", tx.about).accounts = w7 \o ws
                                          /\ handler("distribute_winnings", tx.about).args = <<"u64[]">>
  <2>1. /\ handler("distribute_winnings", tx.about).accounts = DistributeWinnings(tx.about)
        /\ handler("distribute_winnings", tx.about).args = <<"u64[]">>
    BY DEF handler
  <2>2. ws = [i \in 1 .. 2 * n |->
          IF i % 2 = 1 THEN mutable(findRoomPlayerPda(findRoomPda(r), winners[(i + 1) \div 2]))
          ELSE mutable(findPlayerPda(winners[i \div 2]))]
    OBVIOUS
  <2>3. findTreasuryPda = feeDestination =>
          DistributeWinnings(tx.about) = w7 \o [i \in 1 .. 2 * n |->
            IF i % 2 = 1 THEN mutable(findRoomPlayerPda(findRoomPda(r), winners[(i + 1) \div 2]))
            ELSE mutable(findPlayerPda(winners[i \div 2]))]
    <3> HIDE DEF tx
    <3> QED BY <1>1 DEF DistributeWinnings, roomAt, seatAt, vaultAt, findConfigPda, findPoolPda, findPlayerPda,
                        findRoomPda, findRoomVaultPda, findRoomPlayerPda
  <2> QED BY ONLY <2>1, <2>2, <2>3
<1>4. n \in Nat
  BY DEF Winners
<1> DEFINE Keys == {k7[i] : i \in 1 .. 7} \cup {ks[i] : i \in 1 .. 2 * n}
           Wants == {w7[i] : i \in 1 .. 7} \cup {ws[i] : i \in 1 .. 2 * n}
           k == k7 \o ks
           w == w7 \o ws
<1>5. /\ k7 \in Seq(Keys) /\ Len(k7) = 7 /\ DOMAIN k7 = 1 .. 7
      /\ w7 \in Seq(Wants) /\ Len(w7) = 7 /\ DOMAIN w7 = 1 .. 7
  <2>1. k7 = [i \in 1 .. 7 |-> k7[i]] /\ w7 = [i \in 1 .. 7 |-> w7[i]] /\ Len(k7) = 7 /\ Len(w7) = 7
    OBVIOUS
  <2> HIDE DEF k7, w7, ks, ws
  <2> QED BY <2>1
<1>6. /\ ks \in Seq(Keys) /\ Len(ks) = 2 * n /\ ws \in Seq(Wants) /\ Len(ws) = 2 * n
  <2> HIDE DEF k7, w7, at
  <2> QED BY <1>4
<1>7. \A i \in 1 .. 7 : Suits(k7[i], w7[i], Authority)
  <2>1. /\ Suits(k7[1], w7[1], Authority) /\ Suits(k7[2], w7[2], Authority) /\ Suits(k7[3], w7[3], Authority)
        /\ Suits(k7[4], w7[4], Authority) /\ Suits(k7[5], w7[5], Authority) /\ Suits(k7[6], w7[6], Authority)
        /\ Suits(k7[7], w7[7], Authority)
    BY Serving
  <2> QED BY <2>1
<1>8. \A i \in 1 .. 2 * n : Suits(ks[i], ws[i], Authority)
  <2> HIDE DEF at
  <2> QED BY Serving
<1>9. Len(k) = Len(w) /\ \A i \in DOMAIN k : Suits(k[i], w[i], Authority)
  <2> HIDE DEF k7, w7, ks, ws, Keys, Wants
  <2>1. /\ k \in Seq(Keys) /\ Len(k) = 7 + 2 * n
        /\ \A i \in 1 .. 7 + 2 * n : k[i] = IF i <= 7 THEN k7[i] ELSE ks[i - 7]
    <3>1. k7 \in Seq(Keys) /\ ks \in Seq(Keys)
      BY ONLY <1>5, <1>6
    <3>2. /\ k \in Seq(Keys) /\ Len(k) = Len(k7) + Len(ks)
          /\ \A i \in 1 .. Len(k7) + Len(ks) : k[i] = IF i <= Len(k7) THEN k7[i] ELSE ks[i - Len(k7)]
      BY ONLY <3>1, ConcatProperties
    <3> QED BY ONLY <1>5, <1>6, <3>2
  <2>2. /\ Len(w) = 7 + 2 * n
        /\ \A i \in 1 .. 7 + 2 * n : w[i] = IF i <= 7 THEN w7[i] ELSE ws[i - 7]
    <3>1. w7 \in Seq(Wants) /\ ws \in Seq(Wants)
      BY ONLY <1>5, <1>6
    <3>2. /\ Len(w) = Len(w7) + Len(ws)
          /\ \A i \in 1 .. Len(w7) + Len(ws) : w[i] = IF i <= Len(w7) THEN w7[i] ELSE ws[i - Len(w7)]
      BY ONLY <3>1, ConcatProperties
    <3> QED BY ONLY <1>5, <1>6, <3>2
  <2>3. DOMAIN k = 1 .. 7 + 2 * n
    BY ONLY <2>1
  <2> HIDE DEF k, w
  <2>4. ASSUME NEW i \in 1 .. 7 + 2 * n
        PROVE  Suits(k[i], w[i], Authority)
    <3>1. CASE i <= 7
      <4>1. k[i] = k7[i] /\ w[i] = w7[i] /\ i \in 1 .. 7
        BY ONLY <1>4, <2>1, <2>2, <2>4, <3>1
      <4> QED BY ONLY <1>7, <4>1
    <3>2. CASE ~(i <= 7)
      <4>1. k[i] = ks[i - 7] /\ w[i] = ws[i - 7] /\ i - 7 \in 1 .. 2 * n
        BY ONLY <1>4, <2>1, <2>2, <2>4, <3>2
      <4> QED BY ONLY <1>8, <4>1
    <3> QED BY <3>1, <3>2
  <2> QED BY ONLY <2>1, <2>2, <2>3, <2>4
<1> HIDE DEF tx, k, w
<1>10. findTreasuryPda = feeDestination => Meets(tx, w, <<"u64[]">>)
  BY <1>1, <1>2, <1>9 DEF Meets, k
<1>11. Fits(tx)
  BY <1>1, <1>3, <1>10, Fitting DEF k, w
<1> QED BY <1>11 DEF tx

(***************************************************************************)
(* Whatever is sent is one of the calls of the client.                     *)
(***************************************************************************)
LEMMA OwnCallsFit == \A tx \in OwnCalls : Fits(tx)
<1> SUFFICES ASSUME NEW tx \in OwnCalls PROVE Fits(tx)
  OBVIOUS
<1>1. CASE tx \in {initializeProgram, send(createUpdateConfigInstruction, AdminWallet, Nobody),
                   withdrawTreasury(AdminWallet)}
  BY ONLY <1>1, FitsInitialize, FitsUpdateConfig, FitsWithdrawTreasury
<1>2. CASE \E p \in Travellers : tx \in {send(createDepositInstruction(p), wallet(p), about(p, <<>>)),
                                         send(createWithdrawInstruction(p), wallet(p), about(p, <<>>)),
                                         send(buildDepositInstruction(p), wallet(p), about(p, <<>>)),
                                         send(buildWithdrawInstruction(p), wallet(p), about(p, <<>>))}
  BY ONLY <1>2, FitsDeposit, FitsWithdraw, FitsPageDeposit, FitsPageWithdraw
<1>3. CASE \E p \in Travellers, r \in RoomIds :
             tx \in {buildEnterRoomInstruction(p, r),
                     send(createJoinRoomInstruction(p, r), wallet(p), about(p, r)),
                     send(createLockEntryFeeInstruction(p, r), wallet(p), about(p, r)),
                     send(createCloseRoomPlayerInstruction(p, r), Authority, about(p, r))}
  BY ONLY <1>3, FitsEnterRoom, FitsJoinRoom, FitsLockEntryFee, FitsCloseRoomPlayer
<1>4. \/ tx \in {initializeProgram, send(createUpdateConfigInstruction, AdminWallet, Nobody),
                 withdrawTreasury(AdminWallet)}
      \/ tx \in UNION {{send(createDepositInstruction(p), wallet(p), about(p, <<>>)),
                        send(createWithdrawInstruction(p), wallet(p), about(p, <<>>)),
                        send(buildDepositInstruction(p), wallet(p), about(p, <<>>)),
                        send(buildWithdrawInstruction(p), wallet(p), about(p, <<>>))} : p \in Travellers}
      \/ tx \in UNION {{buildEnterRoomInstruction(p, r),
                        send(createJoinRoomInstruction(p, r), wallet(p), about(p, r)),
                        send(createLockEntryFeeInstruction(p, r), wallet(p), about(p, r)),
                        send(createCloseRoomPlayerInstruction(p, r), Authority, about(p, r))}
                       : p \in Travellers, r \in RoomIds}
  BY DEF OwnCalls
<1> QED BY ONLY <1>1, <1>2, <1>3, <1>4

LEMMA AuthorityCallsFit == \A tx \in requireSettlementAuthority : Fits(tx)
<1> SUFFICES ASSUME NEW tx \in requireSettlementAuthority PROVE Fits(tx)
  OBVIOUS
<1>1. CASE \E r \in RoomIds : tx \in {createRoom(r), startRoom(r), closeRoom(r), unlockPrize(r), cancelRoom(r)}
  BY ONLY <1>1, FitsCreateRoom, FitsStartRoom, FitsCloseRoom, FitsUnlockPrize, FitsCancelRoom
<1>2. CASE \E p \in Travellers, r \in RoomIds, to \in FeeAccounts : tx = settleToWinner(p, r, to)
  BY ONLY <1>2, FitsSettleToWinner
<1>3. CASE \E p \in Travellers, r \in RoomIds : tx = claimRefundFor(p, r)
  BY ONLY <1>3, FitsClaimRefund
<1>4. CASE \E r \in RoomIds, w \in Winners : tx = distributeWinnings(r, w)
  BY ONLY <1>4, FitsDistributeWinnings
<1>5. \/ tx \in UNION {{createRoom(r), startRoom(r), closeRoom(r), unlockPrize(r), cancelRoom(r)} : r \in RoomIds}
      \/ tx \in {settleToWinner(p, r, to) : p \in Travellers, r \in RoomIds, to \in FeeAccounts}
      \/ tx \in {claimRefundFor(p, r) : p \in Travellers, r \in RoomIds}
      \/ tx \in {distributeWinnings(r, w) : r \in RoomIds, w \in Winners}
  BY DEF requireSettlementAuthority
<1> QED BY ONLY <1>1, <1>2, <1>3, <1>4, <1>5

(* The call sent last is one the client makes.                             *)
CallsInv == calling \in OwnCalls \cup requireSettlementAuthority

(* Every call the client builds is one its handler takes: the accounts at  *)
(* their positions, with the privileges and arguments it wants, however    *)
(* many winners are paid (instructions.ts against the Accounts structs).   *)
THEOREM CallsFit == CallSpec => []CallsFitProgram
<1>1. CallInit => CallsInv
  BY DEF CallInit, CallsInv, OwnCalls
<1>2. CallsInv /\ [CallNext]_callVars => CallsInv'
  <2> SUFFICES ASSUME CallsInv, [CallNext]_callVars PROVE CallsInv'
    OBVIOUS
  <2>1. OwnCalls' = OwnCalls /\ requireSettlementAuthority' = requireSettlementAuthority
    OBVIOUS
  <2> QED BY <2>1 DEF CallsInv, CallNext, NextCall, FeeDestinationMoves, callVars
<1>3. CallsInv => CallsFitProgram
  <2>1. CallsInv => Fits(calling)
    BY OwnCallsFit, AuthorityCallsFit DEF CallsInv
  <2> QED BY <2>1 DEF Fits, CallsFitProgram
<1> QED BY <1>1, <1>2, <1>3, PTL DEF CallSpec
=============================================================================
