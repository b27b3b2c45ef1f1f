----------------------------- MODULE LobbyProofs -----------------------------
(***************************************************************************)
(* Proofs about LobbyService, for any players, tiers, replicas and jobs:   *)
(* the inductive invariant LInv and LobbyInv, which follows from it.       *)
(***************************************************************************)
EXTENDS LobbyService, FiniteSetTheorems, TLAPS

(***************************************************************************)
(* The inductive invariant.                                                *)
(***************************************************************************)

Quorum(s, t) == Cardinality(s.players) >= MinPlayers[t]

(* A state that the lobby of tier t has been in, or a task is about to     *)
(* write: a scheduled lobby never counts down, as settle leaves it alone.  *)
LobbyOK(s, t) ==
  /\ s \in LobbyState
  /\ s.status = "countdown" => ~s.scheduled /\ Quorum(s, t) /\ s.left \in 0 .. Countdown[t]

(* What a task knows at each of its awaits.                                *)
TaskOK(k) ==
  /\ k \in Task
  /\ k.pc \notin {"idle", "unindex", "tickets"} => k.tier \in Tiers
  /\ k.pc # "idle" => k.event \in LobbyEvent
  /\ k.pc \in {"find", "index"} => k.event.type = "join"
  /\ k.pc \in {"get", "check"} => k.event.type = "ready"
  /\ k.pc \in {"unindex", "tickets"} => k.event.type = "leave"
  /\ k.pc \in {"check", "mark"} => k.gameId \in Games
  /\ k.pc = "save" => LobbyOK(k.next, k.tier) /\ (k.launching => Quorum(k.next, k.tier))
  /\ k.pc \in {"launch", "mark", "failed", "clear", "reset"} => k.next \in LobbyState
  /\ k.pc = "launch" => Quorum(k.next, k.tier)

LInv ==
  /\ TypeOK
  /\ \A t \in Tiers : LobbyOK(lobby[t], t)
  /\ \A x \in Tasks : TaskOK(task[x])
  /\ LaunchHasQuorum

(***************************************************************************)
(* The reducer.                                                            *)
(***************************************************************************)

LEMMA LobbyParts ==
  ASSUME NEW s \in LobbyState
  PROVE  /\ s.status \in LobbyStatus /\ s.players \subseteq Players /\ s.ready \subseteq Players
         /\ s.left \in Nat \cup {Null} /\ s.gameId \in Games \cup {Null}
         /\ s.scheduled \in BOOLEAN /\ s.version \in Nat
         /\ Cardinality(s.players) \in Nat /\ Cardinality(s.ready) \in Nat
<1>1. s.players \subseteq Players /\ s.ready \subseteq Players
  BY DEF LobbyState
<1>2. Cardinality(s.players) \in Nat /\ Cardinality(s.ready) \in Nat
  BY <1>1, TiersAssumption, FS_Subset, FS_CardinalityType
<1>3. QED BY <1>1, <1>2 DEF LobbyState

LEMMA TierParts ==
  ASSUME NEW t \in Tiers
  PROVE  /\ MinPlayers[t] \in Nat \ {0} /\ Countdown[t] \in Nat /\ ReadyCountdown[t] \in Nat
         /\ ReadyCountdown[t] <= Countdown[t]
BY TiersAssumption

(* What a transition may say: nothing new, a state that is right for its   *)
(* tier, or a launch with the minimum of players.                          *)
Right(r, t) ==
  /\ r.changed \in BOOLEAN /\ r.shouldLaunch \in BOOLEAN
  /\ LobbyOK(r.state, t)
  /\ r.shouldLaunch => Quorum(r.state, t)

LEMMA TransitionRight ==
  ASSUME NEW s, NEW t \in Tiers, LobbyOK(s, t), NEW changed \in BOOLEAN, NEW launch \in BOOLEAN,
         launch => Quorum(s, t)
  PROVE  Right(Transition(s, changed, launch), t)
BY DEF Right, Transition

LEMMA UnchangedRight ==
  ASSUME NEW s, NEW t \in Tiers, LobbyOK(s, t), NEW why
  PROVE  Right(unchanged(s, why), t)
BY DEF Right, unchanged

(* The countdown's expiry launches what the re-count keeps.                *)
LEMMA ExpireRight ==
  ASSUME NEW s \in LobbyState, NEW t \in Tiers, Quorum(s, t)
  PROVE  Right(Expire(s, t), t)
<1> DEFINE roster == Kept(s, t)
           rest == s.ready \cap roster
           waits == [s EXCEPT !.players = roster, !.ready = rest, !.left = Null,
                              !.status = "waiting"]
           goes == [s EXCEPT !.players = roster, !.ready = rest, !.left = Null,
                             !.status = "launching"]
<1>1. roster \subseteq Players /\ rest \subseteq Players
  BY LobbyParts DEF Kept
<1> HIDE DEF roster, rest
<1>2. /\ waits \in LobbyState /\ waits.status = "waiting"
      /\ goes \in LobbyState /\ goes.status = "launching" /\ goes.players = roster
  BY <1>1 DEF LobbyState, LobbyStatus
<1>3. LobbyOK(waits, t) /\ LobbyOK(goes, t)
  BY <1>2 DEF LobbyOK
<1>4. CASE t \in PaidTiers /\ Cardinality(s.ready) < MinPlayers[t]
  <2>1. Expire(s, t) = Transition(waits, TRUE, FALSE)
    BY <1>4 DEF Expire, roster, rest
  <2> HIDE DEF waits
  <2>2. QED BY <2>1, <1>3, TransitionRight
<1>5. CASE ~(t \in PaidTiers /\ Cardinality(s.ready) < MinPlayers[t])
  <2>1. Expire(s, t) = Transition(goes, TRUE, TRUE)
    BY <1>5 DEF Expire, roster, rest
  <2>2. Cardinality(roster) >= MinPlayers[t]
    BY <1>5, LobbyParts, TierParts DEF roster, Kept, Quorum
  <2>3. Quorum(goes, t)
    BY <2>2, <1>2 DEF Quorum
  <2> HIDE DEF goes
  <2>4. QED BY <2>1, <2>3, <1>3, TransitionRight
<1>6. QED BY <1>4, <1>5

(* settle, of a roster that may just have changed: only a lobby that       *)
(* counts down must have been right, but for its quorum, to begin with.    *)
LEMMA SettleRight ==
  ASSUME NEW s \in LobbyState, NEW t \in Tiers, NEW mutated \in BOOLEAN,
         s.status = "countdown" => ~s.scheduled /\ s.left \in 0 .. Countdown[t]
  PROVE  Right(settle(s, t, mutated), t)
<1> DEFINE c == CandidateDeadline(s, t)
           few == Cardinality(s.players) < MinPlayers[t]
<1>t. /\ s.status \in LobbyStatus /\ s.scheduled \in BOOLEAN /\ s.left \in Nat \cup {Null}
      /\ Cardinality(s.players) \in Nat /\ MinPlayers[t] \in Nat /\ Countdown[t] \in Nat
      /\ (few <=> ~Quorum(s, t)) /\ (~few <=> Cardinality(s.players) >= MinPlayers[t])
  BY LobbyParts, TierParts DEF Quorum
<1>c. c \in 0 .. Countdown[t] /\ c \in Nat \cup {Null}
  BY TierParts DEF CandidateDeadline
<1> HIDE DEF c
<1>1. CASE s.scheduled
  <2>1. settle(s, t, mutated) = Transition(s, mutated, FALSE)
    BY <1>1 DEF settle
  <2>2. LobbyOK(s, t)
    BY <1>1 DEF LobbyOK
  <2>3. QED BY <2>1, <2>2, TransitionRight
<1>2. CASE ~s.scheduled /\ few
  <2> DEFINE u == [s EXCEPT !.status = "waiting", !.left = Null]
             m == mutated \/ s.status # "waiting" \/ s.left # Null
  <2>1. settle(s, t, mutated) = Transition(u, m, FALSE)
    BY <1>2, <1>t DEF settle
  <2>2. u \in LobbyState /\ u.status = "waiting"
    BY DEF LobbyState, LobbyStatus
  <2>3. LobbyOK(u, t) /\ m \in BOOLEAN
    BY <2>2 DEF LobbyOK
  <2> HIDE DEF u, m
  <2>4. QED BY <2>1, <2>3, TransitionRight
<1>3. CASE ~s.scheduled /\ ~few /\ s.status = "waiting"
  <2> DEFINE u == [s EXCEPT !.status = "countdown", !.left = c]
  <2>1. settle(s, t, mutated) = Transition(u, TRUE, FALSE)
    BY <1>3, <1>t DEF settle, c
  <2>2. /\ u \in LobbyState /\ u.players = s.players /\ u.scheduled = s.scheduled
        /\ u.left = c
    BY <1>c DEF LobbyState, LobbyStatus
  <2>3. LobbyOK(u, t)
    BY <2>2, <1>3, <1>t, <1>c DEF LobbyOK, Quorum
  <2> HIDE DEF u
  <2>4. QED BY <2>1, <2>3, TransitionRight
<1>4. CASE ~s.scheduled /\ ~few /\ s.status = "countdown"
  <2>0. LobbyOK(s, t) /\ Quorum(s, t) /\ s.left \in Nat
    BY <1>4, <1>t DEF LobbyOK
  <2>1. CASE s.left = 0
    <3>1. settle(s, t, mutated) = Expire(s, t)
      BY <1>4, <1>t, <2>1 DEF settle
    <3>2. QED BY <3>1, <2>0, ExpireRight
  <2>2. CASE s.left # 0 /\ c < s.left
    <3> DEFINE u == [s EXCEPT !.left = c]
    <3>1. settle(s, t, mutated) = Transition(u, TRUE, FALSE)
      BY <1>4, <1>t, <2>2 DEF settle, c
    <3>2. /\ u \in LobbyState /\ u.players = s.players /\ u.scheduled = s.scheduled
          /\ u.left = c
      BY <1>c, <1>t DEF LobbyState
    <3>3. LobbyOK(u, t)
      BY <3>2, <1>4, <1>t, <1>c DEF LobbyOK, Quorum
    <3> HIDE DEF u
    <3>4. QED BY <3>1, <3>3, TransitionRight
  <2>3. CASE s.left # 0 /\ ~(c < s.left)
    <3>1. settle(s, t, mutated) = Transition(s, mutated, FALSE)
      BY <1>4, <1>t, <2>3 DEF settle, c
    <3>2. QED BY <3>1, <2>0, TransitionRight
  <2>4. QED BY <2>1, <2>2, <2>3
<1>5. CASE ~s.scheduled /\ ~few /\ s.status = "launching"
  <2>1. settle(s, t, mutated) = Transition(s, mutated, FALSE)
    BY <1>5, <1>t DEF settle
  <2>2. LobbyOK(s, t)
    BY <1>5 DEF LobbyOK
  <2>3. QED BY <2>1, <2>2, TransitionRight
<1>6. QED BY <1>1, <1>2, <1>3, <1>4, <1>5, <1>t DEF LobbyStatus

(* A changed roster, handed to settle.                                     *)
LEMMA RosterRight ==
  ASSUME NEW s, NEW t \in Tiers, LobbyOK(s, t), NEW u \in LobbyState,
         u.status = s.status, u.scheduled = s.scheduled, u.left = s.left
  PROVE  Right(settle(u, t, TRUE), t)
<1>1. u.status = "countdown" => ~u.scheduled /\ u.left \in 0 .. Countdown[t]
  BY DEF LobbyOK
<1>2. QED BY <1>1, SettleRight

(* A lobby that does not count down is right in every tier.                *)
LEMMA NewStateRight ==
  ASSUME NEW t \in Tiers, NEW u \in LobbyState, u.status # "countdown"
  PROVE  Right(Transition(u, TRUE, FALSE), t)
BY TransitionRight DEF LobbyOK

LEMMA ResetState ==
  ASSUME NEW n \in Nat
  PROVE  /\ [emptyLobby EXCEPT !.version = n] \in LobbyState
         /\ [emptyLobby EXCEPT !.version = n].status = "waiting"
BY DEF emptyLobby, LobbyState, LobbyStatus

(* Every event leaves the lobby right for its tier.                        *)
LEMMA ReduceRight ==
  ASSUME NEW s, NEW t \in Tiers, LobbyOK(s, t), NEW e \in LobbyEvent
  PROVE  Right(reduceLobby(s, e, t), t)
<1> DEFINE n == s.version + 1
<1>t. /\ s \in LobbyState /\ s.players \subseteq Players /\ s.ready \subseteq Players
      /\ n \in Nat /\ s.status \in LobbyStatus
  BY LobbyParts DEF LobbyOK
<1> HIDE DEF n
<1>u. ASSUME NEW r, NEW why, r = unchanged(s, why) PROVE Right(r, t)
  BY <1>u, UnchangedRight
<1>1. CASE e.type = "join"
  <2> DEFINE p == e.player
             joined == s.players \cup {p}
             u == [s EXCEPT !.players = joined, !.version = n]
  <2>1. p \in Players /\ reduceLobby(s, e, t) = Join(s, p, t)
    BY <1>1 DEF LobbyEvent, reduceLobby
  <2> HIDE DEF p
  <2>2. joined \subseteq Players
    BY <2>1, <1>t
  <2>3. \/ \E why : Join(s, p, t) = unchanged(s, why)
        \/ Join(s, p, t) = settle(u, t, TRUE)
    BY DEF Join, n
  <2> HIDE DEF joined
  <2>4. /\ u \in LobbyState /\ u.status = s.status /\ u.scheduled = s.scheduled
        /\ u.left = s.left
    BY <2>2, <1>t DEF LobbyState
  <2> HIDE DEF u
  <2>5. Right(settle(u, t, TRUE), t)
    BY <2>4, RosterRight
  <2>6. QED BY <2>1, <2>3, <2>5, <1>u
<1>2. CASE e.type = "leave"
  <2> DEFINE p == e.player
             stay == s.players \ {p}
             ready == s.ready \ {p}
             u == [s EXCEPT !.players = stay, !.ready = ready, !.version = n]
  <2>1. reduceLobby(s, e, t) = Leave(s, p, t)
    BY <1>2 DEF reduceLobby
  <2>2. stay \subseteq Players /\ ready \subseteq Players
    BY <1>t
  <2> HIDE DEF p
  <2>3. \/ \E why : Leave(s, p, t) = unchanged(s, why)
        \/ Leave(s, p, t) = settle(u, t, TRUE)
    BY DEF Leave, n
  <2> HIDE DEF stay, ready
  <2>4. /\ u \in LobbyState /\ u.status = s.status /\ u.scheduled = s.scheduled
        /\ u.left = s.left
    BY <2>2, <1>t DEF LobbyState
  <2> HIDE DEF u
  <2>5. Right(settle(u, t, TRUE), t)
    BY <2>4, RosterRight
  <2>6. QED BY <2>1, <2>3, <2>5, <1>u
<1>3. CASE e.type = "ready"
  <2> DEFINE p == e.player
             flag == e.ready
             ready == IF flag THEN s.ready \cup {p} ELSE s.ready \ {p}
             u == [s EXCEPT !.ready = ready, !.version = n]
  <2>1. p \in Players /\ reduceLobby(s, e, t) = Ready(s, p, flag, t)
    BY <1>3 DEF LobbyEvent, reduceLobby
  <2> HIDE DEF p, flag
  <2>2. ready \subseteq Players
    BY <2>1, <1>t
  <2>3. \/ \E why : Ready(s, p, flag, t) = unchanged(s, why)
        \/ Ready(s, p, flag, t) = settle(u, t, TRUE)
    BY DEF Ready, n
  <2> HIDE DEF ready
  <2>4. /\ u \in LobbyState /\ u.status = s.status /\ u.scheduled = s.scheduled
        /\ u.left = s.left
    BY <2>2, <1>t DEF LobbyState
  <2> HIDE DEF u
  <2>5. Right(settle(u, t, TRUE), t)
    BY <2>4, RosterRight
  <2>6. QED BY <2>1, <2>3, <2>5, <1>u
<1>4. CASE e.type = "tick"
  <2>1. reduceLobby(s, e, t) = settle(s, t, FALSE)
    BY <1>4 DEF reduceLobby
  <2>2. Right(settle(s, t, FALSE), t)
    BY <1>t, SettleRight DEF LobbyOK
  <2>3. QED BY <2>1, <2>2
<1>5. CASE e.type = "open"
  <2> DEFINE g == e.gameId
             f == e.scheduled
             u == [s EXCEPT !.status = "waiting", !.left = Null, !.gameId = g,
                            !.scheduled = f, !.version = n]
  <2>1. /\ reduceLobby(s, e, t) = Transition(u, TRUE, FALSE)
        /\ g \in Games \cup {Null} /\ f \in BOOLEAN
    BY <1>5 DEF LobbyEvent, reduceLobby, Open, n
  <2> HIDE DEF g, f
  <2>2. u \in LobbyState /\ u.status = "waiting"
    BY <2>1, <1>t DEF LobbyState, LobbyStatus
  <2> HIDE DEF u
  <2>3. QED BY <2>1, <2>2, NewStateRight
<1>6. CASE e.type = "close"
  <2> DEFINE u == [s EXCEPT !.status = "launching", !.left = Null, !.version = n]
  <2>1. reduceLobby(s, e, t) = Close(s)
    BY <1>6 DEF reduceLobby
  <2>2. Close(s) = unchanged(s, Null) \/ Close(s) = Transition(u, TRUE, FALSE)
    BY DEF Close, n
  <2>3. u \in LobbyState /\ u.status = "launching"
    BY <1>t DEF LobbyState, LobbyStatus
  <2> HIDE DEF u
  <2>4. QED BY <2>1, <2>2, <2>3, <1>u, NewStateRight
<1>7. CASE e.type = "launched"
  <2> DEFINE g == e.gameId
             u == [s EXCEPT !.status = "launching", !.gameId = g, !.left = Null, !.version = n]
  <2>1. reduceLobby(s, e, t) = Transition(u, TRUE, FALSE) /\ g \in Games
    BY <1>7 DEF LobbyEvent, reduceLobby, Launched, n
  <2> HIDE DEF g
  <2>2. u \in LobbyState /\ u.status = "launching"
    BY <2>1, <1>t DEF LobbyState, LobbyStatus
  <2> HIDE DEF u
  <2>3. QED BY <2>1, <2>2, NewStateRight
<1>8. CASE e.type = "reset"
  <2> DEFINE u == [emptyLobby EXCEPT !.version = n]
  <2>1. reduceLobby(s, e, t) = Transition(u, TRUE, FALSE)
    BY <1>8 DEF reduceLobby, Reset, n
  <2>2. u \in LobbyState /\ u.status # "countdown"
    BY <1>t, ResetState
  <2> HIDE DEF u
  <2>3. QED BY <2>1, <2>2, NewStateRight
<1>9. e.type \in {"join", "leave", "ready", "tick", "open", "close", "launched", "reset"}
  BY DEF LobbyEvent
<1>10. QED BY <1>1, <1>2, <1>3, <1>4, <1>5, <1>6, <1>7, <1>8, <1>9

(***************************************************************************)
(* Tasks.                                                                  *)
(***************************************************************************)

Following == [tier : Tiers, event : LobbyEvent] \cup {Null}

(* A task that has just begun, or gone on after apply.                     *)
Fresh(pc, tier, event, then) ==
  [pc |-> pc, tier |-> tier, event |-> event, then |-> then, gameId |-> Null, next |-> Null,
   expected |-> 0, launching |-> FALSE, attempts |-> 0]

(* x's task, and no other, becomes one that knows what it should.          *)
Moves(x) == \E k : TaskOK(k) /\ task' = [task EXCEPT ![x] = k]

Unwritten == {"idle", "find", "get", "load", "index", "unindex", "tickets"}

LEMMA FreshMoves ==
  ASSUME NEW x \in Tasks, NEW pc \in Unwritten \ {"idle"}, NEW tier \in Tiers \cup {Null},
         NEW event \in LobbyEvent, NEW then \in Following,
         pc \notin {"unindex", "tickets"} => tier \in Tiers,
         pc \in {"find", "index"} => event.type = "join",
         pc = "get" => event.type = "ready",
         pc \in {"unindex", "tickets"} => event.type = "leave",
         task' = [task EXCEPT ![x] = Fresh(pc, tier, event, then)]
  PROVE  Moves(x)
<1> DEFINE k == Fresh(pc, tier, event, then)
<1>1. k \in Task /\ k.pc = pc /\ k.tier = tier /\ k.event = event
  BY DEF Fresh, Task, PC, Unwritten, Following
<1> HIDE DEF k
<1>2. TaskOK(k)
  BY <1>1 DEF TaskOK, Unwritten
<1>3. QED BY <1>2 DEF Moves, k

LEMMA IdleOK == TaskOK(Idle)
<1>1. Idle \in Task /\ Idle.pc = "idle"
  BY DEF Idle, Task, PC
<1>2. QED BY <1>1 DEF TaskOK

LEMMA DoneMoves ==
  ASSUME NEW x \in Tasks, Done(x)
  PROVE  Moves(x)
BY IdleOK DEF Done, Moves

LEMMA TaskParts ==
  ASSUME LInv, NEW x \in Tasks
  PROVE  /\ task \in [Tasks -> Task] /\ task[x] \in Task /\ TaskOK(task[x])
         /\ task[x].tier \in Tiers \cup {Null} /\ task[x].event \in LobbyEvent \cup {Null}
         /\ task[x].then \in Following /\ task[x].gameId \in Games \cup {Null}
         /\ task[x].next \in LobbyState \cup {Null} /\ task[x].expected \in Nat
         /\ task[x].launching \in BOOLEAN /\ task[x].attempts \in Nat
BY DEF LInv, TypeOK, Task, Following

(* The lobby a move has left behind, the event it goes on with.            *)
LEMMA ThenParts ==
  ASSUME NEW then \in Following, then # Null
  PROVE  then.tier \in Tiers /\ then.event \in LobbyEvent
BY DEF Following

LEMMA AfterApplyMoves ==
  ASSUME LInv, NEW x \in Tasks, task[x].event \in LobbyEvent,
         task[x].event.type = "join" => task[x].tier \in Tiers,
         NEW accepted \in BOOLEAN, AfterApply(x, accepted)
  PROVE  Moves(x)
<1> DEFINE e == task[x].event
           then == task[x].then
           tier == task[x].tier
<1>t. /\ e \in LobbyEvent /\ (e.type = "join" => tier \in Tiers)
      /\ then \in Following /\ Null \in Following
  BY TaskParts DEF Following
<1>1. CASE e.type = "join" /\ accepted
  <2>1. task' = [task EXCEPT ![x] = Fresh("index", tier, e, Null)]
    BY <1>1 DEF AfterApply, Idle, Fresh
  <2> HIDE DEF e, tier, then
  <2>2. QED BY <2>1, <1>1, <1>t, FreshMoves DEF Unwritten
<1>2. CASE e.type = "leave" /\ accepted
  <2>1. task' = [task EXCEPT ![x] = Fresh("unindex", Null, e, then)]
    BY <1>2 DEF AfterApply, Idle, Fresh
  <2> HIDE DEF e, tier, then
  <2>2. QED BY <2>1, <1>2, <1>t, FreshMoves DEF Unwritten
<1>3. CASE e.type = "leave" /\ ~accepted /\ then = Null
  <2>1. task' = [task EXCEPT ![x] = Fresh("tickets", Null, e, Null)]
    BY <1>3 DEF AfterApply, Idle, Fresh
  <2> HIDE DEF e, tier, then
  <2>2. QED BY <2>1, <1>3, <1>t, FreshMoves DEF Unwritten
<1>4. CASE e.type = "leave" /\ ~accepted /\ then # Null
  <2>1. task' = [task EXCEPT ![x] = Fresh("load", then.tier, then.event, Null)]
    BY <1>4 DEF AfterApply, Idle, Fresh
  <2> HIDE DEF e, tier, then
  <2>2. then.tier \in Tiers /\ then.event \in LobbyEvent
    BY <1>4, <1>t, ThenParts
  <2>3. QED BY <2>1, <2>2, <1>t, FreshMoves DEF Unwritten
<1>5. CASE Done(x)
  BY <1>5, DoneMoves
<1>6. Done(x) \/ e.type \in {"join", "leave"}
  BY DEF AfterApply
<1>7. e.type = "join" /\ ~accepted => Done(x)
  BY DEF AfterApply
<1>8. QED BY <1>1, <1>2, <1>3, <1>4, <1>5, <1>6, <1>7

(***************************************************************************)
(* The steps of a task, one lemma per await.                               *)
(***************************************************************************)

LEMMA FindMoves ==
  ASSUME LInv, NEW x \in Tasks, FindPlayerLobby(x)
  PROVE  Moves(x)
<1> DEFINE k == task[x]
           p == k.event.player
           at == index[p]
<1>1. /\ k \in Task /\ k.pc = "find" /\ k.tier \in Tiers /\ k.event \in LobbyEvent
      /\ k.event.type = "join" /\ p \in Players /\ at \in Tiers \cup {Null}
  <2>1. k \in Task /\ TaskOK(k) /\ k.pc = "find"
    BY TaskParts DEF FindPlayerLobby
  <2>2. k.tier \in Tiers /\ k.event \in LobbyEvent /\ k.event.type = "join"
    BY <2>1 DEF TaskOK
  <2>3. p \in Players
    BY <2>2 DEF LobbyEvent
  <2>4. QED BY <2>1, <2>2, <2>3 DEF LInv, TypeOK
<1>2. CASE at = Null \/ at = k.tier
  <2> DEFINE m == [k EXCEPT !.pc = "load"]
  <2>1. task' = [task EXCEPT ![x] = m]
    BY <1>2, TaskParts DEF FindPlayerLobby, Goto
  <2>2. /\ m \in Task /\ m.pc = "load" /\ m.tier \in Tiers /\ m.event \in LobbyEvent
    BY <1>1 DEF Task, PC
  <2> HIDE DEF m
  <2>3. TaskOK(m)
    BY <2>2 DEF TaskOK
  <2>4. QED BY <2>1, <2>3 DEF Moves
<1>3. CASE at # Null /\ at # k.tier
  <2> DEFINE e == [type |-> "leave", player |-> p]
             then == [tier |-> k.tier, event |-> k.event]
             m == [k EXCEPT !.pc = "load", !.tier = at, !.event = e, !.then = then]
  <2>1. task' = [task EXCEPT ![x] = m]
    BY <1>3, TaskParts DEF FindPlayerLobby
  <2>2. e \in LobbyEvent /\ then \in [tier : Tiers, event : LobbyEvent] /\ at \in Tiers
    BY <1>1, <1>3 DEF LobbyEvent
  <2> HIDE DEF e, then, at
  <2>3. /\ m \in Task /\ m.pc = "load" /\ m.tier \in Tiers /\ m.event \in LobbyEvent
    BY <1>1, <2>2 DEF Task, PC
  <2> HIDE DEF m
  <2>4. TaskOK(m)
    BY <2>3 DEF TaskOK
  <2>5. QED BY <2>1, <2>4 DEF Moves
<1>4. QED BY <1>2, <1>3

LEMMA ReadGameMoves ==
  ASSUME LInv, NEW x \in Tasks, ReadGame(x)
  PROVE  Moves(x)
<1> DEFINE k == task[x]
           g == lobby[k.tier].gameId
           m == [k EXCEPT !.pc = "check", !.gameId = g]
<1>1. /\ k \in Task /\ k.pc = "get" /\ k.tier \in Tiers /\ k.event \in LobbyEvent
      /\ k.event.type = "ready"
  <2>1. k \in Task /\ TaskOK(k) /\ k.pc = "get"
    BY TaskParts DEF ReadGame
  <2>2. QED BY <2>1 DEF TaskOK
<1>2. g \in Games \cup {Null}
  BY <1>1 DEF LInv, TypeOK, LobbyState
<1>3. CASE Done(x)
  BY <1>3, DoneMoves
<1>4. CASE g # Null
  <2>1. task' = [task EXCEPT ![x] = m]
    BY <1>4, TaskParts DEF ReadGame
  <2> HIDE DEF g
  <2>2. /\ m \in Task /\ m.pc = "check" /\ m.tier \in Tiers /\ m.event = k.event
        /\ m.gameId \in Games
    BY <1>1, <1>2, <1>4 DEF Task, PC
  <2> HIDE DEF m
  <2>3. TaskOK(m)
    BY <2>2, <1>1 DEF TaskOK
  <2>4. QED BY <2>1, <2>3 DEF Moves
<1>5. QED BY <1>3, <1>4 DEF ReadGame

LEMMA HasPaidMoves ==
  ASSUME LInv, NEW x \in Tasks, HasPaid(x)
  PROVE  Moves(x)
<1> DEFINE k == task[x]
           m == [k EXCEPT !.pc = "load", !.gameId = Null]
<1>1. /\ k \in Task /\ k.tier \in Tiers /\ k.event \in LobbyEvent
  <2>1. k \in Task /\ TaskOK(k) /\ k.pc = "check"
    BY TaskParts DEF HasPaid
  <2>2. QED BY <2>1 DEF TaskOK
<1>2. CASE Done(x)
  BY <1>2, DoneMoves
<1>3. CASE task' = [task EXCEPT ![x].pc = "load", ![x].gameId = Null]
  <2>1. task' = [task EXCEPT ![x] = m]
    BY <1>3, TaskParts
  <2>2. /\ m \in Task /\ m.pc = "load" /\ m.tier \in Tiers /\ m.event \in LobbyEvent
    BY <1>1 DEF Task, PC
  <2> HIDE DEF m
  <2>3. TaskOK(m)
    BY <2>2 DEF TaskOK
  <2>4. QED BY <2>1, <2>3 DEF Moves
<1>4. QED BY <1>2, <1>3 DEF HasPaid

(* What a task has read is right for its tier, and so is what it makes of  *)
(* it.                                                                     *)
LEMMA LoadMoves ==
  ASSUME LInv, NEW x \in Tasks, Load(x)
  PROVE  Moves(x)
<1> DEFINE k == task[x]
           t == k.tier
           r == reduceLobby(lobby[t], k.event, t)
           v == lobby[t].version
           new == r.state
           go == r.shouldLaunch
           m == [k EXCEPT !.pc = "save", !.next = new, !.expected = v, !.launching = go]
<1>1. k \in Task /\ t \in Tiers /\ k.event \in LobbyEvent
  <2>1. k \in Task /\ TaskOK(k) /\ k.pc = "load"
    BY TaskParts DEF Load
  <2>2. QED BY <2>1 DEF TaskOK
<1>2. LobbyOK(lobby[t], t) /\ v \in Nat
  BY <1>1 DEF LInv, LobbyOK, LobbyState
<1>3. Right(r, t)
  BY <1>1, <1>2, ReduceRight
<1>4. /\ r.changed \in BOOLEAN /\ go \in BOOLEAN /\ LobbyOK(new, t) /\ new \in LobbyState
      /\ (go => Quorum(new, t))
  BY <1>3 DEF Right, LobbyOK
<1>5. CASE r.changed
  <2>1. task' = [task EXCEPT ![x] = m]
    BY <1>5, TaskParts DEF Load
  <2> HIDE DEF new, go, v, r
  <2>2. /\ m \in Task /\ m.pc = "save" /\ m.tier = t /\ m.event = k.event
        /\ m.next = new /\ m.launching = go
    BY <1>1, <1>2, <1>4 DEF Task, PC
  <2> HIDE DEF m
  <2>3. TaskOK(m)
    BY <2>2, <1>1, <1>4 DEF TaskOK
  <2>4. QED BY <2>1, <2>3 DEF Moves
<1>6. CASE ~r.changed
  <2>1. AfterApply(x, r.rejected = Null)
    BY <1>6 DEF Load
  <2> DEFINE accepted == r.rejected = Null
  <2>2. accepted \in BOOLEAN
    OBVIOUS
  <2> HIDE DEF accepted, r
  <2>3. AfterApply(x, accepted)
    BY <2>1 DEF accepted
  <2>4. QED BY <2>2, <2>3, <1>1, AfterApplyMoves
<1>7. QED BY <1>5, <1>6

(* A step that only turns to the next line of the code.                    *)
LEMMA GotoMoves ==
  ASSUME LInv, NEW x \in Tasks, NEW pc \in {"launch", "failed", "reset"}, Goto(x, pc),
         task[x].tier \in Tiers, task[x].event \in LobbyEvent, task[x].next \in LobbyState,
         pc = "launch" => Quorum(task[x].next, task[x].tier)
  PROVE  Moves(x)
<1> DEFINE k == task[x]
           m == [k EXCEPT !.pc = pc]
<1>1. task' = [task EXCEPT ![x] = m] /\ k \in Task
  BY TaskParts DEF Goto
<1>2. m \in Task /\ m.pc = pc /\ m.tier = k.tier /\ m.event = k.event /\ m.next = k.next
  BY <1>1 DEF Task, PC
<1> HIDE DEF m
<1>3. TaskOK(m)
  BY <1>2 DEF TaskOK
<1>4. QED BY <1>1, <1>3 DEF Moves

LEMMA SaveMoves ==
  ASSUME LInv, NEW x \in Tasks, Save(x)
  PROVE  Moves(x)
<1> DEFINE k == task[x]
           n == k.attempts + 1
           m == [k EXCEPT !.pc = "load", !.next = Null, !.expected = 0, !.launching = FALSE,
                          !.attempts = n]
<1>1. /\ k \in Task /\ k.tier \in Tiers /\ k.event \in LobbyEvent /\ k.next \in LobbyState
      /\ (k.launching => Quorum(k.next, k.tier))
  <2>1. k \in Task /\ TaskOK(k) /\ k.pc = "save"
    BY TaskParts DEF Save
  <2>2. QED BY <2>1 DEF TaskOK, LobbyOK
<1>2. CASE Goto(x, "launch") /\ k.launching
  BY <1>1, <1>2, GotoMoves
<1>3. CASE AfterApply(x, TRUE)
  BY <1>1, <1>3, AfterApplyMoves
<1>4. CASE task' = [task EXCEPT ![x] = m]
  <2>1. n \in Nat
    BY <1>1 DEF Task
  <2> HIDE DEF n
  <2>2. m \in Task /\ m.pc = "load" /\ m.tier = k.tier /\ m.event = k.event
    BY <1>1, <2>1 DEF Task, PC
  <2> HIDE DEF m
  <2>3. TaskOK(m)
    BY <2>2, <1>1 DEF TaskOK
  <2>4. QED BY <1>4, <2>3 DEF Moves
<1>5. CASE Done(x)
  BY <1>5, DoneMoves
<1>6. \/ Goto(x, "launch") /\ k.launching
      \/ AfterApply(x, TRUE)
      \/ task' = [task EXCEPT ![x] = m]
      \/ Done(x)
  BY TaskParts DEF Save
<1>7. QED BY <1>2, <1>3, <1>4, <1>5, <1>6

LEMMA LaunchGameMoves ==
  ASSUME LInv, NEW x \in Tasks, NEW g \in Games, LaunchGame(x, g)
  PROVE  Moves(x)
<1> DEFINE k == task[x]
           m == [k EXCEPT !.pc = "mark", !.gameId = g]
<1>1. /\ k \in Task /\ k.tier \in Tiers /\ k.event \in LobbyEvent /\ k.next \in LobbyState
  <2>1. k \in Task /\ TaskOK(k) /\ k.pc = "launch"
    BY TaskParts DEF LaunchGame
  <2>2. QED BY <2>1 DEF TaskOK
<1>2. task' = [task EXCEPT ![x] = m]
  BY TaskParts DEF LaunchGame
<1>3. /\ m \in Task /\ m.pc = "mark" /\ m.tier = k.tier /\ m.event = k.event
      /\ m.next = k.next /\ m.gameId = g
  BY <1>1 DEF Task, PC
<1> HIDE DEF m
<1>4. TaskOK(m)
  BY <1>1, <1>3 DEF TaskOK
<1>5. QED BY <1>2, <1>4 DEF Moves

LEMMA LaunchFailsMoves ==
  ASSUME LInv, NEW x \in Tasks, NEW seated, LaunchFails(x, seated)
  PROVE  Moves(x)
<1>1. task[x] \in Task /\ TaskOK(task[x]) /\ task[x].pc = "launch" /\ Goto(x, "failed")
  BY TaskParts DEF LaunchFails
<1>2. task[x].tier \in Tiers /\ task[x].event \in LobbyEvent /\ task[x].next \in LobbyState
  BY <1>1 DEF TaskOK
<1>3. QED BY <1>1, <1>2, GotoMoves

(* The lobby marked as launched, which nobody counts down.                 *)
LEMMA LaunchedState ==
  ASSUME NEW s \in LobbyState, NEW g \in Games
  PROVE  Launched(s, g).state \in LobbyState /\ Launched(s, g).state.status = "launching"
<1> DEFINE n == s.version + 1
           u == [s EXCEPT !.status = "launching", !.gameId = g, !.left = Null, !.version = n]
<1>1. Launched(s, g).state = u
  BY DEF Launched, Transition
<1>2. n \in Nat
  BY DEF LobbyState
<1> HIDE DEF n
<1>3. u \in LobbyState /\ u.status = "launching"
  BY <1>2 DEF LobbyState, LobbyStatus
<1> HIDE DEF u
<1>4. QED BY <1>1, <1>3

LEMMA MarkMoves ==
  ASSUME LInv, NEW x \in Tasks, MarkLaunched(x)
  PROVE  Moves(x)
<1> DEFINE k == task[x]
           s == Launched(k.next, k.gameId).state
           m == [k EXCEPT !.pc = "clear", !.next = s]
<1>1. /\ k \in Task /\ k.tier \in Tiers /\ k.event \in LobbyEvent /\ k.next \in LobbyState
      /\ k.gameId \in Games
  <2>1. k \in Task /\ TaskOK(k) /\ k.pc = "mark"
    BY TaskParts DEF MarkLaunched
  <2>2. QED BY <2>1 DEF TaskOK
<1>2. task' = [task EXCEPT ![x] = m]
  BY TaskParts DEF MarkLaunched
<1>3. s \in LobbyState
  BY <1>1, LaunchedState
<1> HIDE DEF s
<1>4. m \in Task /\ m.pc = "clear" /\ m.tier = k.tier /\ m.event = k.event /\ m.next = s
  BY <1>1, <1>3 DEF Task, PC
<1> HIDE DEF m
<1>5. TaskOK(m)
  BY <1>1, <1>3, <1>4 DEF TaskOK
<1>6. QED BY <1>2, <1>5 DEF Moves

LEMMA ClearIndexMoves ==
  ASSUME LInv, NEW x \in Tasks, ClearIndex(x)
  PROVE  Moves(x)
<1>1. task[x] \in Task /\ TaskOK(task[x]) /\ task[x].pc = "clear" /\ Goto(x, "reset")
  BY TaskParts DEF ClearIndex
<1>2. task[x].tier \in Tiers /\ task[x].event \in LobbyEvent /\ task[x].next \in LobbyState
  BY <1>1 DEF TaskOK
<1>3. QED BY <1>1, <1>2, GotoMoves

LEMMA ReopenMoves ==
  ASSUME LInv, NEW x \in Tasks, Reopen(x)
  PROVE  Moves(x)
<1>1. TaskOK(task[x]) /\ task[x].pc \in {"reset", "failed"} /\ AfterApply(x, TRUE)
  BY TaskParts DEF Reopen
<1>2. task[x].tier \in Tiers /\ task[x].event \in LobbyEvent
  BY <1>1 DEF TaskOK
<1>3. QED BY <1>1, <1>2, AfterApplyMoves

(* What is left to do is what a leave that was not accepted goes on to.    *)
LEMMA ForgetMoves ==
  ASSUME LInv, NEW x \in Tasks, ForgetPlayerLobby(x)
  PROVE  Moves(x)
<1>1. TaskOK(task[x]) /\ task[x].pc = "unindex"
  BY TaskParts DEF ForgetPlayerLobby
<1>2. task[x].event \in LobbyEvent /\ task[x].event.type = "leave"
  BY <1>1 DEF TaskOK
<1>3. AfterApply(x, FALSE)
  BY <1>2 DEF ForgetPlayerLobby, AfterApply
<1>4. QED BY <1>2, <1>3, AfterApplyMoves

LEMMA TaskStepMoves ==
  ASSUME LInv, NEW x \in Tasks, TaskStep(x)
  PROVE  Moves(x)
<1>1. ASSUME NEW g \in Games, LaunchGame(x, g) PROVE Moves(x)
  BY <1>1, LaunchGameMoves
<1>2. ASSUME NEW seated, LaunchFails(x, seated) PROVE Moves(x)
  BY <1>2, LaunchFailsMoves
<1>3. CASE SetPlayerLobby(x) \/ DropTickets(x)
  BY <1>3, DoneMoves DEF SetPlayerLobby, DropTickets
<1>4. QED BY <1>1, <1>2, <1>3, FindMoves, ReadGameMoves, HasPaidMoves, LoadMoves, SaveMoves,
             MarkMoves, ClearIndexMoves, ReopenMoves, ForgetMoves DEF TaskStep

(***************************************************************************)
(* Requests, ticks and jobs begin.                                         *)
(***************************************************************************)

LEMMA BeginMoves ==
  ASSUME NEW x \in Tasks, NEW pc \in {"find", "get", "load"}, NEW t \in Tiers,
         NEW e \in LobbyEvent, Begin(x, pc, t, e),
         pc = "find" => e.type = "join", pc = "get" => e.type = "ready"
  PROVE  Moves(x)
<1> DEFINE m == [Idle EXCEPT !.pc = pc, !.tier = t, !.event = e]
<1>1. task' = [task EXCEPT ![x] = m]
  BY DEF Begin
<1>2. m \in Task /\ m.pc = pc /\ m.tier = t /\ m.event = e
  BY DEF Idle, Task, PC
<1> HIDE DEF m
<1>3. TaskOK(m)
  BY <1>2 DEF TaskOK
<1>4. QED BY <1>1, <1>3 DEF Moves

LEMMA StartMoves ==
  ASSUME Start
  PROVE  \E x \in Tasks : Moves(x)
<1>1. ASSUME NEW x \in Handlers, NEW p \in Players, NEW t \in Tiers, StartJoin(x, p, t)
      PROVE  Moves(x)
  <2> DEFINE e == [type |-> "join", player |-> p]
  <2>1. e \in LobbyEvent /\ e.type = "join" /\ x \in Tasks
    BY DEF LobbyEvent, Tasks
  <2>2. Begin(x, "find", t, e)
    BY <1>1 DEF StartJoin, Request
  <2> HIDE DEF e
  <2>3. QED BY <2>1, <2>2, BeginMoves
<1>2. ASSUME NEW x \in Handlers, NEW p \in Players, NEW t \in Tiers, StartLeave(x, p, t)
      PROVE  Moves(x)
  <2> DEFINE e == [type |-> "leave", player |-> p]
  <2>1. e \in LobbyEvent /\ x \in Tasks
    BY DEF LobbyEvent, Tasks
  <2>2. Begin(x, "load", t, e)
    BY <1>2 DEF StartLeave, Request
  <2> HIDE DEF e
  <2>3. QED BY <2>1, <2>2, BeginMoves
<1>3. ASSUME NEW x \in Handlers, NEW p \in Players, NEW t \in Tiers, NEW flag \in BOOLEAN,
             StartReady(x, p, flag, t)
      PROVE  Moves(x)
  <2> DEFINE e == [type |-> "ready", player |-> p, ready |-> flag]
             pc == IF flag /\ t \in PaidTiers THEN "get" ELSE "load"
  <2>1. e \in LobbyEvent /\ e.type = "ready" /\ x \in Tasks /\ pc \in {"get", "load"}
    BY DEF LobbyEvent, Tasks
  <2>2. Begin(x, pc, t, e)
    BY <1>3 DEF StartReady, Request
  <2> HIDE DEF e, pc
  <2>3. QED BY <2>1, <2>2, BeginMoves
<1>4. ASSUME NEW x \in Tickers, NEW t \in Tiers, StartTick(x, t)
      PROVE  Moves(x)
  <2> DEFINE e == [type |-> "tick"]
  <2>1. e \in LobbyEvent /\ x \in Tasks
    BY DEF LobbyEvent, Tasks
  <2>2. Begin(x, "load", t, e)
    BY <1>4 DEF StartTick
  <2> HIDE DEF e
  <2>3. QED BY <2>1, <2>2, BeginMoves
<1>5. ASSUME NEW x \in Jobs, NEW t \in Tiers, NEW g \in Games, NEW scheduled \in Scheduled,
             StartOpen(x, t, g, scheduled)
      PROVE  Moves(x)
  <2> DEFINE e == [type |-> "open", gameId |-> g, scheduled |-> scheduled]
  <2>1. e \in LobbyEvent /\ x \in Tasks
    BY ServiceAssumption DEF LobbyEvent, Tasks
  <2>2. Begin(x, "load", t, e)
    BY <1>5 DEF StartOpen, Request
  <2> HIDE DEF e
  <2>3. QED BY <2>1, <2>2, BeginMoves
<1>6. ASSUME NEW x \in Jobs, NEW t \in Tiers, NEW kind \in {"close", "reset"},
             StartCloseOrReset(x, t, kind)
      PROVE  Moves(x)
  <2> DEFINE e == [type |-> kind]
  <2>1. e \in LobbyEvent /\ x \in Tasks
    BY DEF LobbyEvent, Tasks
  <2>2. Begin(x, "load", t, e)
    BY <1>6 DEF StartCloseOrReset, Request
  <2> HIDE DEF e
  <2>3. QED BY <2>1, <2>2, BeginMoves
<1>7. Handlers \subseteq Tasks /\ Tickers \subseteq Tasks /\ Jobs \subseteq Tasks
  BY DEF Tasks
<1>8. QED BY <1>1, <1>2, <1>3, <1>4, <1>5, <1>6, <1>7 DEF Start

(***************************************************************************)
(* Every step keeps what the tasks know.                                   *)
(***************************************************************************)

(* Time runs down a deadline and touches nothing else.                     *)
LEMMA ElapseState ==
  ASSUME NEW s \in LobbyState
  PROVE  /\ Elapse(s) \in LobbyState /\ Elapse(s).players = s.players
         /\ \A t \in Tiers : LobbyOK(s, t) => LobbyOK(Elapse(s), t)
         /\ \A t : Quorum(s, t) => Quorum(Elapse(s), t)
<1>1. CASE s.left \in Nat /\ s.left > 0
  <2> DEFINE n == s.left - 1
             u == [s EXCEPT !.left = n]
  <2>1. Elapse(s) = u /\ n \in Nat
    BY <1>1 DEF Elapse
  <2>2. \A t \in Tiers : s.left \in 0 .. Countdown[t] => n \in 0 .. Countdown[t]
    BY <1>1, TierParts
  <2> HIDE DEF n
  <2>3. /\ u \in LobbyState /\ u.players = s.players /\ u.status = s.status
        /\ u.scheduled = s.scheduled /\ u.left = n
    BY <2>1 DEF LobbyState
  <2> HIDE DEF u
  <2>4. QED BY <2>1, <2>2, <2>3 DEF LobbyOK, Quorum
<1>2. CASE ~(s.left \in Nat /\ s.left > 0)
  BY <1>2 DEF Elapse
<1>3. QED BY <1>1, <1>2

LEMMA WaitsKnow ==
  ASSUME NEW k, TaskOK(k), k.next # Null
  PROVE  TaskOK([k EXCEPT !.next = Elapse(@)])
<1> DEFINE s == Elapse(k.next)
           m == [k EXCEPT !.next = s]
<1>1. k \in Task /\ k.next \in LobbyState
  BY DEF TaskOK, Task
<1>2. /\ s \in LobbyState /\ (k.tier \in Tiers /\ LobbyOK(k.next, k.tier) => LobbyOK(s, k.tier))
      /\ (Quorum(k.next, k.tier) => Quorum(s, k.tier))
  BY <1>1, ElapseState
<1> HIDE DEF s
<1>3. /\ m \in Task /\ m.pc = k.pc /\ m.tier = k.tier /\ m.event = k.event /\ m.next = s
      /\ m.gameId = k.gameId /\ m.launching = k.launching
  BY <1>1, <1>2 DEF Task
<1> HIDE DEF m
<1>4. TaskOK(m)
  BY <1>2, <1>3 DEF TaskOK
<1>5. QED BY <1>4 DEF m, s

LEMMA TasksKnow ==
  ASSUME LInv, [Next]_vars
  PROVE  task' \in [Tasks -> Task] /\ \A x \in Tasks : TaskOK(task'[x])
<1>1. ASSUME NEW x \in Tasks, Moves(x) PROVE \A y \in Tasks : TaskOK(task'[y])
  BY <1>1, TaskParts DEF Moves
<1>2. ASSUME NEW x \in Tasks, Moves(x) PROVE task' \in [Tasks -> Task]
  BY <1>2, TaskParts DEF Moves, TaskOK
<1>3. CASE \E x \in Tasks : Moves(x)
  BY <1>1, <1>2, <1>3
<1>4. CASE UNCHANGED task
  BY <1>4 DEF LInv, TypeOK
<1>5. CASE ClockTick
  <2>1. ASSUME NEW x \in Tasks PROVE TaskOK(task'[x])
    <3>1. CASE task[x].next = Null
      BY <1>5, <3>1, TaskParts DEF ClockTick
    <3>2. CASE task[x].next # Null
      <4>1. task'[x] = [task[x] EXCEPT !.next = Elapse(@)]
        BY <1>5, <3>2 DEF ClockTick
      <4>2. TaskOK([task[x] EXCEPT !.next = Elapse(@)])
        BY <3>2, TaskParts, WaitsKnow
      <4>3. QED BY <4>1, <4>2
    <3>3. QED BY <3>1, <3>2
  <2>2. \A x \in Tasks : task'[x] \in Task
    BY <2>1 DEF TaskOK
  <2>3. task' = [x \in Tasks |-> task'[x]]
    BY <1>5 DEF ClockTick
  <2>4. QED BY <2>1, <2>2, <2>3
<1>6. ASSUME NEW x \in Tasks, TaskStep(x) \/ Crash(x) PROVE Moves(x)
  BY <1>6, TaskStepMoves, DoneMoves DEF Crash
<1>7. ASSUME NEW p \in Players, NEW t \in Tiers, Pay(p, t) PROVE UNCHANGED task
  BY <1>7 DEF Pay
<1>8. ASSUME NEW p \in Players, TicketExpires(p) \/ IndexExpires(p) PROVE UNCHANGED task
  BY <1>8 DEF TicketExpires, IndexExpires
<1>9. CASE UNCHANGED vars
  BY <1>4, <1>9 DEF vars
<1>10. QED BY <1>3, <1>4, <1>5, <1>6, <1>7, <1>8, <1>9, StartMoves DEF Next

(***************************************************************************)
(* Every write leaves the lobbies right.                                   *)
(***************************************************************************)

LobbiesRight == lobby \in [Tiers -> LobbyState] /\ \A t \in Tiers : LobbyOK(lobby[t], t)

LEMMA WriteRight ==
  ASSUME LobbiesRight, NEW t \in Tiers, NEW s, LobbyOK(s, t), NEW v, CompareAndSet(t, s, v)
  PROVE  LobbiesRight'
BY DEF LobbiesRight, CompareAndSet, LobbyOK

LEMMA LobbiesStayRight ==
  ASSUME LInv, [Next]_vars
  PROVE  LobbiesRight'
<1>0. LobbiesRight
  BY DEF LInv, TypeOK, LobbiesRight
<1>1. CASE UNCHANGED lobby
  BY <1>0, <1>1 DEF LobbiesRight
<1>2. ASSUME NEW x \in Tasks, TaskStep(x) PROVE LobbiesRight'
  <2> DEFINE k == task[x]
  <2>t. TaskOK(k)
    BY TaskParts
  <2>1. CASE Save(x)
    <3>1. k.tier \in Tiers /\ LobbyOK(k.next, k.tier)
      BY <2>1, <2>t DEF Save, TaskOK
    <3>2. CompareAndSet(k.tier, k.next, k.expected)
      BY <2>1 DEF Save
    <3> HIDE DEF k
    <3>3. QED BY <1>0, <3>1, <3>2, WriteRight
  <2>2. CASE MarkLaunched(x)
    <3> DEFINE s == Launched(k.next, k.gameId).state
    <3>1. k.tier \in Tiers /\ k.next \in LobbyState /\ k.gameId \in Games
      BY <2>2, <2>t DEF MarkLaunched, TaskOK
    <3>2. LobbyOK(s, k.tier)
      BY <3>1, LaunchedState DEF LobbyOK
    <3>3. CompareAndSet(k.tier, s, k.next.version)
      BY <2>2 DEF MarkLaunched
    <3> HIDE DEF k, s
    <3>4. QED BY <1>0, <3>1, <3>2, <3>3, WriteRight
  <2>3. CASE Reopen(x)
    <3> DEFINE s == Reset(k.next).state
               n == k.next.version + 1
    <3>1. k.tier \in Tiers /\ k.next \in LobbyState /\ n \in Nat
      BY <2>3, <2>t DEF Reopen, TaskOK, LobbyState
    <3>2. s = [emptyLobby EXCEPT !.version = n]
      BY DEF Reset, Transition
    <3> HIDE DEF s, n
    <3>3. LobbyOK(s, k.tier)
      BY <3>1, <3>2, ResetState DEF LobbyOK
    <3>4. CompareAndSet(k.tier, s, k.next.version)
      BY <2>3 DEF Reopen, s
    <3> HIDE DEF k
    <3>5. QED BY <1>0, <3>1, <3>3, <3>4, WriteRight
  <2>4. Save(x) \/ MarkLaunched(x) \/ Reopen(x) \/ UNCHANGED lobby
    BY <1>2 DEF TaskStep, FindPlayerLobby, ReadGame, HasPaid, Load, LaunchGame, LaunchFails,
                ClearIndex, SetPlayerLobby, ForgetPlayerLobby, DropTickets
  <2>5. QED BY <1>1, <2>1, <2>2, <2>3, <2>4
<1>3. CASE ClockTick
  BY <1>0, <1>3, ElapseState DEF ClockTick, LobbiesRight
<1>4. (\E x \in Tasks : TaskStep(x)) \/ ClockTick \/ UNCHANGED lobby
  BY DEF Next, Start, StartJoin, StartLeave, StartReady, StartTick, StartOpen,
         StartCloseOrReset, Crash, Pay, TicketExpires, IndexExpires, vars
<1>5. QED BY <1>1, <1>2, <1>3, <1>4

(***************************************************************************)
(* Launches.                                                               *)
(***************************************************************************)

MatchesRight == matches \in Seq(Match) /\ LaunchHasQuorum

(* A match is only added with the roster whose quorum was counted before   *)
(* the lobby was written.                                                  *)
LEMMA MatchesStayRight ==
  ASSUME LInv, [Next]_vars
  PROVE  MatchesRight'
<1>0. MatchesRight
  BY DEF LInv, TypeOK, MatchesRight
<1>1. CASE UNCHANGED matches
  BY <1>0, <1>1 DEF MatchesRight, LaunchHasQuorum
<1>2. ASSUME NEW x \in Tasks, NEW g \in Games, LaunchGame(x, g) PROVE MatchesRight'
  <2> DEFINE k == task[x]
             m == [tier |-> k.tier, gameId |-> g, players |-> k.next.players]
  <2>1. k.tier \in Tiers /\ k.next \in LobbyState /\ Quorum(k.next, k.tier)
    BY <1>2, TaskParts DEF LaunchGame, TaskOK
  <2>2. m \in Match /\ Cardinality(m.players) >= MinPlayers[m.tier]
    BY <2>1, LobbyParts DEF Match, Quorum
  <2>3. matches' = Append(matches, m)
    BY <1>2 DEF LaunchGame
  <2> HIDE DEF m
  <2>4. /\ matches' \in Seq(Match) /\ Len(matches') = Len(matches) + 1 /\ Len(matches) \in Nat
        /\ matches'[Len(matches) + 1] = m
        /\ \A i \in 1 .. Len(matches) : matches'[i] = matches[i]
    BY <1>0, <2>2, <2>3 DEF MatchesRight
  <2>5. ASSUME NEW i \in 1 .. Len(matches')
        PROVE  Cardinality(matches'[i].players) >= MinPlayers[matches'[i].tier]
    <3>1. CASE i = Len(matches) + 1
      BY <2>2, <2>4, <3>1
    <3>2. CASE i # Len(matches) + 1
      <4>1. i \in 1 .. Len(matches)
        BY <2>4, <3>2
      <4>2. QED BY <1>0, <2>4, <4>1 DEF MatchesRight, LaunchHasQuorum
    <3>3. QED BY <3>1, <3>2
  <2>6. QED BY <2>4, <2>5 DEF MatchesRight, LaunchHasQuorum
<1>3. ASSUME NEW x \in Tasks, TaskStep(x)
      PROVE  (\E g \in Games : LaunchGame(x, g)) \/ UNCHANGED matches
  BY <1>3 DEF TaskStep, FindPlayerLobby, ReadGame, HasPaid, Load, Save, LaunchFails,
              MarkLaunched, ClearIndex, Reopen, SetPlayerLobby, ForgetPlayerLobby, DropTickets
<1>4. (\E x \in Tasks : TaskStep(x)) \/ UNCHANGED matches
  BY DEF Next, Start, StartJoin, StartLeave, StartReady, StartTick, StartOpen,
         StartCloseOrReset, Crash, ClockTick, Pay, TicketExpires, IndexExpires, vars
<1>5. QED BY <1>1, <1>2, <1>3, <1>4

(***************************************************************************)
(* The rest of the state.                                                  *)
(***************************************************************************)

RestTyped ==
  /\ index \in [Players -> Tiers \cup {Null}]
  /\ ticket \in [Players -> Games \cup {Null}]
  /\ paid \in [Games -> SUBSET Players]
  /\ bound \subseteq Games
  /\ requests \in 0 .. MaxRequests
  /\ crashes \in 0 .. MaxCrashes

LEMMA RestStaysTyped ==
  ASSUME LInv, [Next]_vars
  PROVE  RestTyped'
<1>0. RestTyped /\ MaxRequests \in Nat /\ MaxCrashes \in Nat
  BY ServiceAssumption DEF LInv, TypeOK, RestTyped
<1>1. CASE UNCHANGED <<index, ticket, paid, bound, requests, crashes>>
  BY <1>0, <1>1 DEF RestTyped
<1>2. ASSUME NEW x \in Tasks, TaskStep(x) PROVE RestTyped'
  <2> DEFINE k == task[x]
  <2>t. TaskOK(k)
    BY TaskParts
  <2>1. UNCHANGED <<paid, requests, crashes>>
    BY <1>2 DEF TaskStep, FindPlayerLobby, ReadGame, HasPaid, Load, Save, LaunchGame, LaunchFails,
                MarkLaunched, ClearIndex, Reopen, SetPlayerLobby, ForgetPlayerLobby, DropTickets
  <2>2. bound' \subseteq Games
    BY <1>0, <1>2
       DEF RestTyped, TaskStep, FindPlayerLobby, ReadGame, HasPaid, Load, Save, LaunchGame,
           LaunchFails, MarkLaunched, ClearIndex, Reopen, SetPlayerLobby, ForgetPlayerLobby,
           DropTickets
  <2>3. ASSUME k.pc \in {"index", "unindex", "tickets"} PROVE k.event.player \in Players
    BY <2>3, <2>t DEF TaskOK, LobbyEvent
  <2>4. index' \in [Players -> Tiers \cup {Null}]
    <3>1. CASE ClearIndex(x)
      BY <1>0, <3>1 DEF RestTyped, ClearIndex
    <3>2. CASE SetPlayerLobby(x)
      <4>1. k.event.player \in Players /\ k.tier \in Tiers
        BY <3>2, <2>3, <2>t DEF SetPlayerLobby, TaskOK
      <4>2. QED BY <1>0, <3>2, <4>1 DEF RestTyped, SetPlayerLobby
    <3>3. CASE ForgetPlayerLobby(x)
      <4>1. k.event.player \in Players /\ index' = [index EXCEPT ![k.event.player] = Null]
        BY <3>3, <2>3 DEF ForgetPlayerLobby
      <4>2. QED BY <1>0, <4>1 DEF RestTyped
    <3>4. ClearIndex(x) \/ SetPlayerLobby(x) \/ ForgetPlayerLobby(x) \/ UNCHANGED index
      BY <1>2 DEF TaskStep, FindPlayerLobby, ReadGame, HasPaid, Load, Save, LaunchGame,
                  LaunchFails, MarkLaunched, Reopen, DropTickets
    <3>5. QED BY <1>0, <3>1, <3>2, <3>3, <3>4 DEF RestTyped
  <2>5. ticket' \in [Players -> Games \cup {Null}]
    <3>1. ASSUME NEW g \in Games, LaunchGame(x, g) PROVE ticket' \in [Players -> Games \cup {Null}]
      BY <1>0, <3>1 DEF RestTyped, LaunchGame
    <3>2. ASSUME NEW seated, LaunchFails(x, seated)
          PROVE  ticket' \in [Players -> Games \cup {Null}]
      <4> DEFINE g == k.next.gameId
      <4>1. g \in Games \cup {Null}
        BY <3>2, <2>t DEF LaunchFails, TaskOK, LobbyState
      <4>2. ticket' = [p \in Players |-> IF p \in seated THEN g ELSE ticket[p]]
        BY <3>2 DEF LaunchFails
      <4> HIDE DEF g
      <4>3. QED BY <1>0, <4>1, <4>2 DEF RestTyped
    <3>3. CASE DropTickets(x)
      BY <1>0, <3>3, <2>3 DEF RestTyped, DropTickets
    <3>4. \/ \E g \in Games : LaunchGame(x, g)
          \/ \E seated : LaunchFails(x, seated)
          \/ DropTickets(x)
          \/ UNCHANGED ticket
      BY <1>2 DEF TaskStep, FindPlayerLobby, ReadGame, HasPaid, Load, Save, MarkLaunched,
                  ClearIndex, Reopen, SetPlayerLobby, ForgetPlayerLobby
    <3>5. QED BY <1>0, <3>1, <3>2, <3>3, <3>4 DEF RestTyped
  <2>6. QED BY <1>0, <2>1, <2>2, <2>4, <2>5 DEF RestTyped
<1>3. CASE Start
  <2>1. UNCHANGED <<index, ticket, paid, crashes>> /\ bound' \subseteq Games
    BY <1>0, <1>3 DEF RestTyped, Start, StartJoin, StartLeave, StartReady, StartTick, StartOpen,
                      StartCloseOrReset
  <2>2. UNCHANGED requests \/ (requests < MaxRequests /\ requests' = requests + 1)
    BY <1>3 DEF Start, StartJoin, StartLeave, StartReady, StartTick, StartOpen,
                StartCloseOrReset, Request
  <2>3. requests' \in 0 .. MaxRequests
    BY <1>0, <2>2 DEF RestTyped
  <2>4. QED BY <1>0, <2>1, <2>3 DEF RestTyped
<1>4. ASSUME NEW x \in Tasks, Crash(x) PROVE RestTyped'
  BY <1>0, <1>4 DEF RestTyped, Crash
<1>5. ASSUME NEW p \in Players, NEW t \in Tiers, Pay(p, t) PROVE RestTyped'
  <2> DEFINE g == lobby[t].gameId
             payers == paid[g] \cup {p}
  <2>1. paid' = [paid EXCEPT ![g] = payers]
    BY <1>5 DEF Pay
  <2>2. g \in Games
    BY <1>5 DEF LInv, TypeOK, LobbyState, Pay
  <2>3. payers \subseteq Players
    BY <1>0, <2>2 DEF RestTyped
  <2>4. UNCHANGED <<index, ticket, bound, requests, crashes>>
    BY <1>5 DEF Pay
  <2> HIDE DEF g, payers
  <2>5. paid' \in [Games -> SUBSET Players]
    BY <1>0, <2>1, <2>2, <2>3 DEF RestTyped
  <2>6. QED BY <1>0, <2>4, <2>5 DEF RestTyped
<1>6. ASSUME NEW p \in Players, TicketExpires(p) \/ IndexExpires(p) PROVE RestTyped'
  BY <1>0, <1>6 DEF RestTyped, TicketExpires, IndexExpires
<1>7. CASE ClockTick \/ UNCHANGED vars
  BY <1>1, <1>7 DEF ClockTick, vars
<1>8. QED BY <1>2, <1>3, <1>4, <1>5, <1>6, <1>7 DEF Next

(***************************************************************************)
(* The invariant.                                                          *)
(***************************************************************************)

LEMMA LInvInit ==
  ASSUME Init
  PROVE  LInv
<1>1. emptyLobby \in LobbyState /\ emptyLobby.status = "waiting"
  BY DEF emptyLobby, LobbyState, LobbyStatus
<1>2. lobby \in [Tiers -> LobbyState] /\ \A t \in Tiers : LobbyOK(lobby[t], t)
  BY <1>1 DEF Init, LobbyOK
<1>3. task \in [Tasks -> Task] /\ \A x \in Tasks : TaskOK(task[x])
  BY IdleOK DEF Init, TaskOK
<1>4. matches \in Seq(Match) /\ LaunchHasQuorum
  BY DEF Init, LaunchHasQuorum
<1>5. RestTyped
  BY ServiceAssumption DEF Init, RestTyped
<1>6. QED BY <1>2, <1>3, <1>4, <1>5 DEF LInv, TypeOK, RestTyped

LEMMA LInvStep ==
  ASSUME LInv, [Next]_vars
  PROVE  LInv'
BY TasksKnow, LobbiesStayRight, MatchesStayRight, RestStaysTyped
   DEF LInv, TypeOK, LobbiesRight, MatchesRight, RestTyped

(* Whatever order requests, ticks, jobs, stale writes and crashes come in, *)
(* no room counts down or launches without the minimum of players its tier *)
(* asks for (reduceLobby, apply, performLaunch).                           *)
THEOREM NoRoomShortHanded == Spec => []LobbyInv
<1>1. LInv => LobbyInv
  BY DEF LInv, LobbyInv, CountdownHasQuorum, LobbyOK, Quorum
<1>2. QED BY LInvInit, LInvStep, <1>1, PTL DEF Spec

=============================================================================
