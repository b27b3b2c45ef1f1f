----------------------------- MODULE BackOffice -----------------------------
(***************************************************************************)
(* What an administrator does to the books and sees of them: balance       *)
(* adjustments (apps/gateway/src/routes/admin/players.routes.ts), sent     *)
(* again or by two administrators at once while other entries move the     *)
(* same accounts, and the lists that are paged through while rows are      *)
(* added to them.                                                          *)
(*                                                                         *)
(* The transaction of an adjustment updates the custody account, which     *)
(* stays locked until it commits, and reads the treasury after that; each  *)
(* update names the version that was read.  A row of a list is a time of   *)
(* creation and an id; several rows may share a time.                      *)
(***************************************************************************)
EXTENDS Integers, FiniteSets, Sums, SequencesExt

CONSTANTS
  Admins,          \* requests under way at once
  Corrections,     \* idempotency keys, one for each amount and reason
  Deltas,          \* amounts they may be for
  OpeningBalance,  \* of the custody account and of the treasury
  MaxEntries,      \* bound on entries of other code
  Times, MaxRows,  \* of a list
  PageLimit, ScanFactor

ASSUME OfficeAssumption ==
  /\ 0 \notin Admins \cup Corrections
  /\ Deltas \subseteq Int /\ OpeningBalance \in Nat /\ Times \subseteq Nat
  /\ {MaxEntries, MaxRows} \subseteq Nat /\ {PageLimit, ScanFactor} \subseteq Nat \ {0}

VARIABLES
  held,     \* the custody account and the treasury: balance and version, and who has custody locked
  legs,     \* the adjustments posted: lamports under each idempotency key
  entries,  \* lamports other code has posted to the two accounts
  call,     \* the requests
  rows,     \* the rows of a list
  reader    \* a walk through its pages

officeVars == <<held, legs, entries, call, rows, reader>>

NoRequest == [step |-> "idle", key |-> 0, delta |-> 0, custody |-> 0, treasury |-> 0, seen |-> 0,
              answer |-> "none"]
NoWalk == [list |-> "none", cursor |-> 0, shown |-> <<>>, begun |-> {}, done |-> FALSE]

OfficeInit ==
  /\ held = [custody |-> OpeningBalance, version |-> 0, lockedBy |-> 0,
             treasury |-> OpeningBalance, treasuryVersion |-> 0]
  /\ legs = <<>>
  /\ entries = [custody |-> 0, treasury |-> 0, count |-> 0]
  /\ call = [a \in Admins |-> NoRequest]
  /\ rows = {}
  /\ reader = NoWalk

(***************************************************************************)
(* Adjusting a balance.                                                    *)
(***************************************************************************)
adjusting == <<held, legs, entries, call>>

\* The console derives the key from the amount and the reason.
requestAdjustment(a, k, delta) ==
  /\ call[a].step = "idle"
  /\ call' = [call EXCEPT ![a] = [NoRequest EXCEPT !.step = "key", !.key = k, !.delta = delta]]
  /\ UNCHANGED <<held, legs, entries, rows, reader>>

postedUnder(k) == \E i \in DOMAIN legs : legs[i].key = k

answered(a, answer) ==
  call' = [call EXCEPT ![a] = [NoRequest EXCEPT !.key = call[a].key, !.answer = answer]]

findExisting(a) ==
  /\ call[a].step = "key"
  /\ IF postedUnder(call[a].key) THEN answered(a, "alreadyApplied")
     ELSE call' = [call EXCEPT ![a].step = "read"]
  /\ UNCHANGED <<held, legs, entries, rows, reader>>

readCustody(a) ==
  /\ call[a].step = "read"
  /\ IF held.custody + call[a].delta < 0 THEN answered(a, "refused")
     ELSE call' = [call EXCEPT ![a] = [@ EXCEPT !.step = "update", !.custody = held.custody,
                                                !.seen = held.version]]
  /\ UNCHANGED <<held, legs, entries, rows, reader>>

anyVersion(seen, current) == TRUE  \* mutant: the update names no version
versionHolds(seen, current) == seen = current

\* The first update, and the read of the treasury.
updateCustody(a) ==
  /\ call[a].step = "update" /\ held.lockedBy = 0
  /\ IF ~versionHolds(call[a].seen, held.version)
     THEN answered(a, "refused") /\ UNCHANGED held
     ELSE /\ call' = [call EXCEPT ![a] = [@ EXCEPT !.step = "commit", !.treasury = held.treasury,
                                                   !.seen = held.treasuryVersion]]
          /\ held' = [held EXCEPT !.lockedBy = a]
  /\ UNCHANGED <<legs, entries, rows, reader>>

keyTaken(k) == postedUnder(k)

\* The second update, the legs and the audit row; all or nothing.
commitAdjustment(a) ==
  /\ call[a].step = "commit"
  /\ IF keyTaken(call[a].key) \/ ~versionHolds(call[a].seen, held.treasuryVersion)
     THEN /\ answered(a, "refused")
          /\ held' = [held EXCEPT !.lockedBy = 0]
          /\ UNCHANGED legs
     ELSE /\ answered(a, "applied")
          /\ held' = [custody |-> call[a].custody + call[a].delta, version |-> held.version + 1,
                      lockedBy |-> 0, treasury |-> call[a].treasury - call[a].delta,
                      treasuryVersion |-> held.treasuryVersion + 1]
          /\ legs' = Append(legs, [key |-> call[a].key, delta |-> call[a].delta])
  /\ UNCHANGED <<entries, rows, reader>>

\* A deposit, a stake or a settlement of other code, in one transaction.
otherEntry ==
  /\ entries.count < MaxEntries
  /\ \E d \in {-1, 0, 1}, t \in {0, 1} :
       /\ <<d, t>> # <<0, 0>>
       /\ d # 0 => held.lockedBy = 0
       /\ held.custody + d >= 0
       /\ entries' = [custody |-> entries.custody + d, treasury |-> entries.treasury + t,
                      count |-> entries.count + 1]
       /\ held' = [held EXCEPT !.custody = @ + d, !.treasury = @ + t,
                               !.version = IF d = 0 THEN @ ELSE @ + 1,
                               !.treasuryVersion = IF t = 0 THEN @ ELSE @ + 1]
  /\ UNCHANGED <<legs, call, rows, reader>>

(***************************************************************************)
(* Paging.                                                                 *)
(***************************************************************************)
newerThan(q, r) == q.at > r.at \/ (q.at = r.at /\ q.id > r.id)
newestFirst(S) ==
  [i \in 1 .. Cardinality(S) |-> CHOOSE r \in S : Cardinality({ q \in S : newerThan(q, r) }) = i - 1]

byTimeAlone(cursor, r) ==  \* mutant: rows of the cursor's own time are passed over
  cursor = 0 \/ \E c \in rows : c.id = cursor /\ c.at > r.at

\* cursor and skip: 1 of findMany.
after(cursor, r) == cursor = 0 \/ \E c \in rows : c.id = cursor /\ newerThan(c, r)

upTo(s, n) == SubSeq(s, 1, IF Len(s) < n THEN Len(s) ELSE n)

findMany(cursor, take) == upTo(newestFirst({ r \in rows : after(cursor, r) }), take)

\* GET /admin/transactions, /admin/players: one row more tells of a next page.
keysetPage(cursor) ==
  LET found == findMany(cursor, PageLimit + 1)
      page == upTo(found, PageLimit)
  IN [page |-> page, next |-> IF Len(found) > PageLimit THEN Last(page).id ELSE 0]

unaccounted(r) == r.stranded

picked(found) ==
  LET kept == { i \in DOMAIN found : unaccounted(found[i]) }
      nth(n) == CHOOSE i \in kept : Cardinality({ j \in kept : j < i }) = n - 1
  IN [n \in 1 .. Cardinality(kept) |-> found[nth(n)]]

\* GET /admin/games with unaccountedOnly: matches are picked from a longer scan,
\* and the next page starts after the last row scanned.
scannedPage(cursor) ==
  LET found == findMany(cursor, PageLimit * ScanFactor + 1)
  IN [page |-> upTo(picked(found), PageLimit),
      next |-> IF Len(found) > PageLimit * ScanFactor THEN Last(found).id ELSE 0]

pageOf(list, cursor) == IF list = "games" THEN scannedPage(cursor) ELSE keysetPage(cursor)

\* A row is added, at the latest time or at the one before it.
addRow ==
  /\ Cardinality(rows) < MaxRows
  /\ \E t \in Times, s \in BOOLEAN, id \in (1..MaxRows) \ { r.id : r \in rows } :
       /\ \A r \in rows : r.at <= t
       /\ rows' = rows \cup {[at |-> t, id |-> id, stranded |-> s]}
  /\ UNCHANGED <<adjusting, reader>>

openList(list) ==
  /\ reader = NoWalk
  /\ reader' = [NoWalk EXCEPT !.list = list, !.begun = { r.id : r \in rows }]
  /\ UNCHANGED <<adjusting, rows>>

turnPage ==
  /\ reader.list # "none" /\ ~reader.done
  /\ \E p \in {pageOf(reader.list, reader.cursor)} :
       reader' = [reader EXCEPT !.cursor = p.next, !.done = (p.next = 0),
                                !.shown = @ \o [i \in DOMAIN p.page |-> p.page[i].id]]
  /\ UNCHANGED <<adjusting, rows>>

AdjustNext ==
  \/ otherEntry
  \/ \E a \in Admins :
       \/ \E k \in Corrections, d \in Deltas : requestAdjustment(a, k, d)
       \/ findExisting(a) \/ readCustody(a) \/ updateCustody(a) \/ commitAdjustment(a)

PageNext ==
  \/ addRow \/ turnPage
  \/ \E list \in {"transactions", "games"} : openList(list)

OfficeSpec == OfficeInit /\ [][AdjustNext \/ PageNext]_officeVars

(***************************************************************************)
(* Properties.                                                             *)
(***************************************************************************)
Above(n) == IF n > 0 THEN n ELSE 0

\* What was added, less what was taken.
sumOf(posted) ==
  Total([i \in DOMAIN posted |-> Above(posted[i].delta)])
    - Total([i \in DOMAIN posted |-> Above(-posted[i].delta)])

\* An adjustment is a ledger movement: whatever else posts meanwhile, the two
\* accounts are what their entries add up to, what one gained the other lost,
\* and the player's balance never goes below zero (adjust-balance).
AdjustmentsBalance ==
  /\ held.custody = OpeningBalance + entries.custody + sumOf(legs)
  /\ held.treasury = OpeningBalance + entries.treasury - sumOf(legs)
  /\ held.custody >= 0

\* A correction sent again, or by two administrators at once, is posted once,
\* and whoever is told it was applied can find it (adjust-balance).
AdjustedOnce ==
  /\ \A i, j \in DOMAIN legs : legs[i].key = legs[j].key => i = j
  /\ \A a \in Admins : call[a].answer \in {"applied", "alreadyApplied"} => postedUnder(call[a].key)

\* However adjustments overlap with each other and with other entries, each is
\* posted once and the books balance (adjust-balance).
AdjustmentsHold == AdjustmentsBalance /\ AdjustedOnce

\* Whoever pages to the end of a list has seen every row that was there at the
\* start, and no page repeats a row, though rows were added meanwhile and some
\* share a time.  The games page with unaccountedOnly repeats none either; it
\* may pass over matches.
PagesComplete ==
  /\ IsInjective(reader.shown)
  /\ (reader.done /\ reader.list # "games") => reader.begun \subseteq ToSet(reader.shown)
=============================================================================
