----------------------------- MODULE WireProtocol -----------------------------
(***************************************************************************)
(* The binary snapshot: encodeSnapshot writes one field after the other    *)
(* into a buffer sized by an estimate; decodeSnapshot reads it back, where *)
(* each read's place depends on the counts and lengths read before it.  A  *)
(* buffer is the fields written, by offset.  Positions are eighths of a    *)
(* unit; on the wire they are quarters relative to an origin.              *)
(***************************************************************************)
EXTENDS Integers, Sequences, FiniteSets, FiniteSetsExt, Sums

CONSTANTS MaxSnakes, MaxPoints, MaxPellets, MaxRemoved, MaxChars,  \* sizes of a snapshot
          Half,            \* largest i16, scaled down
          Reach            \* positions lie this far from zero

\* A nickname has at most sixteen characters and a body at most 120 points,
\* so every length and count fits the integer it is written as.
ASSUME WireConstants ==
  /\ {MaxSnakes, MaxPoints, MaxPellets, MaxRemoved, MaxChars, Half, Reach} \subseteq Nat
  /\ 3 * MaxChars < 256
  /\ MaxSnakes < 65536 /\ MaxPoints < 65536 /\ MaxPellets < 65536 /\ MaxRemoved < 65536

VARIABLES snapshot,   \* what is sent
          origin,     \* what positions are relative to
          wire,       \* the fields by offset
          written,    \* where the encoder writes next
          sent,       \* how much it has encoded
          offset,     \* where the decoder reads next
          got         \* what it has decoded
wireVars == <<snapshot, origin, wire, written, sent, offset, got>>

SnakeState == [chars : 0 .. MaxChars, bytes : 0 .. 3 * MaxChars, points : 0 .. MaxPoints, at : -Reach .. Reach]
\* UTF-8 takes one to three bytes for a UTF-16 unit.
IsNickname(s) == s.chars <= s.bytes /\ s.bytes <= 3 * s.chars

Snapshots ==
  [snakes : UNION {[1 .. n -> {s \in SnakeState : IsNickname(s)}] : n \in 0 .. MaxSnakes},
   food : 0 .. MaxPellets, removedSnakes : 0 .. MaxRemoved, removedFood : 0 .. MaxRemoved]

NothingSent == [header |-> FALSE, snakes |-> 0, food |-> 0, removedSnakes |-> 0, removedFood |-> 0]
NothingRead == [header |-> FALSE, snakes |-> <<>>, food |-> 0, removedSnakes |-> 0, removedFood |-> 0,
                sound |-> TRUE]

WireInit ==
  /\ snapshot \in Snapshots /\ origin \in {0, 1}
  /\ wire = <<>> /\ written = 0 /\ sent = NothingSent /\ offset = 0 /\ got = NothingRead

---------------------------------------------------------------------------
(* Writing. *)

HeaderBytes == 22
UuidBytes == 16

estimateSize(s) ==
  HeaderBytes
    + Total([i \in 1 .. Len(s.snakes) |-> UuidBytes + 1 + s.snakes[i].chars * 3 + 9 + s.snakes[i].points * 4])
    + s.food * 9 + s.removedSnakes * UuidBytes + s.removedFood * 4

u8(value) == value % 256
u16(value) == value % 65536
clampI16(value) == Max({-Half - 1, Min({Half, value})})
\* Math.round of a distance in eighths to quarters: halves go up.
quantise(position, base) == clampI16((position - base + 1) \div 2)

F(field, width, value) == [field |-> field, width |-> width, value |-> value]

headerFields(s) ==
  [o \in {0, 1, 2, 4, 6, 8, 10, 14, 18} |->
     IF o = 0 THEN F("type", 1, 1) ELSE IF o = 1 THEN F("flags", 1, 0)
     ELSE IF o = 2 THEN F("snakeCount", 2, u16(Len(s.snakes))) ELSE IF o = 4 THEN F("foodCount", 2, u16(s.food))
     ELSE IF o = 6 THEN F("removedSnakeCount", 2, u16(s.removedSnakes))
     ELSE IF o = 8 THEN F("removedFoodCount", 2, u16(s.removedFood))
     ELSE IF o = 10 THEN F("tick", 4, 0) ELSE IF o = 14 THEN F("serverTime", 4, 0) ELSE F("ackSeq", 4, 0)]

snakeBytes(s) == UuidBytes + 1 + s.bytes + 9 + 4 * s.points

\* The fields of a snake written from at on, its positions relative to base; a
\* nickname of no bytes leaves none.
snakeFields(s, base, at) ==
  LET rest == at + UuidBytes + 1 + s.bytes
      xs == {rest + 9 + 4 * i : i \in 0 .. s.points - 1}
      ys == {rest + 11 + 4 * i : i \in 0 .. s.points - 1}
      name == IF s.bytes = 0 THEN {} ELSE {at + UuidBytes + 1}
  IN  [o \in {at, at + UuidBytes} \cup name \cup {rest, rest + 2, rest + 4, rest + 6, rest + 7} \cup xs \cup ys |->
         IF o = at THEN F("id", UuidBytes, 0)
         ELSE IF o = at + UuidBytes THEN F("nicknameLength", 1, u8(s.bytes))
         ELSE IF o < rest THEN F("nickname", s.bytes, 0)
         ELSE IF o = rest THEN F("angle", 2, 0) ELSE IF o = rest + 2 THEN F("mass", 2, 0)
         ELSE IF o = rest + 4 THEN F("radius", 2, 0) ELSE IF o = rest + 6 THEN F("state", 1, 0)
         ELSE IF o = rest + 7 THEN F("pointCount", 2, u16(s.points))
         ELSE IF o \in xs THEN F("x", 2, quantise(s.at, base)) ELSE F("y", 2, quantise(s.at, base))]

foodFields(at) ==
  [o \in {at, at + 4, at + 6, at + 8} |->
     IF o = at THEN F("foodId", 4, 0) ELSE IF o = at + 4 THEN F("x", 2, 0)
     ELSE IF o = at + 6 THEN F("y", 2, 0) ELSE F("foodMass", 1, 0)]

laid(fields) ==
  [o \in DOMAIN wire \cup DOMAIN fields |-> IF o \in DOMAIN fields THEN fields[o] ELSE wire[o]]

writeHeader ==
  /\ ~sent.header /\ sent' = [sent EXCEPT !.header = TRUE]
  /\ wire' = laid(headerFields(snapshot)) /\ written' = HeaderBytes
  /\ UNCHANGED <<snapshot, origin, offset, got>>

writeSnake ==
  /\ sent.header /\ sent.snakes < Len(snapshot.snakes) /\ sent' = [sent EXCEPT !.snakes = @ + 1]
  /\ LET s == snapshot.snakes[sent.snakes + 1]
     IN  wire' = laid(snakeFields(s, origin, written)) /\ written' = written + snakeBytes(s)
  /\ UNCHANGED <<snapshot, origin, offset, got>>

SnakesWritten == sent.header /\ sent.snakes = Len(snapshot.snakes)

writeFood ==
  /\ SnakesWritten /\ sent.food < snapshot.food /\ sent' = [sent EXCEPT !.food = @ + 1]
  /\ wire' = laid(foodFields(written)) /\ written' = written + 9
  /\ UNCHANGED <<snapshot, origin, offset, got>>

writeRemovedSnake ==
  /\ SnakesWritten /\ sent.food = snapshot.food
  /\ sent.removedSnakes < snapshot.removedSnakes /\ sent' = [sent EXCEPT !.removedSnakes = @ + 1]
  /\ wire' = laid([o \in {written} |-> F("id", UuidBytes, 0)]) /\ written' = written + UuidBytes
  /\ UNCHANGED <<snapshot, origin, offset, got>>

writeRemovedFood ==
  /\ SnakesWritten /\ sent.food = snapshot.food /\ sent.removedSnakes = snapshot.removedSnakes
  /\ sent.removedFood < snapshot.removedFood /\ sent' = [sent EXCEPT !.removedFood = @ + 1]
  /\ wire' = laid([o \in {written} |-> F("foodId", 4, 0)]) /\ written' = written + 4
  /\ UNCHANGED <<snapshot, origin, offset, got>>

\* The buffer is sent when all of it is written.
Encoded ==
  /\ SnakesWritten /\ sent.food = snapshot.food
  /\ sent.removedSnakes = snapshot.removedSnakes /\ sent.removedFood = snapshot.removedFood

---------------------------------------------------------------------------
(* Reading: at every step, the fields the decoder takes and whether they are
   where it takes them. *)

isAt(at, field, width) == at \in DOMAIN wire /\ wire[at].field = field /\ wire[at].width = width
valueAt(at) == IF at \in DOMAIN wire THEN wire[at].value ELSE 0

snakeCount == valueAt(2)
foodCount == valueAt(4)
removedSnakeCount == valueAt(6)
removedFoodCount == valueAt(8)

readHeader ==
  /\ Encoded /\ ~got.header
  /\ got' = [got EXCEPT !.header = TRUE,
                        !.sound = /\ isAt(0, "type", 1) /\ valueAt(0) = 1
                                  /\ isAt(2, "snakeCount", 2) /\ isAt(4, "foodCount", 2)
                                  /\ isAt(6, "removedSnakeCount", 2) /\ isAt(8, "removedFoodCount", 2)]
  /\ offset' = HeaderBytes
  /\ UNCHANGED <<snapshot, origin, wire, written, sent>>

afterFixedNickname(at) == at + UuidBytes + 1  \* mutant: the nickname is not skipped

afterNickname(at) == at + UuidBytes + 1 + valueAt(at + UuidBytes)

readSnake ==
  /\ got.header /\ Len(got.snakes) < snakeCount
  /\ LET rest == afterNickname(offset)
         pointCount == valueAt(rest + 7)
         points == rest + 9
     IN  /\ offset' = points + pointCount * 4
         /\ got' = [got EXCEPT !.snakes = Append(@,
              [points |-> pointCount,
               at |-> IF pointCount = 0 THEN 0 ELSE valueAt(points) * 2 + origin,
               sound |-> /\ isAt(offset, "id", UuidBytes) /\ isAt(offset + UuidBytes, "nicknameLength", 1)
                         /\ isAt(rest, "angle", 2) /\ isAt(rest + 2, "mass", 2)
                         /\ isAt(rest + 4, "radius", 2) /\ isAt(rest + 6, "state", 1)
                         /\ isAt(rest + 7, "pointCount", 2)
                         /\ \A i \in 0 .. pointCount - 1 : isAt(points + 4 * i, "x", 2)
                                                          /\ isAt(points + 4 * i + 2, "y", 2)])]
  /\ UNCHANGED <<snapshot, origin, wire, written, sent>>

SnakesRead == got.header /\ Len(got.snakes) = snakeCount

\* The counted tails, one record after the other in the order they are sent.
readFood ==
  /\ SnakesRead /\ got.food < foodCount
  /\ got' = [got EXCEPT !.food = @ + 1,
                        !.sound = @ /\ isAt(offset, "foodId", 4) /\ isAt(offset + 4, "x", 2)
                                    /\ isAt(offset + 6, "y", 2) /\ isAt(offset + 8, "foodMass", 1)]
  /\ offset' = offset + 9
  /\ UNCHANGED <<snapshot, origin, wire, written, sent>>

readRemovedSnake ==
  /\ SnakesRead /\ got.food = foodCount /\ got.removedSnakes < removedSnakeCount
  /\ got' = [got EXCEPT !.removedSnakes = @ + 1, !.sound = @ /\ isAt(offset, "id", UuidBytes)]
  /\ offset' = offset + UuidBytes
  /\ UNCHANGED <<snapshot, origin, wire, written, sent>>

readRemovedFood ==
  /\ SnakesRead /\ got.food = foodCount /\ got.removedSnakes = removedSnakeCount
  /\ got.removedFood < removedFoodCount
  /\ got' = [got EXCEPT !.removedFood = @ + 1, !.sound = @ /\ isAt(offset, "foodId", 4)]
  /\ offset' = offset + 4
  /\ UNCHANGED <<snapshot, origin, wire, written, sent>>

Decoded ==
  /\ SnakesRead /\ got.food = foodCount
  /\ got.removedSnakes = removedSnakeCount /\ got.removedFood = removedFoodCount

WireNext ==
  \/ writeHeader \/ writeSnake \/ writeFood \/ writeRemovedSnake \/ writeRemovedFood
  \/ readHeader \/ readSnake \/ readFood \/ readRemovedSnake \/ readRemovedFood
WireSpec == WireInit /\ [][WireNext]_wireVars

---------------------------------------------------------------------------
(* Properties. *)

\* Encoding never overruns the buffer it allocated, whatever the nicknames
\* are made of (estimateSize).
EstimateHolds == written <= estimateSize(snapshot)

close(position, decoded) == decoded - position \in -1 .. 1
inWindow(position) == (position - origin) \div 2 \in -Half - 1 .. Half - 1

\* The decoder finds every field where the encoder put it, reads as much as
\* was sent, stops exactly at the end of what was written, and puts every
\* position inside the window within an eighth of where it was
\* (encodeSnapshot, decodeSnapshot).
DecodesWhatWasSent ==
  /\ got.sound
  /\ \A i \in 1 .. Len(got.snakes) : LET sentSnake == snapshot.snakes[i]
                                         seen == got.snakes[i]
                                     IN  /\ seen.sound /\ seen.points = sentSnake.points
                                         /\ seen.points > 0 /\ inWindow(sentSnake.at)
                                              => close(sentSnake.at, seen.at)
  /\ Decoded => /\ offset = written /\ Len(got.snakes) = Len(snapshot.snakes)
                /\ got.food = snapshot.food /\ got.removedSnakes = snapshot.removedSnakes
                /\ got.removedFood = snapshot.removedFood

\* A snapshot survives the wire: it fits its buffer and is decoded field by
\* field as it was encoded (encodeSnapshot, decodeSnapshot).
SnapshotSurvives == EstimateHolds /\ DecodesWhatWasSent
=============================================================================
