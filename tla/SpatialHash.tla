----------------------------- MODULE SpatialHash -----------------------------
(***************************************************************************)
(* The uniform grid of the broad phase: buckets of ids by cell, and the    *)
(* query of a circle, which returns the ids of every cell its square       *)
(* touches.  placed is what the grid should hold, kept by the caller.      *)
(***************************************************************************)
EXTENDS Integers, Sequences, SequencesExt, Functions, Maps

CONSTANTS CellSize,
          Extent,          \* the plane of the model reaches this far from zero
          Radii,
          Things           \* ids

ASSUME HashConstants ==
  /\ CellSize \in Nat \ {0} /\ Extent \in Nat /\ Radii \subseteq Nat

VARIABLES buckets,   \* cell -> sequence of ids
          placed     \* id -> its point
hashVars == <<buckets, placed>>

Coordinates == -Extent .. Extent

\* Math.floor, below zero as well.
cellOf(value) == value \div CellSize
cellKey(x, y) == <<cellOf(x), cellOf(y)>>

bucketAt(key) == IF key \in DOMAIN buckets THEN buckets[key] ELSE <<>>

insert(id, x, y) ==
  LET key == cellKey(x, y)
  IN  buckets' = put(buckets, key, Append(bucketAt(key), id))

\* Swap with the last and drop the last.
swapRemove(bucket, index) ==
  Front([bucket EXCEPT ![index] = Last(bucket)])

remove(id, x, y) ==
  LET key == cellKey(x, y)
      bucket == bucketAt(key)
      index == CHOOSE i \in DOMAIN bucket : bucket[i] = id
      rest == swapRemove(bucket, index)
  IN  buckets' = IF id \notin ToSet(bucket) THEN buckets
                 ELSE IF rest = <<>> THEN Restrict(buckets, DOMAIN buckets \ {key})
                 ELSE [buckets EXCEPT ![key] = rest]

cellsBefore(x, y, radius) ==  \* mutant: the last column is left out
  (cellOf(x - radius) .. cellOf(x + radius) - 1) \X (cellOf(y - radius) .. cellOf(y + radius))

cellsOf(x, y, radius) ==
  (cellOf(x - radius) .. cellOf(x + radius)) \X (cellOf(y - radius) .. cellOf(y + radius))

queryCircle(x, y, radius) == UNION {ToSet(bucketAt(key)) : key \in cellsOf(x, y, radius)}

Put(id) ==
  /\ id \notin DOMAIN placed
  /\ \E x, y \in Coordinates : insert(id, x, y) /\ placed' = put(placed, id, <<x, y>>)

Take(id) ==
  /\ id \in DOMAIN placed
  /\ remove(id, placed[id][1], placed[id][2])
  /\ placed' = Restrict(placed, DOMAIN placed \ {id})

clear == placed # <<>> /\ buckets' = <<>> /\ placed' = <<>>

HashInit == buckets = <<>> /\ placed = <<>>
HashNext == clear \/ \E id \in Things : Put(id) \/ Take(id)
HashSpec == HashInit /\ [][HashNext]_hashVars

---------------------------------------------------------------------------

within(x, y, p, radius) == (p[1] - x) * (p[1] - x) + (p[2] - y) * (p[2] - y) <= radius * radius

\* The broad phase misses nothing and invents nothing: whatever was inserted
\* and removed, a query returns every thing within the radius, also across
\* zero and on a cell's edge, and only things still placed (queryCircle,
\* insert, remove).
QueryFindsAll ==
  /\ placed = <<>> => buckets = <<>>
  /\ placed # <<>> => \A x, y \in Coordinates, radius \in Radii :
       /\ \A id \in DOMAIN placed :
            within(x, y, placed[id], radius) => id \in queryCircle(x, y, radius)
       /\ queryCircle(x, y, radius) \subseteq DOMAIN placed
=============================================================================
