------------------------ MODULE MarlinStripesProofs ------------------------
(***************************************************************************)
(* The stripe scheduler for every grid, shape and tile raster and any number *)
(* of launches.  There are two halves:                                      *)
(*                                                                          *)
(*  - the partition, which is arithmetic only: the output tiles, numbered in *)
(*    the order the blocks take them (Positions), each have a tile of their  *)
(*    own (TileIs); the blocks First .. Last of a position split its k steps *)
(*    (Rows) and, when they are several, have a lock no other position uses  *)
(*    (LockIs); a block takes its shares in order and leaves none out        *)
(*    (EnteredIs, NextSliceIs, LeftIs);                                      *)
(*  - the protocol, which uses no arithmetic but that: a lock counts the     *)
(*    blocks that are done with its position, from the last one down         *)
(*    (CountsAt), and the slot holds their products (PartialAt, Stored).     *)
(***************************************************************************)
EXTENDS MarlinStripes, TLAPS

-----------------------------------------------------------------------------
(* Numbers.                                                                 *)

\* A number written as quotient and remainder.
LEMMA DivMod ==
  ASSUME NEW d \in Nat \ {0}, NEW q \in Nat, NEW m \in 0 .. d - 1
  PROVE  (d * q + m) \div d = q /\ (d * q + m) % d = m /\ d * q + m \in Nat
<1>1. (q * d + m) \div d = q /\ (q * d + m) % d = m
  OBVIOUS
<1>2. q * d = d * q /\ d * q \in Nat
  OBVIOUS
<1> QED BY <1>1, <1>2

\* What integer division leaves.
LEMMA DivBounds ==
  ASSUME NEW x \in Nat, NEW d \in Nat \ {0}
  PROVE  /\ x \div d \in Nat /\ d * (x \div d) =< x /\ x < d * (x \div d) + d
         /\ x % d \in 0 .. d - 1 /\ x = d * (x \div d) + (x % d)
<1>1. x \div d \in Int /\ x % d \in 0 .. d - 1
  OBVIOUS
<1>2. d * (x \div d) =< x
  OBVIOUS
<1>3. x < d * (x \div d) + d
  OBVIOUS
<1>4. ~ (x \div d < 0)
  OBVIOUS
<1>5. x = d * (x \div d) + (x % d)
  OBVIOUS
<1> QED BY <1>1, <1>2, <1>3, <1>4, <1>5

\* Products keep the order.
LEMMA MulStep ==
  ASSUME NEW d \in Nat, NEW a \in Int
  PROVE  d * (a + 1) = d * a + d /\ d * (a - 1) = d * a - d /\ d * a \in Int
OBVIOUS

LEMMA MulNat ==
  ASSUME NEW d \in Nat, NEW a \in Nat
  PROVE  d * a \in Nat
OBVIOUS

LEMMA MulMono ==
  ASSUME NEW d \in Nat, NEW a \in Nat, NEW b \in Nat, a < b
  PROVE  d * a + d =< d * b
<1>1. PICK e \in Nat : b = (a + 1) + e
  <2>1. b - (a + 1) \in Nat /\ b = (a + 1) + (b - (a + 1))
    OBVIOUS
  <2> QED BY <2>1
<1>2. d * b = d * (a + 1) + d * e
  BY <1>1
<1>3. d * e \in Nat /\ d * (a + 1) = d * a + d /\ d * a \in Nat
  OBVIOUS
<1> QED BY <1>2, <1>3

LEMMA MulLess ==
  ASSUME NEW d \in Nat, NEW a \in Nat, NEW b \in Nat, d * a < d * b
  PROVE  a < b
<1>1. CASE a = b
  BY <1>1
<1>2. CASE b < a
  <2>1. d * b + d =< d * a
    BY <1>2, MulMono
  <2>2. d * a \in Nat /\ d * b \in Nat
    BY MulNat
  <2> QED BY <2>1, <2>2
<1> QED BY <1>1, <1>2

\* Quotient and remainder are unique.
LEMMA DivIs ==
  ASSUME NEW x \in Nat, NEW d \in Nat \ {0}, NEW q \in Nat,
         d * q =< x, x < d * q + d
  PROVE  x \div d = q /\ x % d = x - d * q
<1> DEFINE p == x \div d
<1>1. p \in Nat /\ d * p =< x /\ x < d * p + d /\ x = d * p + (x % d) /\ x % d \in Nat
  BY DivBounds
<1> HIDE DEF p
<1>2. d * p \in Nat /\ d * q \in Nat
  BY <1>1, MulNat
<1>3. CASE p < q
  <2>1. d * p + d =< d * q
    BY <1>1, <1>3, MulMono
  <2> QED BY <1>1, <1>2, <2>1
<1>4. CASE q < p
  <2>1. d * q + d =< d * p
    BY <1>1, <1>4, MulMono
  <2> QED BY <1>1, <1>2, <2>1
<1>5. p = q
  BY <1>1, <1>3, <1>4
<1>6. x % d = x - d * q
  BY <1>1, <1>2, <1>5
<1> QED BY <1>5, <1>6 DEF p

\* Rounding up.
LEMMA DivCeilIs ==
  ASSUME NEW x \in Nat, NEW d \in Nat \ {0}
  PROVE  /\ DivCeil(x, d) \in Nat
         /\ x =< d * DivCeil(x, d) /\ d * DivCeil(x, d) < x + d
         /\ x > 0 => DivCeil(x, d) > 0
<1> DEFINE y == x + d - 1
           q == y \div d
<1>1. y \in Nat
  OBVIOUS
<1>2. q \in Nat /\ d * q =< y /\ y < d * q + d
  BY <1>1, DivBounds
<1>3. q = DivCeil(x, d)
  BY DEF DivCeil
<1> HIDE DEF q
<1>4. x > 0 => q > 0
  <2> SUFFICES ASSUME x > 0, q = 0 PROVE FALSE
    BY <1>2
  <2>1. d * q = 0
    OBVIOUS
  <2> QED BY <1>2, <2>1
<1>5. d * q \in Nat
  BY <1>2, MulNat
<1> QED BY <1>2, <1>3, <1>4, <1>5

\* Rounding up is the only number in its range.
LEMMA DivCeilUnique ==
  ASSUME NEW x \in Nat, NEW d \in Nat \ {0}, NEW q \in Nat,
         x =< d * q, d * q < x + d
  PROVE  DivCeil(x, d) = q
<1>1. x + d - 1 \in Nat /\ d * q \in Nat
  BY MulNat
<1>2. d * q =< x + d - 1 /\ x + d - 1 < d * q + d
  BY <1>1
<1> QED BY <1>1, <1>2, DivIs DEF DivCeil

-----------------------------------------------------------------------------
(* The partition.                                                           *)

\* Tiles of a launch are numbered in the order the blocks take them: the whole
\* tiles of part 1, then the columns of part 2.
Whole(sh) == MnTiles(sh) - Part2Tiles(sh)
Positions(sh) == 0 .. MnTiles(sh) - 1

\* The first and the last block that work on a position.
First(sh, a) ==
  IF a < Whole(sh) THEN a % Grid ELSE (sh.k * (a - Whole(sh))) \div Iters(sh)
Last(sh, a) ==
  IF a < Whole(sh) THEN a % Grid
  ELSE (sh.k * (a - Whole(sh)) + sh.k - 1) \div Iters(sh)
Mine(sh, b, a) == b \in First(sh, a) .. Last(sh, a)
SharedAt(sh, a) == First(sh, a) < Last(sh, a)

\* The k steps of block b at a position: from RowOf up to EndOf.
RowOf(sh, a, b) ==
  IF b = First(sh, a) THEN 0 ELSE Iters(sh) * b - sh.k * (a - Whole(sh))
EndOf(sh, a, b) ==
  IF b = Last(sh, a) THEN sh.k ELSE RowOf(sh, a, b + 1)

\* The lock that orders the blocks of a shared position.
LockOf(sh, a) ==
  IF Part2Tiles(sh) >= Grid THEN Last(sh, a) ELSE a - Whole(sh)

\* The output tile at a position.
TileAt(sh, a) ==
  IF Persistent(sh) THEN PersistentTile(sh, a) ELSE <<a \div sh.n, a % sh.n>>

\* The fields of a shape.
LEMMA ShapeFields ==
  ASSUME NEW sh \in Shapes
  PROVE  /\ sh.k \in Nat \ {0} /\ sh.par \in Nat \ {0} /\ sh.n \in Nat \ {0}
         /\ MnTiles(sh) \in Nat \ {0} /\ MnTiles(sh) = sh.par * sh.n
         /\ Grid \in Nat \ {0}
         /\ sh.raster \in {"stripes", "groupedM4", "bStationary"}
<1>1. /\ sh.k \in Nat \ {0} /\ sh.par \in Nat \ {0} /\ sh.n \in Nat \ {0}
      /\ sh.raster \in {"stripes", "groupedM4", "bStationary"}
  BY ShapeAssumption DEF Shapes
<1>2. ASSUME NEW x \in Nat \ {0}, NEW y \in Nat \ {0} PROVE x * y \in Nat \ {0}
  BY <1>2
<1> QED BY <1>1, <1>2, GridAssumption DEF MnTiles

\* How many tiles are whole, and how many of them each block does.
LEMMA PartIs ==
  ASSUME NEW sh \in Shapes
  PROVE  /\ Part2Tiles(sh) \in Nat /\ Whole(sh) \in Nat
         /\ MnTiles(sh) = Whole(sh) + Part2Tiles(sh)
         /\ Persistent(sh) => Part2Tiles(sh) = 0
         /\ ~ Persistent(sh) =>
              \E q \in Nat : /\ Whole(sh) = Grid * q
                             /\ \A b \in Blocks : Part1Iters(sh, b) = q
<1> DEFINE t == MnTiles(sh)
           q == t \div Grid
           m == t % Grid
           P == Part2Tiles(sh)
<1>1. t \in Nat \ {0} /\ Grid \in Nat \ {0}
  BY ShapeFields
<1>2. q \in Nat /\ m \in 0 .. Grid - 1 /\ t = Grid * q + m /\ Grid * q \in Nat
  BY <1>1, DivBounds, MulNat
<1>3. P = IF Persistent(sh) THEN 0 ELSE IF t <= Grid THEN t
          ELSE IF m * 3 <= Grid THEN m + Grid ELSE m
  BY DEF Part2Tiles
<1>4. Whole(sh) = t - P
  BY DEF Whole
<1>5. ~ Persistent(sh) => \A b \in Blocks : Part1Iters(sh, b) = (t - P) \div Grid
  BY DEF Part1Iters
<1> HIDE DEF t, q, m, P
<1>6. t > Grid => q > 0 /\ Grid * (q - 1) = Grid * q - Grid
  <2>1. q = 0 => Grid * q = 0
    BY <1>1
  <2>2. Grid * (q - 1) = Grid * q - Grid
    BY <1>1, <1>2, MulStep
  <2> QED BY <1>1, <1>2, <2>1, <2>2
<1>7. P \in Nat /\ P =< t
  BY <1>1, <1>2, <1>3, <1>6
<1>8. ASSUME ~ Persistent(sh)
      PROVE  \E p \in Nat : t - P = Grid * p
  <2>1. CASE t <= Grid
    <3>1. t - P = Grid * 0
      BY <1>1, <1>3, <1>8, <2>1
    <3> QED BY <3>1
  <2>2. CASE t > Grid /\ m * 3 <= Grid
    <3>1. t - P = Grid * (q - 1) /\ q - 1 \in Nat
      BY <1>1, <1>2, <1>3, <1>6, <1>8, <2>2
    <3> QED BY <3>1
  <2>3. CASE t > Grid /\ ~ (m * 3 <= Grid)
    <3>1. t - P = Grid * q
      BY <1>1, <1>2, <1>3, <1>8, <2>3
    <3> QED BY <3>1, <1>2
  <2> QED BY <1>1, <2>1, <2>2, <2>3
<1>9. ASSUME NEW p \in Nat, t - P = Grid * p
      PROVE  (t - P) \div Grid = p
  <2>1. Grid * p \in Nat
    BY <1>1, MulNat
  <2> QED BY <1>1, <1>9, <2>1, DivIs
<1>10. t = Whole(sh) + P /\ Whole(sh) \in Nat
  BY <1>1, <1>4, <1>7
<1>11. ASSUME ~ Persistent(sh)
       PROVE  \E p \in Nat : /\ Whole(sh) = Grid * p
                             /\ \A b \in Blocks : Part1Iters(sh, b) = p
  <2>1. PICK p \in Nat : t - P = Grid * p
    BY <1>8, <1>11
  <2>2. (t - P) \div Grid = p
    BY <1>9, <2>1
  <2>3. \A b \in Blocks : Part1Iters(sh, b) = p
    BY <1>5, <1>11, <2>2, Zenon
  <2> QED BY <1>4, <2>1, <2>3
<1> QED BY <1>3, <1>7, <1>10, <1>11 DEF t, P

\* Part 1 deals the whole tiles out, one in Grid to each block.
LEMMA Part1Is ==
  ASSUME NEW sh \in Shapes, NEW b \in Blocks
  PROVE  LET m == Part1Iters(sh, b) IN
         /\ m \in Nat /\ Whole(sh) =< b + Grid * m
         /\ m > 0 => b + Grid * m < Whole(sh) + Grid
<1> DEFINE m == Part1Iters(sh, b)
           W == Whole(sh)
<1>1. W \in Nat /\ Grid \in Nat \ {0} /\ b \in 0 .. Grid - 1 /\ MnTiles(sh) \in Nat
  BY PartIs, ShapeFields DEF Blocks
<1>2. CASE Persistent(sh)
  <2>1. W = MnTiles(sh)
    BY <1>1, <1>2, PartIs DEF Whole
  <2>2. CASE b < W
    <3>1. m = DivCeil(W - b, Grid)
      BY <1>2, <2>1, <2>2 DEF Part1Iters
    <3>2. W - b \in Nat
      BY <1>1, <2>2
    <3>3. m \in Nat /\ W - b =< Grid * m /\ Grid * m < W - b + Grid
      BY <1>1, <3>1, <3>2, DivCeilIs
    <3> HIDE DEF m, W
    <3>4. Grid * m \in Nat
      BY <1>1, <3>3, MulNat
    <3>5. W =< b + Grid * m /\ b + Grid * m < W + Grid
      BY <1>1, <3>3, <3>4
    <3> QED BY <3>3, <3>5 DEF m, W
  <2>3. CASE ~ (b < W)
    <3>1. m = 0
      BY <1>2, <2>1, <2>3 DEF Part1Iters
    <3>2. Grid * 0 = 0
      BY <1>1
    <3> HIDE DEF m, W
    <3>3. m \in Nat /\ W =< b + Grid * m /\ ~ (m > 0)
      BY <1>1, <2>3, <3>1, <3>2
    <3> QED BY <3>3 DEF m, W
  <2> QED BY <2>2, <2>3
<1>3. CASE ~ Persistent(sh)
  <2>1. m \in Nat /\ W = Grid * m
    BY <1>3, PartIs
  <2> HIDE DEF m, W
  <2>2. W =< b + Grid * m /\ b + Grid * m < W + Grid
    BY <1>1, <2>1
  <2> QED BY <2>1, <2>2 DEF m, W
<1> QED BY <1>2, <1>3

\* The length of a stripe: enough for the part 2 tiles, and no block's worth
\* more.  With a tile per block it is at least a tile.
LEMMA ItersIs ==
  ASSUME NEW sh \in Shapes
  PROVE  /\ Iters(sh) \in Nat
         /\ Part2Tiles(sh) > 0 => Iters(sh) > 0
         /\ sh.k * Part2Tiles(sh) =< Grid * Iters(sh)
         /\ Part2Tiles(sh) >= Grid => Iters(sh) >= sh.k
<1> DEFINE it == Iters(sh)
           P == Part2Tiles(sh)
           k == sh.k
           x == k * P
<1>1. P \in Nat /\ Grid \in Nat \ {0} /\ k \in Nat \ {0}
  BY PartIs, ShapeFields
<1>2. it = DivCeil(x, Grid)
  BY DEF Iters
<1> HIDE DEF it, P, k
<1>3. x \in Nat /\ (P > 0 => x > 0)
  BY <1>1
<1> HIDE DEF x
<1>4. it \in Nat /\ x =< Grid * it /\ (x > 0 => it > 0)
  BY <1>1, <1>2, <1>3, DivCeilIs
<1>5. ASSUME P >= Grid PROVE it >= k
  <2> SUFFICES ASSUME it < k PROVE FALSE
    BY <1>1, <1>4
  <2>1. Grid * it + Grid =< Grid * k
    BY <1>1, <1>4, MulMono
  <2>2. k * Grid =< k * P
    <3>1. CASE P = Grid
      BY <1>1, <3>1
    <3>2. CASE Grid < P
      <4>1. k * Grid + k =< k * P
        BY <1>1, <3>2, MulMono
      <4>2. k * Grid \in Nat /\ k * P \in Nat
        BY <1>1, MulNat
      <4> QED BY <1>1, <4>1, <4>2
    <3> QED BY <1>1, <1>5, <3>1, <3>2
  <2>3. Grid * k = k * Grid /\ Grid * it \in Nat /\ k * Grid \in Nat
    BY <1>1, <1>4
  <2> QED BY <1>1, <1>3, <1>4, <2>1, <2>2, <2>3 DEF x
<1> QED BY <1>3, <1>4, <1>5 DEF it, P, k, x

\* The blocks whose stripes meet a column of part 2.
LEMMA StripeBlocks ==
  ASSUME NEW sh \in Shapes, NEW c \in Nat, c < Part2Tiles(sh)
  PROVE  LET it == Iters(sh)
             a == Whole(sh) + c
             f == First(sh, a)
             l == Last(sh, a)
         IN  /\ a \in Positions(sh) /\ a - Whole(sh) = c /\ ~ Persistent(sh)
             /\ it \in Nat \ {0} /\ sh.k * c \in Nat
             /\ f \in Blocks /\ l \in Blocks /\ f =< l
             /\ it * f \in Nat /\ it * l \in Nat
             /\ it * f =< sh.k * c /\ sh.k * c < it * f + it
             /\ it * l < sh.k * c + sh.k /\ sh.k * c + sh.k =< it * l + it
             /\ Part2Tiles(sh) >= Grid => l =< f + 1
<1> DEFINE it == Iters(sh)
           a == Whole(sh) + c
           f == First(sh, a)
           l == Last(sh, a)
           P == Part2Tiles(sh)
           k == sh.k
           W == Whole(sh)
           x == k * c
<1>1. /\ P \in Nat /\ W \in Nat /\ Grid \in Nat \ {0} /\ k \in Nat \ {0}
      /\ MnTiles(sh) = W + P
  BY PartIs, ShapeFields
<1>2. it \in Nat /\ it > 0 /\ k * P =< Grid * it /\ (P >= Grid => it >= k)
  BY <1>1, ItersIs
<1>3. ~ Persistent(sh)
  BY <1>1, PartIs
<1>4. a \in Positions(sh) /\ a - W = c /\ ~ (a < W)
  BY <1>1 DEF Positions
<1>5. f = x \div it /\ l = (x + k - 1) \div it
  BY <1>4 DEF First, Last
<1> HIDE DEF it, f, l, P, W, k
<1>6. x \in Nat
  BY <1>1, MulNat
<1>7. x + k =< k * P
  BY <1>1, MulMono DEF P
<1> HIDE DEF x
<1>8. f \in Nat /\ it * f =< x /\ x < it * f + it
  BY <1>2, <1>5, <1>6, DivBounds
<1>9. l \in Nat /\ it * l =< x + k - 1 /\ x + k - 1 < it * l + it
  <2> DEFINE y == x + k - 1
  <2>1. y \in Nat /\ l = y \div it
    BY <1>1, <1>5, <1>6
  <2> HIDE DEF y
  <2>2. it \in Nat \ {0}
    BY <1>2
  <2>3. l \in Nat /\ it * l =< y /\ y < it * l + it
    BY <2>1, <2>2, DivBounds, Zenon
  <2> QED BY <2>3 DEF y
<1>10. it * f \in Nat /\ it * l \in Nat /\ k * P \in Nat /\ it * Grid = Grid * it
  BY <1>1, <1>2, <1>8, <1>9, MulNat
<1>11. it * f < it * Grid /\ it * l < it * Grid
  BY <1>1, <1>2, <1>6, <1>7, <1>8, <1>9, <1>10
<1>12. f < Grid /\ l < Grid
  BY <1>1, <1>2, <1>8, <1>9, <1>11, MulLess
<1>13. f =< l
  <2> SUFFICES ASSUME l < f PROVE FALSE
    BY <1>8, <1>9
  <2>1. it * l + it =< it * f
    BY <1>2, <1>8, <1>9, MulMono
  <2> QED BY <1>1, <1>2, <1>6, <1>8, <1>9, <1>10, <2>1
<1>14. ASSUME P >= Grid PROVE l =< f + 1
  <2> SUFFICES ASSUME f + 1 < l PROVE FALSE
    BY <1>8, <1>9
  <2>1. it * (f + 1) + it =< it * l
    BY <1>2, <1>8, <1>9, MulMono
  <2>2. it * (f + 1) = it * f + it
    BY <1>2, <1>8, MulStep
  <2> QED BY <1>1, <1>2, <1>6, <1>8, <1>9, <1>10, <1>14, <2>1, <2>2
<1>15. f \in Blocks /\ l \in Blocks
  BY <1>1, <1>8, <1>9, <1>12 DEF Blocks
<1>16. it * l < x + k /\ x + k =< it * l + it
  BY <1>1, <1>2, <1>6, <1>9, <1>10
<1> QED BY <1>2, <1>3, <1>4, <1>6, <1>8, <1>10, <1>13, <1>14, <1>15, <1>16
        DEF it, f, l, P, W, k, x

\* A position before another is left to its last block before the other's first
\* block starts.
LEMMA StripesAscend ==
  ASSUME NEW sh \in Shapes, NEW c \in Nat, NEW d \in Nat, c < d,
         d < Part2Tiles(sh)
  PROVE  Last(sh, Whole(sh) + c) =< First(sh, Whole(sh) + d)
<1> DEFINE it == Iters(sh)
           f == First(sh, Whole(sh) + d)
           l == Last(sh, Whole(sh) + c)
           k == sh.k
<1>1. Part2Tiles(sh) \in Nat /\ k \in Nat
  BY PartIs, ShapeFields
<1>2. /\ it \in Nat \ {0} /\ f \in Blocks /\ k * d \in Nat /\ it * f \in Nat
      /\ k * d < it * f + it
  BY StripeBlocks
<1>3. l \in Blocks /\ k * c \in Nat /\ it * l \in Nat /\ it * l < k * c + k
  BY <1>1, StripeBlocks
<1> HIDE DEF it, f, l, k
<1>4. k * c + k =< k * d
  BY <1>1, MulMono
<1>5. f \in Nat /\ l \in Nat /\ it * (f + 1) = it * f + it
  BY <1>2, <1>3, MulStep, GridAssumption DEF Blocks
<1>6. it * l < it * (f + 1)
  BY <1>1, <1>2, <1>3, <1>4, <1>5
<1>7. l < f + 1
  BY <1>2, <1>5, <1>6, MulLess
<1> QED BY <1>5, <1>7 DEF f, l

\* Sharing counts the blocks of a column and the turn of each, last block first.
LEMMA SharingIs ==
  ASSUME NEW sh \in Shapes, NEW c \in Nat, c < Part2Tiles(sh), NEW b \in Blocks,
         Mine(sh, b, Whole(sh) + c)
  PROVE  LET a == Whole(sh) + c IN
         Sharing(sh, b, c) = <<Last(sh, a) - First(sh, a) + 1, Last(sh, a) - b>>
<1> DEFINE it == Iters(sh)
           a == Whole(sh) + c
           f == First(sh, a)
           l == Last(sh, a)
           k == sh.k
           x == k * c
           D == DivCeil(x, it)
           first == it * D
           off == first - x
           cc == DivCeil(k - off, it)
           count == cc + (IF off > 0 THEN 1 ELSE 0)
           delta == it * b - first
           turn == IF delta < 0 \/ (off = 0 /\ delta = 0) THEN count - 1
                   ELSE count - 1 - delta \div it - (IF off > 0 THEN 1 ELSE 0)
<1>1. /\ it \in Nat \ {0} /\ x \in Nat /\ f \in Blocks /\ l \in Blocks /\ f =< l
      /\ it * f \in Nat /\ it * l \in Nat
      /\ it * f =< x /\ x < it * f + it
      /\ it * l < x + k /\ x + k =< it * l + it
  BY StripeBlocks
<1>2. k \in Nat \ {0} /\ b \in Nat /\ f \in Nat /\ l \in Nat
  BY <1>1, ShapeFields DEF Blocks
<1>3. f =< b /\ b =< l
  BY <1>2 DEF Mine
<1>4. Sharing(sh, b, c) =
        IF first <= k * (c + 1) THEN <<count, turn>> ELSE <<1, 0>>
  BY DEF Sharing
<1>5. D \in Nat /\ x =< first /\ first < x + it
  BY <1>1, DivCeilIs
<1>6. first \in Nat /\ it * b \in Nat /\ off \in Nat
  BY <1>1, <1>2, <1>5, MulNat
<1> HIDE DEF it, f, l, k, D
<1>7. k * (c + 1) = x + k
  <2>1. k \in Nat /\ c \in Int
    BY <1>2
  <2> QED BY <2>1, MulStep
<1> HIDE DEF x
<1>8. it * (f + 1) = it * f + it /\ it * (b - f) = it * b - it * f
      /\ it * (l - f) = it * l - it * f /\ it * (l - f + 1) = it * l - it * f + it
      /\ it * (b - f - 1) = it * b - it * f - it
  BY <1>1, <1>2
<1>9. CASE x = it * f
  <2>1. D = f
    BY <1>1, <1>2, <1>9, DivCeilUnique DEF D
  <2>2. off = 0 /\ first = it * f /\ first <= k * (c + 1)
    BY <1>1, <1>2, <1>7, <1>9, <2>1
  <2>3. DivCeil(k, it) = l - f + 1
    <3>1. l - f + 1 \in Nat
      BY <1>1, <1>2
    <3>2. k =< it * (l - f + 1) /\ it * (l - f + 1) < k + it
      BY <1>1, <1>2, <1>8, <1>9
    <3> QED BY <1>1, <1>2, <3>1, <3>2, DivCeilUnique
  <2>4. cc = l - f + 1
    BY <1>2, <2>2, <2>3
  <2>5. count = l - f + 1
    BY <1>2, <2>2, <2>4
  <2>6. turn = l - b
    <3>1. delta = it * (b - f)
      BY <1>8, <2>2
    <3>2. CASE b = f
      <4>1. delta = 0
        BY <1>1, <1>2, <3>1, <3>2
      <4> QED BY <1>2, <2>2, <2>5, <3>2, <4>1
    <3>3. CASE f < b
      <4>1. it * f + it =< it * b
        BY <1>1, <1>2, <3>3, MulMono
      <4>2. delta > 0
        BY <1>1, <1>2, <1>6, <1>8, <3>1, <4>1
      <4>3. b - f \in Nat /\ delta \in Nat
        BY <1>2, <1>6, <3>3, <4>2, <2>2
      <4>4. delta \div it = b - f
        BY <1>1, <3>1, <4>3, DivIs
      <4> HIDE DEF count, delta, off
      <4> QED BY <1>2, <2>2, <2>5, <4>2, <4>3, <4>4
    <3> QED BY <1>2, <1>3, <3>2, <3>3
  <2> QED BY <1>4, <2>2, <2>5, <2>6 DEF f, l
<1>10. CASE it * f < x
  <2>1. D = f + 1
    BY <1>1, <1>2, <1>8, <1>10, DivCeilUnique DEF D
  <2>2. first = it * f + it /\ off > 0
    BY <1>1, <1>2, <1>8, <2>1
  <2>3. CASE first <= k * (c + 1)
    <3>1. k - off \in Nat
      BY <1>1, <1>2, <1>7, <1>6, <2>3
    <3>2. l - f \in Nat
      BY <1>1, <1>2
    <3>3. k - off =< it * (l - f) /\ it * (l - f) < k - off + it
      BY <1>1, <1>2, <1>8, <2>2
    <3>4. cc = l - f
      BY <1>1, <3>1, <3>2, <3>3, DivCeilUnique
    <3>5. count = l - f + 1
      BY <1>2, <2>2, <3>4
    <3>6. turn = l - b
      <4>1. delta = it * (b - f - 1)
        BY <1>8, <2>2, <1>1, <1>6
      <4>2. CASE b = f
        <5>1. delta < 0
          BY <1>1, <1>2, <2>2, <4>2
        <5> QED BY <1>2, <3>5, <4>2, <5>1
      <4>3. CASE f < b
        <5>1. it * f + it =< it * b
          BY <1>1, <1>2, <4>3, MulMono
        <5>2. delta \in Nat /\ b - f - 1 \in Nat
          BY <1>2, <1>6, <2>2, <4>3, <5>1
        <5>3. delta \div it = b - f - 1
          BY <1>1, <4>1, <5>2, DivIs
        <5> HIDE DEF count, delta, off
        <5> QED BY <1>2, <2>2, <3>5, <5>2, <5>3
      <4> QED BY <1>2, <1>3, <4>2, <4>3
    <3> QED BY <1>4, <2>3, <3>5, <3>6 DEF f, l
  <2>4. CASE ~ (first <= k * (c + 1))
    <3>1. it * l < it * (f + 1)
      BY <1>1, <1>2, <1>7, <1>6, <1>8, <2>2, <2>4
    <3>2. l < f + 1
      BY <1>1, <1>2, <3>1, MulLess
    <3>3. l = f /\ b = f
      BY <1>1, <1>2, <1>3, <3>2
    <3>4. l - f + 1 = 1 /\ l - b = 0
      BY <1>2, <3>3
    <3> QED BY <1>4, <2>4, <3>4 DEF f, l
  <2> QED BY <2>3, <2>4
<1> QED BY <1>1, <1>2, <1>9, <1>10

\* A position is a whole tile of one block or a column of part 2.
LEMMA PositionIs ==
  ASSUME NEW sh \in Shapes, NEW a \in Positions(sh)
  PROVE  /\ a \in Nat /\ First(sh, a) \in Blocks /\ Last(sh, a) \in Blocks
         /\ First(sh, a) =< Last(sh, a)
         /\ \/ a < Whole(sh) /\ First(sh, a) = a % Grid /\ Last(sh, a) = a % Grid
            \/ \E c \in Nat : c < Part2Tiles(sh) /\ a = Whole(sh) + c
<1>1. /\ Whole(sh) \in Nat /\ Part2Tiles(sh) \in Nat /\ Grid \in Nat \ {0}
      /\ MnTiles(sh) = Whole(sh) + Part2Tiles(sh)
  BY PartIs, ShapeFields
<1>2. a \in Nat /\ a < Whole(sh) + Part2Tiles(sh)
  BY <1>1 DEF Positions
<1>3. CASE a < Whole(sh)
  <2>1. First(sh, a) = a % Grid /\ Last(sh, a) = a % Grid
    BY <1>3 DEF First, Last
  <2>2. a % Grid \in 0 .. Grid - 1
    BY <1>1, <1>2, DivBounds
  <2> QED BY <1>2, <1>3, <2>1, <2>2 DEF Blocks
<1>4. CASE ~ (a < Whole(sh))
  <2>1. PICK c \in Nat : c < Part2Tiles(sh) /\ a = Whole(sh) + c
    <3>1. a - Whole(sh) \in Nat /\ a = Whole(sh) + (a - Whole(sh))
          /\ a - Whole(sh) < Part2Tiles(sh)
      BY <1>1, <1>2, <1>4
    <3> QED BY <3>1
  <2>2. /\ First(sh, a) \in Blocks /\ Last(sh, a) \in Blocks
        /\ First(sh, a) =< Last(sh, a)
    BY <2>1, StripeBlocks
  <2> QED BY <1>2, <2>1, <2>2
<1> QED BY <1>3, <1>4

\* The blocks of a position split its k steps between them, in block order.
LEMMA Rows ==
  ASSUME NEW sh \in Shapes, NEW a \in Positions(sh), NEW b \in Blocks,
         Mine(sh, b, a)
  PROVE  /\ RowOf(sh, a, b) \in 0 .. sh.k - 1
         /\ EndOf(sh, a, b) \in 0 .. sh.k
         /\ RowOf(sh, a, b) < EndOf(sh, a, b)
         /\ b = First(sh, a) => RowOf(sh, a, b) = 0
         /\ b = Last(sh, a) => EndOf(sh, a, b) = sh.k
         /\ b # Last(sh, a) => EndOf(sh, a, b) = RowOf(sh, a, b + 1)
<1> DEFINE f == First(sh, a)
           l == Last(sh, a)
           k == sh.k
           it == Iters(sh)
<1>1. k \in Nat \ {0} /\ f \in Nat /\ l \in Nat /\ b \in Nat /\ f =< l
  BY ShapeFields, PositionIs DEF Blocks
<1>2. f =< b /\ b =< l
  BY <1>1 DEF Mine
<1>3. /\ b = f => RowOf(sh, a, b) = 0
      /\ b = l => EndOf(sh, a, b) = k
      /\ b # l => EndOf(sh, a, b) = RowOf(sh, a, b + 1)
  BY DEF RowOf, EndOf
<1>4. CASE a < Whole(sh)
  <2>1. f = l /\ b = f
    BY <1>1, <1>2, <1>4 DEF First, Last
  <2> QED BY <1>1, <1>3, <2>1
<1>5. CASE ~ (a < Whole(sh))
  <2>1. PICK c \in Nat : c < Part2Tiles(sh) /\ a = Whole(sh) + c
    BY <1>5, PositionIs
  <2> DEFINE x == k * c
  <2>2. /\ it \in Nat \ {0} /\ x \in Nat /\ a - Whole(sh) = c
        /\ it * f \in Nat /\ it * l \in Nat
        /\ it * f =< x /\ x < it * f + it
        /\ it * l < x + k /\ x + k =< it * l + it
    BY <2>1, StripeBlocks
  <2>3. /\ b # f => RowOf(sh, a, b) = it * b - x
        /\ b + 1 # f => RowOf(sh, a, b + 1) = it * (b + 1) - x
    BY <2>2 DEF RowOf
  <2> HIDE DEF f, l, k, it, x
  <2>4. it * b \in Nat /\ it * (b + 1) = it * b + it
    BY <1>1, <2>2, MulNat, MulStep
  <2>5. f < b => it * f + it =< it * b
    BY <1>1, <2>2, MulMono
  <2>6. b < l => it * b + it =< it * l
    BY <1>1, <2>2, MulMono
  <2>7. RowOf(sh, a, b) \in 0 .. k - 1
    <3>1. CASE b = f
      BY <1>1, <1>3, <3>1
    <3>2. CASE f < b
      <4>1. RowOf(sh, a, b) = it * b - x
        BY <1>1, <2>3, <3>2
      <4>2. it * b =< it * l
        BY <1>1, <1>2, <2>2, <2>4, <2>6
      <4> QED BY <1>1, <2>2, <2>4, <2>5, <3>2, <4>1, <4>2
    <3> QED BY <1>1, <1>2, <3>1, <3>2
  <2>8. CASE b = l
    BY <1>1, <1>3, <2>7, <2>8 DEF f, l, k
  <2>9. CASE b < l
    <3>1. b + 1 # f
      BY <1>1, <1>2
    <3>2. RowOf(sh, a, b + 1) = (it * b + it) - x
      <4>1. RowOf(sh, a, b + 1) = it * (b + 1) - x
        BY <2>3, <3>1, Zenon
      <4> QED BY <2>4, <4>1, Zenon
    <3>3. (it * b + it) - x \in 0 .. k /\ RowOf(sh, a, b) < (it * b + it) - x
      <4>1. CASE b = f
        BY <1>1, <1>3, <2>2, <2>4, <2>6, <2>9, <4>1
      <4>2. CASE f < b
        BY <1>1, <2>2, <2>3, <2>4, <2>5, <2>6, <2>9, <4>2
      <4> QED BY <1>1, <1>2, <4>1, <4>2
    <3> QED BY <1>1, <1>3, <2>7, <2>9, <3>2, <3>3 DEF f, l, k
  <2> QED BY <1>1, <1>2, <2>8, <2>9
<1> QED BY <1>4, <1>5

\* Every shared position has a lock of its own.
LEMMA LockIs ==
  ASSUME NEW sh \in Shapes, NEW a \in Positions(sh), SharedAt(sh, a)
  PROVE  /\ LockOf(sh, a) \in Blocks
         /\ \A d \in Positions(sh) :
              SharedAt(sh, d) /\ LockOf(sh, d) = LockOf(sh, a) => d = a
<1> DEFINE W == Whole(sh)
           P == Part2Tiles(sh)
<1>1. W \in Nat /\ P \in Nat /\ Grid \in Nat \ {0}
  BY PartIs, ShapeFields
<1>2. ASSUME NEW d \in Positions(sh), SharedAt(sh, d)
      PROVE  \E c \in Nat : c < P /\ d = W + c
  <2>1. First(sh, d) \in Nat /\ First(sh, d) < Last(sh, d)
    BY <1>1, <1>2, PositionIs DEF SharedAt, Blocks
  <2>2. ~ (d < W)
    BY <2>1 DEF First, Last
  <2> QED BY <2>2, PositionIs
<1>3. ASSUME NEW d \in Positions(sh), SharedAt(sh, d), NEW e \in Positions(sh),
             SharedAt(sh, e), d < e
      PROVE  LockOf(sh, d) # LockOf(sh, e)
  <2>1. PICK c \in Nat : c < P /\ d = W + c
    BY <1>2, <1>3
  <2>2. PICK g \in Nat : g < P /\ e = W + g
    BY <1>2, <1>3
  <2>3. c < g
    BY <1>1, <1>3, <2>1, <2>2
  <2>4. CASE P >= Grid
    <3>1. Last(sh, d) =< First(sh, e)
      BY <2>1, <2>2, <2>3, StripesAscend
    <3>2. /\ First(sh, e) \in Nat /\ Last(sh, e) \in Nat /\ Last(sh, d) \in Nat
          /\ First(sh, e) < Last(sh, e)
      BY <1>1, <1>3, PositionIs DEF SharedAt, Blocks
    <3> QED BY <2>4, <3>1, <3>2 DEF LockOf
  <2>5. CASE ~ (P >= Grid)
    <3>1. LockOf(sh, d) = d - W /\ LockOf(sh, e) = e - W
      BY <2>5 DEF LockOf
    <3> QED BY <1>1, <2>1, <2>2, <2>3, <3>1
  <2> QED BY <2>4, <2>5
<1>4. LockOf(sh, a) \in Blocks
  <2>1. CASE P >= Grid
    BY <2>1, PositionIs DEF LockOf
  <2>2. CASE ~ (P >= Grid)
    <3>1. PICK c \in Nat : c < P /\ a = W + c
      BY <1>2
    <3>2. LockOf(sh, a) = a - W
      BY <2>2 DEF LockOf
    <3> QED BY <1>1, <2>2, <3>1, <3>2 DEF Blocks
  <2> QED BY <2>1, <2>2
<1>5. ASSUME NEW d \in Positions(sh), SharedAt(sh, d), LockOf(sh, d) = LockOf(sh, a)
      PROVE  d = a
  <2>1. ~ (d < a) /\ ~ (a < d)
    BY <1>3, <1>5
  <2>2. d \in Nat /\ a \in Nat
    BY PositionIs
  <2> QED BY <2>1, <2>2
<1> QED BY <1>4, <1>5

\* A product of bounded factors is bounded.
LEMMA CellBound ==
  ASSUME NEW r \in Nat, NEW n \in Nat, NEW q \in Nat, NEW m \in Nat,
         m < r, q < n
  PROVE  r * q + m < r * n
<1>1. r * q + r =< r * n
  BY MulMono
<1>2. r * q \in Nat /\ r * n \in Nat
  BY MulNat
<1> QED BY <1>1, <1>2

\* The converse: the quotient of a bounded number is bounded.
LEMMA QuotientBound ==
  ASSUME NEW r \in Nat \ {0}, NEW n \in Nat, NEW x \in Nat, x < r * n
  PROVE  x \div r \in 0 .. n - 1 /\ x % r \in 0 .. r - 1
<1> DEFINE q == x \div r
<1>1. q \in Nat /\ r * q =< x /\ x % r \in 0 .. r - 1
  BY DivBounds
<1> HIDE DEF q
<1>2. r * q \in Nat /\ r * n \in Nat
  BY <1>1, MulNat
<1>3. r * q < r * n
  BY <1>1, <1>2
<1>4. q < n
  BY <1>1, <1>3, MulLess
<1> QED BY <1>1, <1>4 DEF q

\* The tile at a position of a grid traversed in lines of r cells.
LEMMA CellIs ==
  ASSUME NEW r \in Nat \ {0}, NEW n \in Nat, NEW x \in 0 .. r * n - 1
  PROVE  x \div r \in 0 .. n - 1 /\ x % r \in 0 .. r - 1
<1>1. r * n \in Nat
  BY MulNat
<1>2. x \in Nat /\ x < r * n
  BY <1>1
<1> QED BY <1>2, QuotientBound

\* No two positions have the same line and the same cell in it.
LEMMA CellIsOne ==
  ASSUME NEW r \in Nat \ {0}, NEW x \in Nat, NEW y \in Nat,
         x \div r = y \div r, x % r = y % r
  PROVE  x = y
<1>1. x = r * (x \div r) + (x % r) /\ y = r * (y \div r) + (y % r)
  BY DivBounds
<1>2. x = r * (y \div r) + (y % r)
  BY <1>1, Zenon
<1> QED BY <1>1, <1>2, Zenon

\* Every cell of every line has a position.
LEMMA CellHasPosition ==
  ASSUME NEW r \in Nat \ {0}, NEW n \in Nat, NEW q \in 0 .. n - 1,
         NEW m \in 0 .. r - 1
  PROVE  /\ r * q + m \in 0 .. r * n - 1
         /\ (r * q + m) \div r = q /\ (r * q + m) % r = m
<1> DEFINE x == r * q + m
<1>1. q \in Nat /\ m \in Nat /\ m < r /\ q < n /\ r * n \in Nat
  BY MulNat
<1>2. x \div r = q /\ x % r = m /\ x \in Nat
  BY <1>1, DivMod
<1>3. x < r * n
  BY <1>1, CellBound
<1>4. x \in 0 .. r * n - 1
  <2> HIDE DEF x
  <2> QED BY <1>1, <1>2, <1>3
<1> QED BY <1>2, <1>4

\* The group of a task of the grouped raster: it starts at tile row begin, has
\* rows tile rows, and the task is cell inGroup of it.
LEMMA GroupIs ==
  ASSUME NEW sh \in Shapes, NEW a \in Positions(sh)
  PROVE  LET g == a \div (GroupRows * sh.n)
             begin == g * GroupRows
             rows == IF sh.par - begin < GroupRows THEN sh.par - begin ELSE GroupRows
             inGroup == a % (GroupRows * sh.n)
         IN  /\ g \in Nat /\ rows \in 1 .. 4 /\ begin + rows =< sh.par
             /\ inGroup \in 0 .. rows * sh.n - 1
             /\ a = (4 * sh.n) * g + inGroup
<1> DEFINE n == sh.n
           par == sh.par
           N == GroupRows * n
           g == a \div N
           begin == g * GroupRows
           rows == IF par - begin < GroupRows THEN par - begin ELSE GroupRows
           m == a % N
<1>1. /\ n \in Nat \ {0} /\ par \in Nat \ {0} /\ MnTiles(sh) = par * n
      /\ MnTiles(sh) \in Nat
  BY ShapeFields
<1>2. GroupRows = 4
  BY DEF GroupRows
<1>3. a \in Nat /\ a < par * n
  BY <1>1 DEF Positions
<1>4. N \in Nat \ {0} /\ N = 4 * n
  BY <1>1, <1>2
<1>5. g \in Nat /\ N * g =< a /\ m \in 0 .. N - 1 /\ a = N * g + m
  BY <1>3, <1>4, DivBounds
<1> HIDE DEF n, par, N, g, m
<1>6. begin = 4 * g /\ begin \in Nat
  BY <1>2, <1>5
<1>7. N * g = n * begin /\ par * n = n * par /\ n * begin \in Nat /\ n * par \in Nat
  BY <1>1, <1>4, <1>5, <1>6
<1>8. n * begin < n * par
  BY <1>3, <1>5, <1>7
<1>9. begin < par
  BY <1>1, <1>6, <1>8, MulLess
<1>10. rows \in 1 .. 4 /\ begin + rows =< par
  BY <1>1, <1>2, <1>6, <1>9
<1>11. m \in 0 .. rows * n - 1
  <2>1. CASE rows = 4
    BY <1>1, <1>4, <1>5, <2>1
  <2>2. CASE rows = par - begin
    <3>1. rows * n = n * par - n * begin
      BY <1>1, <1>6, <2>2
    <3>2. m < n * par - n * begin
      BY <1>3, <1>5, <1>7
    <3> HIDE DEF rows
    <3> QED BY <1>4, <1>5, <1>7, <3>1, <3>2
  <2> QED BY <1>2, <2>1, <2>2
<1> QED BY <1>4, <1>5, <1>10, <1>11 DEF n, par, N, g, m

\* The grouped raster reaches every tile once.
LEMMA GroupedTiles ==
  ASSUME NEW sh \in Shapes, sh.raster = "groupedM4"
  PROVE  /\ \A a \in Positions(sh) : PersistentTile(sh, a) \in Tiles(sh)
         /\ \A a, d \in Positions(sh) :
              PersistentTile(sh, a) = PersistentTile(sh, d) => a = d
         /\ \A t \in Tiles(sh) : \E a \in Positions(sh) : PersistentTile(sh, a) = t
<1> DEFINE n == sh.n
           par == sh.par
           G(a) == a \div (GroupRows * n)
           Begin(a) == G(a) * GroupRows
           RowsAt(a) == IF par - Begin(a) < GroupRows THEN par - Begin(a) ELSE GroupRows
           Cell(a) == a % (GroupRows * n)
<1>1. /\ n \in Nat \ {0} /\ par \in Nat \ {0} /\ MnTiles(sh) = par * n
      /\ MnTiles(sh) \in Nat
  BY ShapeFields
<1>2. \A a : PersistentTile(sh, a) =
               <<Begin(a) + (Cell(a) % RowsAt(a)), Cell(a) \div RowsAt(a)>>
  BY DEF PersistentTile
<1>3. \A a \in Positions(sh) :
        /\ G(a) \in Nat /\ RowsAt(a) \in 1 .. 4 /\ Begin(a) + RowsAt(a) =< par
        /\ Cell(a) \in 0 .. RowsAt(a) * n - 1
        /\ a = (4 * n) * G(a) + Cell(a)
  BY GroupIs
<1>4. \A a : Begin(a) = G(a) * 4 /\ RowsAt(a) = IF par - G(a) * 4 < 4 THEN par - G(a) * 4 ELSE 4
  BY DEF GroupRows
<1>5. \A t : t \in Tiles(sh) <=> \E p \in 0 .. par - 1, c \in 0 .. n - 1 : t = <<p, c>>
  BY DEF Tiles
<1>6. \A a : G(a) = a \div (4 * n) /\ Cell(a) = a % (4 * n)
  BY DEF GroupRows
<1>7. \A a : a \in Positions(sh) <=> a \in 0 .. n * par - 1
  BY <1>1 DEF Positions
<1> HIDE DEF n, par, G, Begin, RowsAt, Cell
<1>8. ASSUME NEW a \in Positions(sh)
      PROVE  /\ Cell(a) % RowsAt(a) \in 0 .. RowsAt(a) - 1
             /\ Cell(a) \div RowsAt(a) \in 0 .. n - 1
  <2> DEFINE r == RowsAt(a)
             x == Cell(a)
  <2>1. r \in Nat \ {0} /\ x \in 0 .. r * n - 1
    BY <1>3
  <2> HIDE DEF r, x
  <2>2. x \div r \in 0 .. n - 1 /\ x % r \in 0 .. r - 1
    BY <1>1, <2>1, CellIs
  <2> QED BY <2>2 DEF r, x
<1>9. ASSUME NEW a \in Positions(sh) PROVE PersistentTile(sh, a) \in Tiles(sh)
  <2>1. Begin(a) + (Cell(a) % RowsAt(a)) \in 0 .. par - 1
    BY <1>1, <1>3, <1>4, <1>8
  <2> QED BY <1>2, <1>5, <1>8, <2>1
<1>10. ASSUME NEW a \in Positions(sh), NEW d \in Positions(sh),
              PersistentTile(sh, a) = PersistentTile(sh, d)
       PROVE  a = d
  <2>1. /\ Begin(a) + (Cell(a) % RowsAt(a)) = Begin(d) + (Cell(d) % RowsAt(d))
        /\ Cell(a) \div RowsAt(a) = Cell(d) \div RowsAt(d)
    BY <1>2, <1>10
  <2> DEFINE u == Cell(a) % RowsAt(a)
             v == Cell(d) % RowsAt(d)
  <2>2. /\ G(a) \in Nat /\ G(d) \in Nat /\ Begin(a) = G(a) * 4 /\ Begin(d) = G(d) * 4
        /\ u \in 0 .. RowsAt(a) - 1 /\ v \in 0 .. RowsAt(d) - 1
        /\ RowsAt(a) \in 1 .. 4 /\ RowsAt(d) \in 1 .. 4
    BY <1>3, <1>4, <1>8
  <2>3. Begin(a) + u = Begin(d) + v
    BY <2>1
  <2> HIDE DEF u, v
  <2>4. G(a) = G(d) /\ u = v
    BY <2>2, <2>3
  <2>5. RowsAt(a) = RowsAt(d)
    BY <1>4, <2>4
  <2>6. /\ Cell(a) \div RowsAt(a) = Cell(d) \div RowsAt(a)
        /\ Cell(a) % RowsAt(a) = Cell(d) % RowsAt(a)
    BY <2>1, <2>4, <2>5, Zenon DEF u, v
  <2>7. RowsAt(a) \in Nat \ {0} /\ Cell(a) \in Nat /\ Cell(d) \in Nat
    BY <1>3
  <2>8. Cell(a) = Cell(d)
    BY <2>6, <2>7, CellIsOne
  <2> QED BY <1>3, <2>4, <2>8, Zenon
<1>11. ASSUME NEW p \in 0 .. par - 1, NEW c \in 0 .. n - 1
       PROVE  \E a \in Positions(sh) : PersistentTile(sh, a) = <<p, c>>
  <2> DEFINE g == p \div 4
             rows == IF par - g * 4 < 4 THEN par - g * 4 ELSE 4
  <2>1. p \in Nat /\ g \in Nat /\ 4 * g =< p /\ p < 4 * g + 4
    BY <1>1, DivBounds
  <2> HIDE DEF g
  <2>2. rows \in 1 .. 4 /\ p - 4 * g \in 0 .. rows - 1 /\ 4 * g + rows =< par
    BY <1>1, <2>1
  <2>3. PICK i \in 0 .. rows * n - 1 : i \div rows = c /\ i % rows = p - 4 * g
    <3> DEFINE m == p - 4 * g
    <3>1. rows \in Nat \ {0} /\ m \in 0 .. rows - 1 /\ n \in Nat
      BY <1>1, <2>2
    <3> HIDE DEF rows, m
    <3> DEFINE i == rows * c + m
    <3>2. i \in 0 .. rows * n - 1 /\ i \div rows = c /\ i % rows = m
      BY <3>1, CellHasPosition
    <3> HIDE DEF i
    <3> QED BY <3>2 DEF m
  <2>4. rows * n =< 4 * n /\ rows * n \in Nat
    BY <1>1, <2>2
  <2>5. i \in 0 .. 4 * n - 1 /\ 4 * n \in Nat \ {0}
    BY <1>1, <2>4
  <2> DEFINE a == (4 * n) * g + i
  <2>6. a \div (4 * n) = g /\ a % (4 * n) = i /\ a \in Nat
    BY <2>1, <2>5, DivMod
  <2>7. a \in 0 .. n * par - 1
    <3>1. PICK e \in Nat : par = (4 * g + rows) + e
      <4>1. par - (4 * g + rows) \in Nat /\ par = (4 * g + rows) + (par - (4 * g + rows))
        BY <1>1, <2>1, <2>2
      <4> QED BY <4>1
    <3> HIDE DEF rows
    <3>2. n * par = (4 * n) * g + rows * n + n * e /\ n * e \in Nat
      BY <1>1, <2>1, <2>2, <3>1
    <3>3. (4 * n) * g \in Nat
      BY <1>1, <2>1
    <3> QED BY <2>3, <2>4, <3>2, <3>3
  <2>8. a \in Positions(sh)
    BY <1>7, <2>7
  <2>9. G(a) = g /\ Cell(a) = i
    BY <1>6, <2>6
  <2> HIDE DEF a
  <2>10. Begin(a) = g * 4 /\ RowsAt(a) = rows
    BY <1>4, <2>9
  <2> HIDE DEF rows
  <2>11. PersistentTile(sh, a) = <<g * 4 + (i % rows), i \div rows>>
    BY <1>2, <2>9, <2>10
  <2>12. g * 4 + (i % rows) = p
    <3> DEFINE z == i % rows
    <3>1. z = p - 4 * g
      BY <2>3
    <3> HIDE DEF z
    <3>2. g * 4 + z = p
      BY <2>1, <3>1
    <3> QED BY <3>2 DEF z
  <2> QED BY <2>3, <2>8, <2>11, <2>12
<1> QED BY <1>5, <1>9, <1>10, <1>11

\* Every position has a tile of its own, and every tile a position.
LEMMA TileIs ==
  ASSUME NEW sh \in Shapes
  PROVE  /\ \A a \in Positions(sh) : TileAt(sh, a) \in Tiles(sh)
         /\ \A a, d \in Positions(sh) : TileAt(sh, a) = TileAt(sh, d) => a = d
         /\ \A t \in Tiles(sh) : \E a \in Positions(sh) : TileAt(sh, a) = t
<1> DEFINE n == sh.n
           par == sh.par
<1>1. /\ n \in Nat \ {0} /\ par \in Nat \ {0} /\ MnTiles(sh) = par * n
      /\ MnTiles(sh) \in Nat /\ sh.raster \in {"stripes", "groupedM4", "bStationary"}
  BY ShapeFields
<1>2. \A t : t \in Tiles(sh) <=> \E p \in 0 .. par - 1, c \in 0 .. n - 1 : t = <<p, c>>
  BY DEF Tiles
<1>3. Positions(sh) = 0 .. n * par - 1 /\ Positions(sh) = 0 .. par * n - 1
  BY <1>1 DEF Positions
<1>4. CASE sh.raster = "groupedM4"
  <2>1. \A a : TileAt(sh, a) = PersistentTile(sh, a)
    BY <1>4 DEF TileAt, Persistent
  <2> QED BY <1>4, <2>1, GroupedTiles
<1>5. CASE sh.raster = "bStationary"
  <2>1. \A a : TileAt(sh, a) = <<a % par, a \div par>>
    BY <1>5 DEF TileAt, Persistent, PersistentTile
  <2>2. Positions(sh) = 0 .. par * n - 1
    BY <1>3
  <2> HIDE DEF n, par
  <2>3. ASSUME NEW a \in Positions(sh) PROVE TileAt(sh, a) \in Tiles(sh)
    <3>1. a \div par \in 0 .. n - 1 /\ a % par \in 0 .. par - 1
      BY <1>1, <2>2, CellIs
    <3> QED BY <1>2, <2>1, <3>1, Zenon
  <2>4. ASSUME NEW a \in Positions(sh), NEW d \in Positions(sh),
               TileAt(sh, a) = TileAt(sh, d)
        PROVE  a = d
    <3>1. a \in Nat /\ d \in Nat
      BY <2>2
    <3>2. a \div par = d \div par /\ a % par = d % par
      BY <2>1, <2>4
    <3> QED BY <1>1, <3>1, <3>2, CellIsOne
  <2>5. ASSUME NEW p \in 0 .. par - 1, NEW c \in 0 .. n - 1
        PROVE  \E a \in Positions(sh) : TileAt(sh, a) = <<p, c>>
    <3>1. n \in Nat /\ par \in Nat
      BY <1>1
    <3> DEFINE a == par * c + p
    <3>2. a \in Positions(sh) /\ a \div par = c /\ a % par = p
      BY <1>1, <2>2, <3>1, CellHasPosition
    <3> HIDE DEF a
    <3> QED BY <2>1, <3>2, Zenon
  <2> QED BY <1>2, <2>3, <2>4, <2>5
<1>6. CASE sh.raster = "stripes"
  <2>1. \A a : TileAt(sh, a) = <<a \div n, a % n>>
    BY <1>6 DEF TileAt, Persistent
  <2>2. Positions(sh) = 0 .. n * par - 1
    BY <1>3
  <2> HIDE DEF n, par
  <2>3. ASSUME NEW a \in Positions(sh) PROVE TileAt(sh, a) \in Tiles(sh)
    <3>1. a \div n \in 0 .. par - 1 /\ a % n \in 0 .. n - 1
      BY <1>1, <2>2, CellIs
    <3> QED BY <1>2, <2>1, <3>1, Zenon
  <2>4. ASSUME NEW a \in Positions(sh), NEW d \in Positions(sh),
               TileAt(sh, a) = TileAt(sh, d)
        PROVE  a = d
    <3>1. a \in Nat /\ d \in Nat
      BY <2>2
    <3>2. a \div n = d \div n /\ a % n = d % n
      BY <2>1, <2>4
    <3> QED BY <1>1, <3>1, <3>2, CellIsOne
  <2>5. ASSUME NEW p \in 0 .. par - 1, NEW c \in 0 .. n - 1
        PROVE  \E a \in Positions(sh) : TileAt(sh, a) = <<p, c>>
    <3>1. n \in Nat /\ par \in Nat
      BY <1>1
    <3> DEFINE a == n * p + c
    <3>2. a \in Positions(sh) /\ a \div n = p /\ a % n = c
      BY <1>1, <2>2, <3>1, CellHasPosition
    <3> HIDE DEF a
    <3> QED BY <2>1, <3>2, Zenon
  <2> QED BY <1>2, <2>3, <2>4, <2>5
<1> QED BY <1>1, <1>4, <1>5, <1>6

-----------------------------------------------------------------------------
(* One block's slices.                                                      *)

Places == {"compute", "acquire", "reduce", "release", "write", "exited"}

Register ==
  [pc : Places, part1 : Nat, inPart2 : BOOLEAN, col : Nat, row : Nat,
   tile : Nat \X Nat, iters : Nat, count : Nat, idx : Nat, lock : Int,
   sum : [KSteps -> Int]]

\* The position a block is at.
Pos(sh, r) == IF r.inPart2 THEN Whole(sh) + r.col ELSE r.col

\* A block in part 1 does whole tiles, every Grid-th one.
WholeTile(sh, b, r) ==
  /\ r.count = 1 /\ r.idx = 0 /\ r.row = 0 /\ r.iters = sh.k
  /\ r.lock = FirstLock(sh, b) /\ r.col % Grid = b
  /\ r.col + Grid * r.part1 < Whole(sh)
  /\ Whole(sh) =< r.col + Grid * r.part1 + Grid

\* A block in part 2 does its share of a column.
Stripe(sh, b, r) ==
  LET a == Whole(sh) + r.col IN
  /\ r.col < Part2Tiles(sh) /\ Mine(sh, b, a)
  /\ r.count = Last(sh, a) - First(sh, a) + 1 /\ r.idx = Last(sh, a) - b
  /\ r.row = RowOf(sh, a, b) /\ r.row + r.iters = EndOf(sh, a, b)
  /\ r.lock = LockOf(sh, a)

\* Where a block is, and that one that left has no share of a column left.
Good(sh, b, r) ==
  /\ r.pc # "exited" => /\ r.tile = TileAt(sh, Pos(sh, r))
                        /\ IF r.inPart2 THEN Stripe(sh, b, r)
                           ELSE WholeTile(sh, b, r)
  /\ r.pc = "exited" =>
       /\ r.inPart2
       /\ r.col >= Part2Tiles(sh) \/ Iters(sh) * (b + 1) =< sh.k * r.col

\* What init_part2_slice finds: the block's stripe starts in the column, or it
\* started before and goes on at its top.
Ready(sh, b, r) ==
  LET it == Iters(sh)
      at == sh.k * r.col + r.row
  IN  /\ r.inPart2 /\ r.row < sh.k
      /\ it * b =< at /\ (r.row > 0 => it * b = at)
      /\ r.col < Part2Tiles(sh) => Wrapped(sh, r.tile) = TileAt(sh, Whole(sh) + r.col)
      /\ r.col < Part2Tiles(sh) /\ at < it * (b + 1) =>
           r.lock = IF Part2Tiles(sh) >= Grid THEN b ELSE r.col - 1

\* The part of a column that is left to a block is empty or its whole share.
LEMMA StripeLengthIs ==
  ASSUME NEW sh \in Shapes, NEW b \in Blocks, NEW c \in Nat,
         NEW row \in 0 .. sh.k - 1, Iters(sh) * b =< sh.k * c + row,
         row > 0 => Iters(sh) * b = sh.k * c + row
  PROVE  LET len == StripeLength(sh, b, c, row)
             a == Whole(sh) + c
         IN  /\ len \in Nat
             /\ len = 0 => \/ c >= Part2Tiles(sh)
                           \/ Iters(sh) * (b + 1) =< sh.k * c
             /\ len # 0 => /\ c < Part2Tiles(sh) /\ Mine(sh, b, a)
                           /\ sh.k * c + row < Iters(sh) * (b + 1)
                           /\ row = RowOf(sh, a, b) /\ row + len = EndOf(sh, a, b)
<1> DEFINE it == Iters(sh)
           k == sh.k
           x == k * c
           P == Part2Tiles(sh)
           a == Whole(sh) + c
           f == First(sh, a)
           l == Last(sh, a)
           len == StripeLength(sh, b, c, row)
           left == it * (b + 1) - (x + row)
<1>1. /\ k \in Nat \ {0} /\ P \in Nat /\ it \in Nat /\ b \in Nat /\ Whole(sh) \in Nat
  BY ShapeFields, PartIs, ItersIs DEF Blocks
<1>2. len = IF left < 0 \/ c >= P THEN 0 ELSE IF row + left > k THEN k - row ELSE left
  BY DEF StripeLength
<1> HIDE DEF len
<1>3. CASE c >= P
  <2>1. len = 0 /\ ~ (c < P)
    BY <1>1, <1>2, <1>3
  <2> QED BY <1>3, <2>1 DEF len
<1>4. CASE c < P
  <2>1. /\ it \in Nat \ {0} /\ x \in Nat /\ f \in Blocks /\ l \in Blocks /\ f =< l
        /\ it * f \in Nat /\ it * l \in Nat
        /\ it * f =< x /\ x < it * f + it
        /\ it * l < x + k /\ x + k =< it * l + it
    BY <1>4, StripeBlocks
  <2>2. f \in Nat /\ l \in Nat
    BY <2>1 DEF Blocks
  <2>3. /\ b # f => RowOf(sh, a, b) = it * b - x
        /\ b = f => RowOf(sh, a, b) = 0
        /\ b + 1 # f => RowOf(sh, a, b + 1) = it * (b + 1) - x
        /\ b = l => EndOf(sh, a, b) = k
        /\ b # l => EndOf(sh, a, b) = RowOf(sh, a, b + 1)
    <3>1. a - Whole(sh) = c
      BY <1>1
    <3> QED BY <3>1 DEF RowOf, EndOf
  <2>4. f =< b /\ b =< l => Mine(sh, b, a)
    BY <1>1, <2>2 DEF Mine
  <2>5. it * b =< x + row /\ (row > 0 => it * b = x + row)
    OBVIOUS
  <2>6. row \in Nat /\ row < k
    BY <1>1
  <2> HIDE DEF f, l, k, it, x, P
  <2>7. it * b \in Nat /\ it * (b + 1) = it * b + it /\ it * (l + 1) = it * l + it
    BY <1>1, <2>1, <2>2, MulNat, MulStep
  <2>8. len \in Nat /\ (len = 0 <=> it * b + it =< x + row)
    BY <1>1, <1>2, <1>4, <2>1, <2>6, <2>7
  <2>9. CASE it * b + it =< x + row
    <3>1. row = 0
      BY <2>1, <2>5, <2>6, <2>7, <2>9
    <3>2. it * (b + 1) =< x
      BY <2>1, <2>7, <2>9, <3>1
    <3> QED BY <2>8, <2>9, <3>2 DEF len, it, k, x
  <2>10. CASE x + row < it * b + it
    <3>1. it * f < it * (b + 1) /\ it * b < it * (l + 1)
      BY <1>1, <2>1, <2>5, <2>6, <2>7, <2>10
    <3>2. f =< b /\ b =< l
      <4>1. f < b + 1 /\ b < l + 1
        BY <1>1, <2>1, <2>2, <3>1, MulLess
      <4> QED BY <1>1, <2>2, <4>1
    <3>3. f < b => it * f + it =< it * b
      BY <1>1, <2>1, <2>2, MulMono
    <3>4. b < l => it * b + it =< it * l
      BY <1>1, <2>1, <2>2, MulMono
    <3>5. row = RowOf(sh, a, b)
      <4>1. CASE b = f
        <5>1. row = 0
          BY <2>1, <2>5, <2>6, <4>1
        <5> QED BY <2>3, <4>1, <5>1
      <4>2. CASE f < b
        <5>1. row > 0
          BY <2>1, <2>5, <2>6, <2>7, <3>3, <4>2
        <5>2. row = it * b - x
          BY <2>1, <2>5, <2>6, <2>7, <5>1
        <5> QED BY <1>1, <2>2, <2>3, <4>2, <5>2
      <4> QED BY <1>1, <2>2, <3>2, <4>1, <4>2
    <3>6. row + len = EndOf(sh, a, b)
      <4>1. CASE b = l
        <5>1. len = k - row
          BY <1>1, <1>2, <1>4, <2>1, <2>6, <2>7, <2>10, <4>1
        <5> QED BY <1>1, <2>3, <2>6, <4>1, <5>1
      <4>2. CASE b < l
        <5>1. EndOf(sh, a, b) = it * (b + 1) - x
          <6>1. b # l /\ b + 1 # f
            BY <1>1, <2>2, <3>2, <4>2
          <6> QED BY <2>3, <6>1, Zenon
        <5>2. len = left
          BY <1>1, <1>2, <1>4, <2>1, <2>6, <2>7, <2>10, <3>4, <4>2
        <5> QED BY <2>1, <2>6, <2>7, <5>1, <5>2
      <4> QED BY <1>1, <2>2, <3>2, <4>1, <4>2
    <3>7. len # 0 /\ x + row < it * (b + 1)
      BY <2>1, <2>6, <2>7, <2>8, <2>10
    <3> QED BY <1>4, <2>4, <2>8, <3>2, <3>5, <3>6, <3>7 DEF len, it, k, x, P
  <2> QED BY <1>1, <2>1, <2>6, <2>7, <2>9, <2>10
<1> QED BY <1>1, <1>3, <1>4

\* The lock a column leads to from the one before it.
LEMMA LockStepIs ==
  ASSUME NEW sh \in Shapes, NEW b \in Blocks, NEW c \in Nat, c < Part2Tiles(sh),
         Mine(sh, b, Whole(sh) + c)
  PROVE  LET a == Whole(sh) + c
             from == IF Part2Tiles(sh) >= Grid THEN b ELSE c - 1
         IN  from + LockStep(sh, Last(sh, a) - First(sh, a) + 1, Last(sh, a) - b)
               = LockOf(sh, a)
<1> DEFINE a == Whole(sh) + c
           f == First(sh, a)
           l == Last(sh, a)
           P == Part2Tiles(sh)
<1>1. f \in Nat /\ l \in Nat /\ b \in Nat /\ f =< l /\ (P >= Grid => l =< f + 1)
      /\ a - Whole(sh) = c
  BY StripeBlocks DEF Blocks
<1>2. f =< b /\ b =< l
  BY <1>1 DEF Mine
<1>3. LockOf(sh, a) = IF P >= Grid THEN l ELSE c
  BY <1>1 DEF LockOf
<1>4. LockStep(sh, l - f + 1, l - b) =
        IF P >= Grid THEN IF l - f + 1 > 1 /\ l - b = (l - f + 1) - 1 THEN 1 ELSE 0
        ELSE 1
  BY DEF LockStep
<1> HIDE DEF f, l, P, a
<1>5. (IF P >= Grid THEN b ELSE c - 1) + LockStep(sh, l - f + 1, l - b) = LockOf(sh, a)
  <2>1. CASE P >= Grid
    BY <1>1, <1>2, <1>3, <1>4, <2>1
  <2>2. CASE ~ (P >= Grid)
    BY <1>3, <1>4, <2>2
  <2> QED BY <2>1, <2>2
<1> QED BY <1>5 DEF f, l, P, a

\* init_part2_slice gives a block its share of the column, or it leaves.
LEMMA StripeSlice ==
  ASSUME NEW sh \in Shapes, NEW b \in Blocks, NEW r \in Register, Ready(sh, b, r)
  PROVE  LET s == InitPart2Slice(sh, b, r) IN
         /\ s \in Register /\ Good(sh, b, s) /\ s.pc \in {"compute", "exited"}
         /\ s.inPart2 /\ s.col = r.col
<1> DEFINE len == StripeLength(sh, b, r.col, r.row)
           sg == Sharing(sh, b, r.col)
           s == InitPart2Slice(sh, b, r)
           a == Whole(sh) + r.col
<1>1. /\ r.col \in Nat /\ r.row \in Nat /\ r.inPart2 \in BOOLEAN /\ r.lock \in Int
      /\ r.tile \in Nat \X Nat
  BY DEF Register
<1>2. sh.k \in Nat \ {0} /\ Whole(sh) \in Nat /\ sh.n \in Nat
  BY ShapeFields, PartIs
<1>3. /\ r.inPart2 /\ r.row \in 0 .. sh.k - 1
      /\ Iters(sh) * b =< sh.k * r.col + r.row
      /\ r.row > 0 => Iters(sh) * b = sh.k * r.col + r.row
  BY <1>1, <1>2 DEF Ready
<1>4. /\ len \in Nat
      /\ len = 0 => \/ r.col >= Part2Tiles(sh)
                    \/ Iters(sh) * (b + 1) =< sh.k * r.col
      /\ len # 0 => /\ r.col < Part2Tiles(sh) /\ Mine(sh, b, a)
                    /\ sh.k * r.col + r.row < Iters(sh) * (b + 1)
                    /\ r.row = RowOf(sh, a, b) /\ r.row + len = EndOf(sh, a, b)
  BY <1>1, <1>3, StripeLengthIs
<1>5. s = IF len = 0 THEN [r EXCEPT !.iters = 0, !.pc = "exited"]
          ELSE [r EXCEPT !.iters = len, !.count = sg[1], !.idx = sg[2],
                         !.lock = @ + LockStep(sh, sg[1], sg[2]),
                         !.tile = Wrapped(sh, @), !.pc = "compute"]
  BY DEF InitPart2Slice
<1> HIDE DEF len, sg, s
<1>6. CASE len = 0
  <2>1. s = [r EXCEPT !.iters = 0, !.pc = "exited"]
    BY <1>5, <1>6
  <2>2. s \in Register /\ s.pc = "exited" /\ s.inPart2 = r.inPart2 /\ s.col = r.col
    BY <2>1 DEF Register, Places
  <2>3. Good(sh, b, s)
    BY <1>3, <1>4, <1>6, <2>2 DEF Good
  <2> QED BY <1>3, <2>2, <2>3 DEF s
<1>7. CASE len # 0
  <2> DEFINE f == First(sh, a)
             l == Last(sh, a)
  <2>1. f \in Nat /\ l \in Nat /\ b \in Nat
    BY <1>1, <1>4, <1>7, StripeBlocks DEF Blocks
  <2>2. sg = <<l - f + 1, l - b>> /\ f =< b /\ b =< l
    <3>1. f =< b /\ b =< l
      BY <1>4, <1>7, <2>1 DEF Mine
    <3> QED BY <1>1, <1>4, <1>7, <3>1, SharingIs DEF sg
  <2> DEFINE count == l - f + 1
             idx == l - b
             lock == LockOf(sh, a)
  <2>3. r.lock = IF Part2Tiles(sh) >= Grid THEN b ELSE r.col - 1
    BY <1>4, <1>7 DEF Ready
  <2>4. r.lock + LockStep(sh, count, idx) = lock
    BY <1>1, <1>4, <1>7, <2>3, LockStepIs
  <2>5. Wrapped(sh, r.tile) = TileAt(sh, a)
    BY <1>4, <1>7 DEF Ready
  <2>6. Wrapped(sh, r.tile) \in Nat \X Nat
    BY <1>1 DEF Wrapped
  <2>7. sg[1] = count /\ sg[2] = idx
    BY <2>2
  <2>8. s = [r EXCEPT !.iters = len, !.count = count, !.idx = idx, !.lock = lock,
                      !.tile = TileAt(sh, a), !.pc = "compute"]
    <3>1. s = [r EXCEPT !.iters = len, !.count = sg[1], !.idx = sg[2],
                        !.lock = @ + LockStep(sh, sg[1], sg[2]),
                        !.tile = Wrapped(sh, @), !.pc = "compute"]
      BY <1>5, <1>7
    <3> HIDE DEF count, idx, lock
    <3> QED BY <2>4, <2>5, <2>7, <3>1
  <2>9. count \in Nat /\ idx \in Nat /\ lock \in Int
    <3>1. LockOf(sh, a) \in Int
      <4>1. a - Whole(sh) \in Int
        BY <1>1, <1>2
      <4> QED BY <2>1, <4>1 DEF LockOf
    <3> QED BY <2>1, <2>2, <3>1
  <2> HIDE DEF count, idx, lock
  <2>10. s \in Register
    BY <1>4, <2>5, <2>6, <2>8, <2>9 DEF Register, Places
  <2>11. /\ s.iters = len /\ s.count = count /\ s.idx = idx /\ s.lock = lock
         /\ s.tile = TileAt(sh, a) /\ s.pc = "compute" /\ s.inPart2 = r.inPart2
         /\ s.col = r.col /\ s.row = r.row
    BY <2>8 DEF Register
  <2>12. Stripe(sh, b, s)
    BY <1>4, <1>7, <2>11 DEF Stripe, count, idx, lock
  <2>13. Good(sh, b, s)
    BY <1>3, <2>11, <2>12 DEF Good, Pos
  <2> QED BY <1>3, <2>10, <2>11, <2>13 DEF s
<1> QED BY <1>6, <1>7

\* The position a block enters part 2 at is no later than its first share.
LEMMA EnterColumn ==
  ASSUME NEW sh \in Shapes, NEW b \in Blocks
  PROVE  LET c == (Iters(sh) * b) \div sh.k
             m == (Iters(sh) * b) % sh.k
         IN  /\ c \in Nat /\ m \in 0 .. sh.k - 1
             /\ Iters(sh) * b = sh.k * c + m
             /\ \A d \in Nat : d < Part2Tiles(sh) /\ Mine(sh, b, Whole(sh) + d) => c =< d
<1> DEFINE it == Iters(sh)
           k == sh.k
           x == it * b
           c == x \div k
           m == x % k
<1>1. it \in Nat /\ k \in Nat \ {0} /\ b \in Nat
  BY ItersIs, ShapeFields DEF Blocks
<1>2. x \in Nat
  BY <1>1, MulNat
<1>3. c \in Nat /\ m \in 0 .. k - 1 /\ x = k * c + m /\ k * c =< x /\ k * c \in Nat
  <2> HIDE DEF x, k
  <2> QED BY <1>1, <1>2, DivBounds, MulNat
<1>4. ASSUME NEW d \in Nat, d < Part2Tiles(sh), Mine(sh, b, Whole(sh) + d)
      PROVE  c =< d
  <2> DEFINE l == Last(sh, Whole(sh) + d)
  <2>1. l \in Nat /\ it * l \in Nat /\ it * l < k * d + k /\ k * d \in Nat
    BY <1>4, StripeBlocks DEF Blocks
  <2>2. b =< l
    BY <1>4 DEF Mine
  <2> HIDE DEF it, k, x, c, m, l
  <2>3. it * b =< it * l
    <3>1. CASE b = l
      BY <1>1, <2>1, <3>1
    <3>2. CASE b < l
      <4>1. it * b + it =< it * l
        BY <1>1, <2>1, <3>2, MulMono
      <4>2. it * b \in Nat
        BY <1>1, MulNat
      <4> QED BY <1>1, <2>1, <4>1, <4>2
    <3> QED BY <1>1, <2>1, <2>2, <3>1, <3>2
  <2>4. k * (d + 1) = k * d + k
    BY <1>1, MulStep
  <2>5. k * c < k * (d + 1)
    BY <1>1, <1>2, <1>3, <2>1, <2>3, <2>4 DEF x
  <2>6. c < d + 1
    BY <1>1, <1>3, <2>5, MulLess
  <2> QED BY <1>3, <2>6
<1>5. it * b = k * c + m
  BY <1>3
<1> QED BY <1>3, <1>4, <1>5

\* What EnterPart2 leaves for init_part2_slice.
LEMMA EnterIsReady ==
  ASSUME NEW sh \in Shapes, NEW b \in Blocks, NEW r \in Register,
         r.lock = FirstLock(sh, b)
  PROVE  LET s == EnterPart2(sh, b, r) IN
         /\ s \in Register /\ Ready(sh, b, s)
         /\ s.col = (Iters(sh) * b) \div sh.k
<1> DEFINE s == EnterPart2(sh, b, r)
           c == (Iters(sh) * b) \div sh.k
           m == (Iters(sh) * b) % sh.k
           at == c + MnTiles(sh) - Part2Tiles(sh)
           tile == IF Persistent(sh) THEN <<0, 0>> ELSE <<at \div sh.n, at % sh.n>>
<1>1. /\ c \in Nat /\ m \in 0 .. sh.k - 1 /\ Iters(sh) * b = sh.k * c + m
  BY EnterColumn
<1>2. /\ Whole(sh) \in Nat /\ sh.n \in Nat \ {0} /\ sh.k \in Nat \ {0}
      /\ MnTiles(sh) = Whole(sh) + Part2Tiles(sh) /\ Part2Tiles(sh) \in Nat
  BY PartIs, ShapeFields
<1>3. s = [r EXCEPT !.inPart2 = TRUE, !.col = c, !.row = m, !.tile = tile]
  BY DEF EnterPart2
<1>4. r.lock = IF Part2Tiles(sh) >= Grid THEN b ELSE c - 1
  BY DEF FirstLock
<1> HIDE DEF c, m, s
<1>5. at = Whole(sh) + c /\ at \in Nat
  BY <1>1, <1>2
<1> HIDE DEF at
<1>6. at \div sh.n \in Nat /\ at % sh.n \in 0 .. sh.n - 1
  BY <1>2, <1>5, DivBounds
<1>7. tile \in Nat \X Nat
  BY <1>6
<1>8. c < Part2Tiles(sh) => Wrapped(sh, tile) = TileAt(sh, Whole(sh) + c)
  <2> SUFFICES ASSUME c < Part2Tiles(sh) PROVE Wrapped(sh, tile) = TileAt(sh, at)
    BY <1>5
  <2>1. ~ Persistent(sh)
    BY <1>1, StripeBlocks
  <2>2. tile = <<at \div sh.n, at % sh.n>> /\ tile = TileAt(sh, at)
    BY <2>1 DEF TileAt
  <2>3. tile[2] # sh.n
    BY <1>2, <1>6, <2>2
  <2> QED BY <2>2, <2>3 DEF Wrapped
<1> HIDE DEF tile
<1>9. s \in Register
  <2>1. m \in Nat
    BY <1>1, <1>2
  <2> QED BY <1>1, <1>3, <1>7, <2>1 DEF Register
<1>10. s.inPart2 /\ s.col = c /\ s.row = m /\ s.tile = tile /\ s.lock = r.lock
  BY <1>3 DEF Register
<1>11. m < sh.k /\ m \in Nat
  BY <1>1, <1>2
<1>12. Iters(sh) * b =< sh.k * c + m
  <2>1. sh.k * c \in Nat
    BY <1>1, <1>2, MulNat
  <2> DEFINE y == sh.k * c + m
  <2>2. y \in Nat
    BY <1>11, <2>1
  <2>3. Iters(sh) * b = y
    BY <1>1
  <2> HIDE DEF y
  <2>4. Iters(sh) * b =< y
    BY <2>2, <2>3
  <2> QED BY <2>4 DEF y
<1>13. Ready(sh, b, s)
  BY <1>1, <1>4, <1>8, <1>10, <1>11, <1>12 DEF Ready
<1> QED BY <1>9, <1>10, <1>13 DEF s, c

\* What init_slice finds in part 1.
Dealt(sh, b, r) ==
  /\ ~ r.inPart2 /\ r.count = 1 /\ r.idx = 0 /\ r.row = 0
  /\ r.lock = FirstLock(sh, b) /\ r.col % Grid = b
  /\ Whole(sh) =< r.col + Grid * r.part1
  /\ r.part1 > 0 => r.col + Grid * r.part1 < Whole(sh) + Grid

\* init_slice in part 1: the next whole tile of the block, or part 2.
LEMMA DealtSlice ==
  ASSUME NEW sh \in Shapes, NEW b \in Blocks, NEW r \in Register, Dealt(sh, b, r)
  PROVE  LET s == InitSlice(sh, b, r) IN
         /\ s \in Register /\ Good(sh, b, s) /\ s.pc \in {"compute", "exited"}
         /\ \A a \in Positions(sh) : Mine(sh, b, a) =>
              (Pos(sh, s) > a <=> a < Whole(sh) /\ a < r.col)
<1> DEFINE s == InitSlice(sh, b, r)
           W == Whole(sh)
<1>1. /\ r.col \in Nat /\ r.part1 \in Nat /\ r.inPart2 \in BOOLEAN /\ r.tile \in Nat \X Nat
  BY DEF Register
<1>2. /\ W \in Nat /\ Grid \in Nat \ {0} /\ sh.k \in Nat \ {0}
      /\ MnTiles(sh) = W + Part2Tiles(sh) /\ Part2Tiles(sh) \in Nat
  BY PartIs, ShapeFields
<1>3. Grid * r.part1 \in Nat /\ Grid * (r.part1 - 1) = Grid * r.part1 - Grid
  BY <1>1, <1>2, MulNat, MulStep
<1>4. ASSUME NEW a \in Positions(sh), Mine(sh, b, a)
      PROVE  /\ a \in Nat
             /\ a < W => a % Grid = b
             /\ ~ (a < W) => \E c \in Nat : c < Part2Tiles(sh) /\ a = W + c
  <2>1. a \in Nat /\ First(sh, a) \in Nat /\ Last(sh, a) \in Nat /\ b \in Nat
    BY PositionIs DEF Blocks
  <2>2. First(sh, a) =< b /\ b =< Last(sh, a)
    BY <1>4, <2>1 DEF Mine
  <2>3. ASSUME a < W PROVE a % Grid = b
    <3>1. First(sh, a) = a % Grid /\ Last(sh, a) = a % Grid
      BY <2>3 DEF First, Last
    <3>2. First(sh, a) = b
      BY <2>1, <2>2, <3>1
    <3> QED BY <3>1, <3>2, Zenon
  <2>4. ASSUME ~ (a < W) PROVE \E c \in Nat : c < Part2Tiles(sh) /\ a = W + c
    BY <2>4, PositionIs
  <2> QED BY <2>1, <2>3, <2>4
<1>5. CASE r.part1 > 0
  <2> DEFINE tile == IF Persistent(sh) THEN PersistentTile(sh, r.col)
                     ELSE <<r.col \div sh.n, r.col % sh.n>>
  <2>1. s = [r EXCEPT !.part1 = @ - 1, !.iters = sh.k, !.pc = "compute", !.tile = tile]
    BY <1>5 DEF InitSlice, InitPart1Slice, Dealt
  <2>2. tile = TileAt(sh, r.col)
    BY DEF TileAt
  <2>3. r.col < W /\ r.col \in Positions(sh)
    BY <1>1, <1>2, <1>3, <1>5 DEF Dealt, Positions
  <2>4. tile \in Nat \X Nat
    <3>1. tile \in Tiles(sh)
      BY <2>2, <2>3, TileIs
    <3> HIDE DEF tile
    <3> QED BY <3>1 DEF Tiles
  <2> HIDE DEF tile, s
  <2>5. s \in Register
    <3> DEFINE left == r.part1 - 1
    <3>1. left \in Nat /\ sh.k \in Nat
      BY <1>1, <1>2, <1>5
    <3>2. s = [r EXCEPT !.part1 = left, !.iters = sh.k, !.pc = "compute", !.tile = tile]
      BY <2>1
    <3> HIDE DEF left
    <3> QED BY <2>4, <3>1, <3>2 DEF Register, Places
  <2>6. /\ s.part1 = r.part1 - 1 /\ s.iters = sh.k /\ s.pc = "compute"
        /\ s.tile = tile /\ s.inPart2 = r.inPart2 /\ s.col = r.col /\ s.row = r.row
        /\ s.count = r.count /\ s.idx = r.idx /\ s.lock = r.lock
    BY <2>1 DEF Register
  <2>7. ~ s.inPart2 /\ Pos(sh, s) = r.col
    BY <2>6 DEF Dealt, Pos
  <2>8. Grid * s.part1 = Grid * r.part1 - Grid
    BY <1>3, <2>6
  <2>9. /\ s.col + Grid * s.part1 < W
        /\ W =< s.col + Grid * s.part1 + Grid
    BY <1>1, <1>2, <1>3, <1>5, <2>6, <2>8 DEF Dealt
  <2>10. WholeTile(sh, b, s)
    BY <2>6, <2>9 DEF WholeTile, Dealt
  <2>11. Good(sh, b, s)
    BY <2>2, <2>6, <2>7, <2>10 DEF Good
  <2>12. ASSUME NEW a \in Positions(sh), Mine(sh, b, a)
         PROVE  Pos(sh, s) > a <=> a < W /\ a < r.col
    BY <1>1, <1>2, <1>4, <2>3, <2>7, <2>12
  <2> QED BY <2>5, <2>6, <2>11, <2>12 DEF s
<1>6. CASE ~ (r.part1 > 0)
  <2> DEFINE e == EnterPart2(sh, b, r)
             c == (Iters(sh) * b) \div sh.k
  <2>1. s = InitPart2Slice(sh, b, e)
    BY <1>6 DEF InitSlice, Dealt
  <2>2. e \in Register /\ Ready(sh, b, e) /\ e.col = c
    BY EnterIsReady DEF Dealt
  <2> HIDE DEF e, s
  <2>3. /\ s \in Register /\ Good(sh, b, s) /\ s.pc \in {"compute", "exited"}
        /\ s.inPart2 /\ s.col = c
    BY <2>1, <2>2, StripeSlice
  <2>4. c \in Nat /\ \A d \in Nat : d < Part2Tiles(sh) /\ Mine(sh, b, W + d) => c =< d
    BY EnterColumn
  <2> HIDE DEF c
  <2>5. Pos(sh, s) = W + c
    BY <2>3 DEF Pos
  <2>6. W =< r.col
    <3>1. r.part1 = 0
      BY <1>1, <1>6
    <3>2. Grid * 0 = 0
      BY <1>2
    <3> QED BY <1>1, <1>2, <3>1, <3>2 DEF Dealt
  <2>7. ASSUME NEW a \in Positions(sh), Mine(sh, b, a)
        PROVE  Pos(sh, s) > a <=> a < W /\ a < r.col
    <3>1. CASE a < W
      BY <1>1, <1>2, <1>4, <2>4, <2>5, <2>6, <2>7, <3>1
    <3>2. CASE ~ (a < W)
      <4>1. PICK d \in Nat : d < Part2Tiles(sh) /\ a = W + d
        BY <1>4, <2>7, <3>2
      <4>2. c =< d
        BY <2>4, <2>7, <4>1
      <4> QED BY <1>2, <2>4, <2>5, <3>2, <4>1, <4>2
    <3> QED BY <3>1, <3>2
  <2> QED BY <2>3, <2>7 DEF s
<1> QED BY <1>5, <1>6

\* A number below the divisor is its own remainder.
LEMMA SmallRemainder ==
  ASSUME NEW d \in Nat \ {0}, NEW x \in Nat, x < d
  PROVE  x % d = x
<1>1. d * 0 = 0
  OBVIOUS
<1>2. d * 0 =< x /\ x < d * 0 + d
  BY <1>1
<1>3. x % d = x - d * 0
  BY <1>2, DivIs
<1> QED BY <1>1, <1>3

\* The registers a launch starts a block with.
LEMMA EnteredIs ==
  ASSUME NEW sh \in Shapes, NEW b \in Blocks
  PROVE  LET s == Entered(sh, b) IN
         /\ s \in Register /\ Good(sh, b, s) /\ s.pc \in {"compute", "exited"}
         /\ \A a \in Positions(sh) : Mine(sh, b, a) => ~ (Pos(sh, s) > a)
<1> DEFINE r == [pc |-> "compute", part1 |-> Part1Iters(sh, b), inPart2 |-> FALSE,
                 col |-> b, row |-> 0, tile |-> <<0, 0>>, iters |-> sh.k,
                 count |-> 1, idx |-> 0, lock |-> FirstLock(sh, b), sum |-> Zero]
           s == Entered(sh, b)
<1>1. /\ b \in Nat /\ b < Grid /\ sh.k \in Nat \ {0} /\ Grid \in Nat \ {0}
      /\ Whole(sh) \in Nat
  BY ShapeFields, PartIs DEF Blocks
<1>2. /\ Part1Iters(sh, b) \in Nat /\ Whole(sh) =< b + Grid * Part1Iters(sh, b)
      /\ Part1Iters(sh, b) > 0 => b + Grid * Part1Iters(sh, b) < Whole(sh) + Grid
  BY Part1Is
<1>3. FirstLock(sh, b) \in Int
  <2> DEFINE c == (Iters(sh) * b) \div sh.k
  <2>1. c \in Nat
    BY EnterColumn
  <2>2. FirstLock(sh, b) = IF Part2Tiles(sh) >= Grid THEN b ELSE c - 1
    BY DEF FirstLock
  <2> HIDE DEF c
  <2> QED BY <1>1, <2>1, <2>2
<1>4. Zero \in [KSteps -> Int]
  BY DEF Zero
<1>5. r \in Register
  <2>1. <<0, 0>> \in Nat \X Nat /\ FALSE \in BOOLEAN /\ sh.k \in Nat /\ 1 \in Nat /\ 0 \in Nat
    BY <1>1
  <2> QED BY <1>1, <1>2, <1>3, <1>4, <2>1 DEF Register, Places
<1>6. b % Grid = b
  BY <1>1, SmallRemainder
<1>7. Dealt(sh, b, r)
  BY <1>2, <1>6 DEF Dealt
<1>8. s = InitSlice(sh, b, r) /\ r.col = b
  BY DEF Entered
<1> HIDE DEF r, s
<1>9. /\ s \in Register /\ Good(sh, b, s) /\ s.pc \in {"compute", "exited"}
      /\ \A a \in Positions(sh) : Mine(sh, b, a) =>
           (Pos(sh, s) > a <=> a < Whole(sh) /\ a < b)
  BY <1>5, <1>7, <1>8, DealtSlice
<1>10. ASSUME NEW a \in Positions(sh), Mine(sh, b, a), a < Whole(sh), a < b
       PROVE  FALSE
  <2>1. a \in Nat /\ a < Grid
    BY <1>1, <1>10, PositionIs
  <2>2. a % Grid = a
    BY <1>1, <2>1, SmallRemainder
  <2>3. First(sh, a) = a /\ Last(sh, a) = a
    BY <1>10, <2>2 DEF First, Last
  <2>4. b = a
    BY <1>1, <1>10, <2>1, <2>3 DEF Mine
  <2> QED BY <1>1, <1>10, <2>1, <2>4
<1> QED BY <1>9, <1>10 DEF s

\* Numbers with the same remainder are equal or a divisor apart.
LEMMA SameRemainder ==
  ASSUME NEW d \in Nat \ {0}, NEW x \in Nat, NEW y \in Nat, x % d = y % d, x < y
  PROVE  x + d =< y
<1> DEFINE p == x \div d
           q == y \div d
           m == x % d
<1>1. p \in Nat /\ m \in Nat /\ x = d * p + m
  <2>1. p \in Nat /\ m \in 0 .. d - 1 /\ x = d * p + m
    BY DivBounds
  <2> HIDE DEF p, m
  <2> QED BY <2>1
<1>2. q \in Nat /\ y = d * q + (y % d)
  BY DivBounds
<1>3. y = d * q + m
  BY <1>2, Zenon
<1> HIDE DEF p, q, m
<1>4. d * p \in Nat /\ d * q \in Nat
  BY <1>1, <1>2, MulNat
<1>5. d * p < d * q
  BY <1>1, <1>3, <1>4
<1>6. p < q
  BY <1>1, <1>2, <1>5, MulLess
<1>7. d * p + d =< d * q
  BY <1>1, <1>2, <1>6, MulMono
<1> QED BY <1>1, <1>3, <1>4, <1>7

\* The next tile in row order.
LEMMA NextCell ==
  ASSUME NEW n \in Nat \ {0}, NEW a \in Nat
  PROVE  <<(a + 1) \div n, (a + 1) % n>> =
           IF (a % n) + 1 = n THEN <<(a \div n) + 1, 0>> ELSE <<a \div n, (a % n) + 1>>
<1> DEFINE q == a \div n
           m == a % n
<1>1. q \in Nat /\ m \in 0 .. n - 1 /\ a = n * q + m
  BY DivBounds
<1> HIDE DEF q, m
<1>2. n * (q + 1) = n * q + n /\ n * q \in Nat
  BY <1>1, MulStep, MulNat
<1>3. CASE m + 1 = n
  <2>1. a + 1 = n * (q + 1) + 0
    BY <1>1, <1>2, <1>3
  <2>2. (a + 1) \div n = q + 1 /\ (a + 1) % n = 0
    <3>1. q + 1 \in Nat /\ 0 \in 0 .. n - 1
      BY <1>1
    <3>2. (n * (q + 1) + 0) \div n = q + 1 /\ (n * (q + 1) + 0) % n = 0
      BY <3>1, DivMod
    <3> QED BY <2>1, <3>2, Zenon
  <2> QED BY <1>3, <2>2 DEF q, m
<1>4. CASE m + 1 # n
  <2>1. a + 1 = n * q + (m + 1) /\ m + 1 \in 0 .. n - 1
    BY <1>1, <1>2, <1>4
  <2>2. (n * q + (m + 1)) \div n = q /\ (n * q + (m + 1)) % n = m + 1
    BY <1>1, <2>1, DivMod
  <2>3. (a + 1) \div n = q /\ (a + 1) % n = m + 1
    BY <2>1, <2>2, Zenon
  <2> QED BY <1>4, <2>3 DEF q, m
<1> QED BY <1>3, <1>4

\* The registers NextSlice hands to init_slice.
Moved(r) ==
  [r EXCEPT !.row = 0, !.sum = Zero,
            !.col = @ + (IF r.inPart2 THEN 1 ELSE Grid),
            !.tile = IF r.inPart2 THEN <<@[1], @[2] + 1>> ELSE @]

\* The fields NextSlice sets.
LEMMA MovedIs ==
  ASSUME NEW r \in Register
  PROVE  LET m == Moved(r) IN
         /\ m \in Register /\ m.row = 0 /\ m.sum = Zero /\ m.inPart2 = r.inPart2
         /\ m.part1 = r.part1 /\ m.count = r.count /\ m.idx = r.idx
         /\ m.lock = r.lock
         /\ r.inPart2 => m.col = r.col + 1 /\ m.tile = <<r.tile[1], r.tile[2] + 1>>
         /\ ~ r.inPart2 => m.col = r.col + Grid
<1> DEFINE m == Moved(r)
           col == r.col + (IF r.inPart2 THEN 1 ELSE Grid)
           tile == IF r.inPart2 THEN <<r.tile[1], r.tile[2] + 1>> ELSE r.tile
<1>1. /\ r.col \in Nat /\ r.tile \in Nat \X Nat /\ r.inPart2 \in BOOLEAN
      /\ Zero \in [KSteps -> Int] /\ Grid \in Nat
  BY GridAssumption DEF Register, Zero
<1>2. col \in Nat /\ tile \in Nat \X Nat
  BY <1>1
<1>3. m = [r EXCEPT !.row = 0, !.sum = Zero, !.col = col, !.tile = tile]
  BY DEF Moved
<1>4. /\ r.inPart2 => col = r.col + 1 /\ tile = <<r.tile[1], r.tile[2] + 1>>
      /\ ~ r.inPart2 => col = r.col + Grid
  OBVIOUS
<1> HIDE DEF m, col, tile
<1>5. m \in Register
  BY <1>1, <1>2, <1>3 DEF Register
<1>6. /\ m.row = 0 /\ m.sum = Zero /\ m.inPart2 = r.inPart2
      /\ m.part1 = r.part1 /\ m.count = r.count /\ m.idx = r.idx
      /\ m.lock = r.lock /\ m.col = col /\ m.tile = tile
  BY <1>3 DEF Register
<1> QED BY <1>4, <1>5, <1>6 DEF m

\* A block in part 2 goes on with the top of its stripe in the next column.
LEMMA MovedIsReady ==
  ASSUME NEW sh \in Shapes, NEW b \in Blocks, NEW r \in Register, Good(sh, b, r),
         r.pc # "exited", r.inPart2
  PROVE  Ready(sh, b, Moved(r))
<1> DEFINE m == Moved(r)
           c == r.col
           a == Whole(sh) + c
           k == sh.k
           it == Iters(sh)
           l == Last(sh, a)
           f == First(sh, a)
           P == Part2Tiles(sh)
<1>1. /\ m.row = 0 /\ m.inPart2 /\ m.lock = r.lock /\ m.col = c + 1
      /\ m.tile = <<r.tile[1], r.tile[2] + 1>> /\ c \in Nat
  BY MovedIs DEF Register
<1>2. Stripe(sh, b, r) /\ r.tile = TileAt(sh, a)
  BY DEF Good, Pos
<1>3. c < P /\ Mine(sh, b, a) /\ r.lock = LockOf(sh, a)
  BY <1>2 DEF Stripe
<1>4. /\ ~ Persistent(sh) /\ it \in Nat \ {0} /\ k * c \in Nat /\ f \in Nat /\ l \in Nat
      /\ b \in Nat /\ a - Whole(sh) = c /\ f =< l
      /\ it * l \in Nat /\ it * l < k * c + k /\ k * c + k =< it * l + it
  BY <1>1, <1>3, StripeBlocks DEF Blocks
<1>5. f =< b /\ b =< l
  BY <1>3, <1>4 DEF Mine
<1>6. k \in Nat \ {0} /\ sh.n \in Nat \ {0} /\ Whole(sh) \in Nat /\ P \in Nat
  BY ShapeFields, PartIs
<1>7. Wrapped(sh, m.tile) = TileAt(sh, Whole(sh) + m.col)
  <2>1. r.tile = <<a \div sh.n, a % sh.n>>
    BY <1>2, <1>4 DEF TileAt
  <2>2. Whole(sh) + m.col = a + 1 /\ a \in Nat
    BY <1>1, <1>6
  <2>3. TileAt(sh, a + 1) = <<(a + 1) \div sh.n, (a + 1) % sh.n>>
    BY <1>4 DEF TileAt
  <2> HIDE DEF a
  <2>4. m.tile = <<a \div sh.n, (a % sh.n) + 1>>
    BY <1>1, <2>1
  <2>5. Wrapped(sh, m.tile) = IF (a % sh.n) + 1 = sh.n THEN <<(a \div sh.n) + 1, 0>>
                              ELSE <<a \div sh.n, (a % sh.n) + 1>>
    BY <2>4 DEF Wrapped
  <2>6. <<(a + 1) \div sh.n, (a + 1) % sh.n>> =
          IF (a % sh.n) + 1 = sh.n THEN <<(a \div sh.n) + 1, 0>>
          ELSE <<a \div sh.n, (a % sh.n) + 1>>
    <3>1. sh.n \in Nat \ {0} /\ a \in Nat
      BY <1>6, <2>2, Zenon
    <3> QED BY <3>1, NextCell, Zenon
  <2> QED BY <2>2, <2>3, <2>5, <2>6, Zenon
<1>8. LockOf(sh, a) = IF P >= Grid THEN l ELSE c
  BY <1>4 DEF LockOf
<1> DEFINE at == k * m.col + m.row
<1> HIDE DEF m, c, a, k, it, l, f, P
<1>9. k * (c + 1) = k * c + k
  BY <1>1, <1>6, MulStep
<1>10. at = k * c + k
  BY <1>1, <1>4, <1>6, <1>9
<1> HIDE DEF at
<1>11. it * b =< it * l /\ it * b \in Nat
  <2>1. it * b \in Nat
    BY <1>4, MulNat
  <2>2. b < l => it * b + it =< it * l
    BY <1>4, MulMono
  <2> QED BY <1>4, <1>5, <2>1, <2>2
<1>12. it * b =< at
  BY <1>4, <1>6, <1>10, <1>11
<1>13. ASSUME at < it * (b + 1) PROVE b = l
  <2>1. it * l < it * (b + 1)
    <3>1. it * (b + 1) = it * b + it
      BY <1>4, MulStep
    <3> QED BY <1>4, <1>6, <1>10, <1>11, <1>13, <3>1
  <2>2. l < b + 1
    BY <1>4, <2>1, MulLess
  <2> QED BY <1>4, <1>5, <2>2
<1>14. ASSUME at < it * (b + 1)
       PROVE  m.lock = IF P >= Grid THEN b ELSE m.col - 1
  <2>1. b = l
    BY <1>13, <1>14
  <2>2. m.col - 1 = c
    BY <1>1
  <2> QED BY <1>1, <1>3, <1>8, <2>1, <2>2
<1>15. m.row < k /\ ~ (m.row > 0)
  BY <1>1, <1>6
<1> QED BY <1>1, <1>7, <1>12, <1>14, <1>15 DEF Ready, m, it, at, k, P

\* Moving on: the block is past exactly the shares it was at or past before.
LEMMA NextSliceIs ==
  ASSUME NEW sh \in Shapes, NEW b \in Blocks, NEW r \in Register, Good(sh, b, r),
         r.pc # "exited"
  PROVE  LET s == NextSlice(sh, b, r) IN
         /\ s \in Register /\ Good(sh, b, s) /\ s.pc \in {"compute", "exited"}
         /\ \A a \in Positions(sh) : Mine(sh, b, a) =>
              (Pos(sh, s) > a <=> Pos(sh, r) >= a)
<1> DEFINE m == Moved(r)
           s == NextSlice(sh, b, r)
<1>1. s = InitSlice(sh, b, m)
  BY DEF NextSlice, Moved
<1>2. /\ m \in Register /\ m.row = 0 /\ m.sum = Zero /\ m.inPart2 = r.inPart2
      /\ m.part1 = r.part1 /\ m.count = r.count /\ m.idx = r.idx
      /\ m.lock = r.lock
      /\ r.inPart2 => m.col = r.col + 1
      /\ ~ r.inPart2 => m.col = r.col + Grid
  BY MovedIs
<1>3. /\ r.col \in Nat /\ r.part1 \in Nat /\ Whole(sh) \in Nat /\ Grid \in Nat \ {0}
      /\ b \in Nat
  BY PartIs, GridAssumption DEF Register, Blocks
<1>4. CASE r.inPart2
  <2>1. Ready(sh, b, m)
    BY <1>4, MovedIsReady
  <2>2. s = InitPart2Slice(sh, b, m)
    BY <1>1, <1>2, <1>4 DEF InitSlice
  <2> HIDE DEF s, m
  <2>3. /\ s \in Register /\ Good(sh, b, s) /\ s.pc \in {"compute", "exited"}
        /\ s.inPart2 /\ s.col = m.col
    BY <1>2, <2>1, <2>2, StripeSlice
  <2>4. Pos(sh, s) = Pos(sh, r) + 1 /\ Pos(sh, r) \in Nat
    BY <1>2, <1>3, <1>4, <2>3 DEF Pos
  <2>5. ASSUME NEW a \in Positions(sh) PROVE Pos(sh, s) > a <=> Pos(sh, r) >= a
    <3>1. a \in Nat
      BY PositionIs
    <3> QED BY <2>4, <3>1
  <2> QED BY <2>3, <2>5 DEF s
<1>5. CASE ~ r.inPart2
  <2>1. WholeTile(sh, b, r)
    BY <1>5 DEF Good
  <2>2. Grid * r.part1 \in Nat
    BY <1>3, MulNat
  <2>3. r.col < Whole(sh) /\ r.col % Grid = b
    BY <1>3, <2>1, <2>2 DEF WholeTile
  <2>4. (r.col + Grid) % Grid = b
    <3> DEFINE q == r.col \div Grid
    <3>1. q \in Nat /\ r.col = Grid * q + (r.col % Grid)
      BY <1>3, DivBounds
    <3>2. b \in 0 .. Grid - 1
      BY DEF Blocks
    <3>3. r.col = Grid * q + b
      BY <2>3, <3>1, Zenon
    <3> HIDE DEF q
    <3>4. Grid * (q + 1) = Grid * q + Grid /\ Grid * q \in Nat
      BY <1>3, <3>1, MulStep, MulNat
    <3>5. r.col + Grid = Grid * (q + 1) + b /\ q + 1 \in Nat
      BY <1>3, <3>1, <3>3, <3>4
    <3>6. (Grid * (q + 1) + b) % Grid = b
      BY <1>3, <3>2, <3>5, DivMod
    <3> QED BY <3>5, <3>6, Zenon
  <2>5. Dealt(sh, b, m)
    <3>1. /\ Whole(sh) =< m.col + Grid * m.part1
          /\ m.part1 > 0 => m.col + Grid * m.part1 < Whole(sh) + Grid
      BY <1>2, <1>3, <1>5, <2>1, <2>2 DEF WholeTile
    <3> QED BY <1>2, <1>5, <2>1, <2>4, <3>1 DEF Dealt, WholeTile
  <2> HIDE DEF m, s
  <2>6. /\ s \in Register /\ Good(sh, b, s) /\ s.pc \in {"compute", "exited"}
        /\ \A a \in Positions(sh) : Mine(sh, b, a) =>
             (Pos(sh, s) > a <=> a < Whole(sh) /\ a < m.col)
    BY <1>1, <1>2, <2>5, DealtSlice
  <2>7. Pos(sh, r) = r.col /\ m.col = r.col + Grid
    BY <1>2, <1>5 DEF Pos
  <2>8. ASSUME NEW a \in Positions(sh), Mine(sh, b, a)
        PROVE  a < Whole(sh) /\ a < m.col <=> r.col >= a
    <3>1. a \in Nat
      BY PositionIs
    <3>2. ASSUME a < Whole(sh), r.col < a PROVE r.col + Grid =< a
      <4>1. First(sh, a) = a % Grid /\ Last(sh, a) = a % Grid /\ First(sh, a) \in Nat
        BY <3>2, PositionIs DEF First, Last, Blocks
      <4>2. a % Grid = b
        <5>1. First(sh, a) = b
          BY <1>3, <2>8, <4>1 DEF Mine
        <5> QED BY <4>1, <5>1, Zenon
      <4>3. r.col % Grid = a % Grid
        BY <2>3, <4>2
      <4> QED BY <1>3, <3>1, <3>2, <4>3, SameRemainder
    <3> QED BY <1>3, <2>3, <2>7, <3>1, <3>2
  <2> QED BY <2>6, <2>7, <2>8 DEF s
<1> QED BY <1>4, <1>5

\* A block that has not left works on its share of a position.
LEMMA WorkIs ==
  ASSUME NEW sh \in Shapes, NEW b \in Blocks, NEW r \in Register, Good(sh, b, r),
         r.pc # "exited"
  PROVE  LET a == Pos(sh, r) IN
         /\ a \in Positions(sh) /\ Mine(sh, b, a)
         /\ First(sh, a) =< b /\ b =< Last(sh, a)
         /\ r.tile = TileAt(sh, a)
         /\ r.idx = Last(sh, a) - b
         /\ r.row = RowOf(sh, a, b) /\ r.row + r.iters = EndOf(sh, a, b)
         /\ Shared(r) <=> SharedAt(sh, a)
         /\ IsLast(r) <=> b = First(sh, a)
         /\ Shared(r) => r.lock = LockOf(sh, a)
<1> DEFINE a == Pos(sh, r)
           f == First(sh, a)
           l == Last(sh, a)
<1>1. /\ r.col \in Nat /\ r.part1 \in Nat /\ Whole(sh) \in Nat /\ Grid \in Nat \ {0}
      /\ b \in Nat /\ Part2Tiles(sh) \in Nat /\ MnTiles(sh) = Whole(sh) + Part2Tiles(sh)
  BY PartIs, GridAssumption DEF Register, Blocks
<1>2. CASE r.inPart2
  <2>1. a = Whole(sh) + r.col
    BY <1>2 DEF Pos
  <2>2. /\ r.col < Part2Tiles(sh) /\ Mine(sh, b, a)
        /\ r.count = l - f + 1 /\ r.idx = l - b
        /\ r.row = RowOf(sh, a, b) /\ r.row + r.iters = EndOf(sh, a, b)
        /\ r.lock = LockOf(sh, a) /\ r.tile = TileAt(sh, a)
    BY <1>2, <2>1 DEF Good, Stripe
  <2>3. a \in Positions(sh)
    BY <1>1, <2>1, <2>2 DEF Positions
  <2>4. f \in Nat /\ l \in Nat
    BY <2>3, PositionIs DEF Blocks
  <2>5. f =< b /\ b =< l
    BY <1>1, <2>2, <2>4 DEF Mine
  <2> HIDE DEF a, f, l
  <2>6. (r.count > 1 <=> f < l) /\ (r.idx = r.count - 1 <=> b = f)
    BY <1>1, <2>2, <2>4
  <2> QED BY <2>2, <2>3, <2>5, <2>6 DEF Shared, SharedAt, IsLast, a, f, l
<1>3. CASE ~ r.inPart2
  <2>1. a = r.col
    BY <1>3 DEF Pos
  <2>2. /\ r.count = 1 /\ r.idx = 0 /\ r.row = 0 /\ r.iters = sh.k
        /\ a % Grid = b /\ r.tile = TileAt(sh, a)
        /\ r.col + Grid * r.part1 < Whole(sh)
    BY <1>3, <2>1 DEF Good, WholeTile
  <2>3. Grid * r.part1 \in Nat
    BY <1>1, MulNat
  <2>4. a < Whole(sh) /\ a \in Positions(sh)
    BY <1>1, <2>1, <2>2, <2>3 DEF Positions
  <2>5. f = b /\ l = b
    BY <2>2, <2>4 DEF First, Last
  <2>6. Mine(sh, b, a)
    BY <1>1, <2>5 DEF Mine
  <2>7. RowOf(sh, a, b) = 0 /\ EndOf(sh, a, b) = sh.k
    BY <2>5 DEF RowOf, EndOf
  <2>8. 0 + sh.k = sh.k
    BY ShapeFields
  <2> HIDE DEF a, f, l
  <2>9. /\ l - b = 0 /\ ~ (f < l) /\ ~ (r.count > 1) /\ r.idx = r.count - 1
        /\ f =< b /\ b =< l
    BY <1>1, <2>2, <2>5
  <2> QED BY <2>2, <2>4, <2>5, <2>6, <2>7, <2>8, <2>9
          DEF Shared, SharedAt, IsLast, a, f, l
<1> QED BY <1>2, <1>3

\* A block that has left is past all its shares.
LEMMA LeftIs ==
  ASSUME NEW sh \in Shapes, NEW b \in Blocks, NEW r \in Register, Good(sh, b, r),
         r.pc = "exited", NEW a \in Positions(sh), Mine(sh, b, a)
  PROVE  Pos(sh, r) > a
<1> DEFINE W == Whole(sh)
           P == Part2Tiles(sh)
           k == sh.k
           it == Iters(sh)
<1>1. /\ r.col \in Nat /\ W \in Nat /\ P \in Nat /\ k \in Nat \ {0} /\ b \in Nat
      /\ a \in Nat
  BY PartIs, ShapeFields, PositionIs DEF Register, Blocks
<1>2. Pos(sh, r) = W + r.col /\ (r.col >= P \/ it * (b + 1) =< k * r.col)
  BY DEF Good, Pos
<1>3. CASE a < W
  BY <1>1, <1>2, <1>3
<1>4. CASE ~ (a < W)
  <2>1. PICK c \in Nat : c < P /\ a = W + c
    BY <1>4, PositionIs
  <2> DEFINE f == First(sh, a)
  <2>2. it \in Nat \ {0} /\ f \in Nat /\ k * c \in Nat /\ it * f \in Nat
        /\ it * f =< k * c
    BY <2>1, StripeBlocks DEF Blocks
  <2>3. f =< b
    BY <1>1, <2>2 DEF Mine
  <2>4. CASE r.col >= P
    BY <1>1, <1>2, <2>1, <2>4
  <2>5. CASE it * (b + 1) =< k * r.col
    <3> DEFINE l == Last(sh, a)
    <3>1. l \in Nat /\ b =< l /\ it * l < k * c + k /\ it * l \in Nat
          /\ k * c < it * f + it
      BY <1>1, <2>1, <2>2, StripeBlocks DEF Mine, Blocks
    <3> HIDE DEF W, P, k, it, f, l
    <3> SUFFICES ASSUME r.col =< c PROVE FALSE
      BY <1>1, <1>2, <2>1
    <3>2. it * (b + 1) = it * b + it /\ it * b \in Nat
      BY <1>1, <2>2, MulStep, MulNat
    <3>3. it * f =< it * b
      <4>1. f < b => it * f + it =< it * b
        BY <1>1, <2>2, MulMono
      <4> QED BY <1>1, <2>2, <2>3, <3>2, <4>1
    <3>4. k * r.col =< k * c /\ k * r.col \in Nat
      <4>1. k * r.col \in Nat
        BY <1>1, MulNat
      <4>2. r.col < c => k * r.col + k =< k * c
        BY <1>1, MulMono
      <4> QED BY <1>1, <2>2, <4>1, <4>2
    <3> QED BY <1>1, <2>2, <2>5, <3>1, <3>2, <3>3, <3>4
  <2> QED BY <1>2, <2>4, <2>5
<1> QED BY <1>3, <1>4

-----------------------------------------------------------------------------
(* The inductive invariant.                                                 *)

\* A block has done its share of a position: it is past it, or about to write
\* the tile.
Done(sh, r, a) ==
  Pos(sh, r) > a \/ (Pos(sh, r) = a /\ r.pc = "write")

\* Lock value n counts the blocks done with a position from the last one down,
\* and is zero again when all are.
CountsAt(sh, blk, n, a) ==
  \/ n = 0 /\ \A c \in First(sh, a) .. Last(sh, a) : Done(sh, blk[c], a)
  \/ /\ n \in 0 .. Last(sh, a) - First(sh, a)
     /\ \A c \in First(sh, a) .. Last(sh, a) :
          Done(sh, blk[c], a) <=> c > Last(sh, a) - n

\* The products of a position from block b's first k step on.
RestFrom(sh, a, b) == Products(RowOf(sh, a, b), sh.k - RowOf(sh, a, b))

\* Slot value sum holds the products of the blocks done, or those of the block
\* whose turn it is too while it is about to release the lock.
PartialAt(sh, blk, n, sum, a) ==
  LET x == Last(sh, a) - n IN
  n > 0 /\ ~ Done(sh, blk[First(sh, a)], a) =>
    \/ sum = RestFrom(sh, a, x + 1)
    \/ x # First(sh, a) /\ Pos(sh, blk[x]) = a /\ blk[x].pc = "release"

\* What a block's accumulators hold.
Sums(sh, r) ==
  /\ r.pc \in {"acquire", "reduce"} => r.sum = Products(r.row, r.iters)
  /\ r.pc = "release" => r.sum = Products(r.row, sh.k - r.row)
  /\ r.pc = "write" => r.sum = Products(0, sh.k) /\ IsLast(r)
  /\ r.pc \in {"acquire", "reduce", "release"} => Shared(r)

Types ==
  /\ shape \in Shapes /\ launches \in 1 .. MaxLaunches
  /\ block \in [Blocks -> Register] /\ locks \in [Blocks -> Int]
  /\ cTmp \in [Blocks -> [KSteps -> Int]]
  /\ out \in [Tiles(shape) -> Seq([KSteps -> Int])]
  /\ tileOf \in [Blocks -> Int \X Int]

Registers == \A b \in Blocks : Good(shape, b, block[b]) /\ Sums(shape, block[b])

LocksCount ==
  \A a \in Positions(shape) : SharedAt(shape, a) =>
    /\ CountsAt(shape, block, locks[LockOf(shape, a)], a)
    /\ PartialAt(shape, block, locks[LockOf(shape, a)], cTmp[LockOf(shape, a)], a)

OtherLocksZero ==
  \A l \in Blocks :
    locks[l] # 0 => \E a \in Positions(shape) : SharedAt(shape, a) /\ LockOf(shape, a) = l

Holders ==
  \A b \in Blocks : block[b].pc \in {"reduce", "release"} =>
    locks[block[b].lock] = block[b].idx

Stored ==
  \A b \in Blocks : block[b].pc = "release" /\ ~ IsLast(block[b]) =>
    cTmp[block[b].lock] = RestFrom(shape, Pos(shape, block[b]), b)

Output ==
  \A a \in Positions(shape) :
    out[TileAt(shape, a)] =
      IF Pos(shape, block[First(shape, a)]) > a THEN <<Products(0, shape.k)>> ELSE <<>>

Served ==
  \A l \in Blocks :
    tileOf[l] # NoTile =>
      \E a \in Positions(shape) :
        SharedAt(shape, a) /\ LockOf(shape, a) = l /\ tileOf[l] = TileAt(shape, a)

Inv ==
  /\ Types /\ Registers /\ LocksCount /\ OtherLocksZero
  /\ Holders /\ Stored /\ Output /\ Served

\* A step of a block: it stays where it is, or goes on to its next share.
Moves(sh, b, r, s) ==
  /\ s \in Register /\ Good(sh, b, s) /\ Sums(sh, s)
  /\ \/ Pos(sh, s) = Pos(sh, r)
     \/ /\ s.pc \in {"compute", "exited"}
        /\ \A a \in Positions(sh) : Mine(sh, b, a) =>
             (Pos(sh, s) > a <=> Pos(sh, r) >= a)

\* Positions are numbers.
LEMMA PosIs ==
  ASSUME NEW sh \in Shapes, NEW r \in Register
  PROVE  Pos(sh, r) \in Nat
<1>1. Whole(sh) \in Nat /\ r.col \in Nat
  BY PartIs DEF Register
<1> QED BY <1>1 DEF Pos

\* A step changes nothing about the block's other positions.
LEMMA KeepsOthers ==
  ASSUME NEW sh \in Shapes, NEW b \in Blocks, NEW r \in Register, NEW s,
         Moves(sh, b, r, s),
         NEW d \in Positions(sh), Mine(sh, b, d), d # Pos(sh, r)
  PROVE  /\ Pos(sh, s) > d <=> Pos(sh, r) > d
         /\ Done(sh, s, d) <=> Done(sh, r, d)
         /\ ~ (Pos(sh, s) = d /\ s.pc = "release")
<1>1. s \in Register /\ d \in Nat /\ Pos(sh, r) \in Nat /\ Pos(sh, s) \in Nat
  BY PosIs, PositionIs DEF Moves
<1>2. CASE Pos(sh, s) = Pos(sh, r)
  BY <1>1, <1>2 DEF Done
<1>3. CASE Pos(sh, s) # Pos(sh, r)
  <2>1. s.pc \in {"compute", "exited"} /\ (Pos(sh, s) > d <=> Pos(sh, r) >= d)
    BY <1>3 DEF Moves
  <2> QED BY <1>1, <2>1 DEF Done
<1> QED BY <1>2, <1>3

\* A step that does not finish the block's share keeps what the lock counts.
LEMMA SameCounts ==
  ASSUME NEW sh \in Shapes, NEW blk \in [Blocks -> Register], NEW b \in Blocks,
         NEW s, NEW d \in Positions(sh), NEW n \in Int,
         Mine(sh, b, d) => (Done(sh, s, d) <=> Done(sh, blk[b], d)),
         CountsAt(sh, blk, n, d)
  PROVE  LET nb == [blk EXCEPT ![b] = s] IN
         /\ CountsAt(sh, nb, n, d)
         /\ \A c \in First(sh, d) .. Last(sh, d) :
              Done(sh, nb[c], d) <=> Done(sh, blk[c], d)
<1> DEFINE nb == [blk EXCEPT ![b] = s]
           f == First(sh, d)
           l == Last(sh, d)
<1>1. f \in Blocks /\ l \in Blocks /\ f =< l
  BY PositionIs
<1>2. f \in Nat /\ l \in Nat /\ \A c \in f .. l : c \in Blocks /\ c \in Nat
  BY <1>1, GridAssumption DEF Blocks
<1>3. ASSUME NEW c \in f .. l
      PROVE  Done(sh, nb[c], d) <=> Done(sh, blk[c], d)
  <2>1. c \in Blocks /\ Mine(sh, c, d)
    BY <1>2 DEF Mine
  <2>2. CASE c = b
    BY <2>1, <2>2
  <2>3. CASE c # b
    BY <2>1, <2>3
  <2> QED BY <2>2, <2>3
<1> HIDE DEF nb
<1>4. CASE n = 0 /\ \A c \in f .. l : Done(sh, blk[c], d)
  BY <1>3, <1>4 DEF CountsAt, nb
<1>5. CASE n \in 0 .. l - f /\ \A c \in f .. l : Done(sh, blk[c], d) <=> c > l - n
  <2>1. \A c \in f .. l : Done(sh, nb[c], d) <=> c > l - n
    BY <1>3, <1>5
  <2> QED BY <1>3, <1>5, <2>1 DEF CountsAt, nb
<1> QED BY <1>4, <1>5 DEF CountsAt

\* It also keeps what the slot holds, unless the block was about to release.
LEMMA SamePartial ==
  ASSUME NEW sh \in Shapes, NEW blk \in [Blocks -> Register], NEW b \in Blocks,
         NEW s, NEW d \in Positions(sh), NEW n \in Int, NEW sum,
         Mine(sh, b, d) => (Done(sh, s, d) <=> Done(sh, blk[b], d)),
         ~ (Pos(sh, blk[b]) = d /\ blk[b].pc = "release"),
         CountsAt(sh, blk, n, d), PartialAt(sh, blk, n, sum, d)
  PROVE  PartialAt(sh, [blk EXCEPT ![b] = s], n, sum, d)
<1> DEFINE nb == [blk EXCEPT ![b] = s]
           f == First(sh, d)
           l == Last(sh, d)
<1>1. f \in Blocks /\ l \in Blocks /\ f =< l
  BY PositionIs
<1>2. f \in Nat /\ l \in Nat /\ \A c \in f .. l : c \in Blocks /\ c \in Nat
  BY <1>1, GridAssumption DEF Blocks
<1>3. \A c \in f .. l : Done(sh, nb[c], d) <=> Done(sh, blk[c], d)
  BY SameCounts
<1>4. \A c \in Blocks : c # b => nb[c] = blk[c]
  OBVIOUS
<1> SUFFICES ASSUME n > 0, ~ Done(sh, nb[f], d)
             PROVE  \/ sum = RestFrom(sh, d, l - n + 1)
                    \/ /\ l - n # f /\ Pos(sh, nb[l - n]) = d
                       /\ nb[l - n].pc = "release"
  BY DEF PartialAt
<1> HIDE DEF nb
<1>5. f \in f .. l
  BY <1>1, <1>2
<1>6. ~ Done(sh, blk[f], d)
  BY <1>3, <1>5
<1>7. n \in 0 .. l - f
  BY <1>5, <1>6 DEF CountsAt
<1>8. l - n \in Blocks
  BY <1>2, <1>7
<1>9. \/ sum = RestFrom(sh, d, l - n + 1)
      \/ l - n # f /\ Pos(sh, blk[l - n]) = d /\ blk[l - n].pc = "release"
  BY <1>6 DEF PartialAt
<1> QED BY <1>4, <1>8, <1>9

\* A step keeps what the lock and the slot of another position say.
LEMMA KeepsLock ==
  ASSUME NEW sh \in Shapes, NEW blk \in [Blocks -> Register], NEW b \in Blocks,
         NEW s, Moves(sh, b, blk[b], s),
         NEW d \in Positions(sh), d # Pos(sh, blk[b]), NEW n \in Int, NEW sum,
         CountsAt(sh, blk, n, d), PartialAt(sh, blk, n, sum, d)
  PROVE  LET nb == [blk EXCEPT ![b] = s] IN
         CountsAt(sh, nb, n, d) /\ PartialAt(sh, nb, n, sum, d)
<1>1. Mine(sh, b, d) => (Done(sh, s, d) <=> Done(sh, blk[b], d))
  BY KeepsOthers
<1> QED BY <1>1, SameCounts, SamePartial

\* The registers after a step.
LEMMA RegistersKept ==
  ASSUME Types, Registers, NEW b \in Blocks, NEW s, Moves(shape, b, block[b], s),
         shape' = shape, block' = [block EXCEPT ![b] = s]
  PROVE  block' \in [Blocks -> Register] /\ Registers'
<1>1. block' \in [Blocks -> Register]
  BY DEF Types, Moves
<1>2. ASSUME NEW c \in Blocks PROVE Good(shape', c, block'[c]) /\ Sums(shape', block'[c])
  <2>1. CASE c = b
    <3>1. block'[c] = s
      BY <2>1 DEF Types
    <3> QED BY <2>1, <3>1 DEF Moves
  <2>2. CASE c # b
    <3>1. block'[c] = block[c]
      BY <2>2 DEF Types
    <3> QED BY <3>1 DEF Registers
  <2> QED BY <2>1, <2>2
<1>3. Registers'
  BY <1>2 DEF Registers
<1> QED BY <1>1, <1>3

\* The locks and slots after a step that keeps those of other positions.
LEMMA LocksKept ==
  ASSUME Types, LocksCount, NEW b \in Blocks, NEW s, Moves(shape, b, block[b], s),
         shape' = shape, block' = [block EXCEPT ![b] = s],
         \A d \in Positions(shape) :
           SharedAt(shape, d) /\ d # Pos(shape, block[b]) =>
             /\ locks'[LockOf(shape, d)] = locks[LockOf(shape, d)]
             /\ cTmp'[LockOf(shape, d)] = cTmp[LockOf(shape, d)],
         LET a == Pos(shape, block[b])
             h == LockOf(shape, a)
         IN  a \in Positions(shape) /\ SharedAt(shape, a) =>
               /\ CountsAt(shape, block', locks'[h], a)
               /\ PartialAt(shape, block', locks'[h], cTmp'[h], a)
  PROVE  LocksCount'
<1> SUFFICES ASSUME NEW d \in Positions(shape), SharedAt(shape, d)
             PROVE  LET h == LockOf(shape, d) IN
                    /\ CountsAt(shape, block', locks'[h], d)
                    /\ PartialAt(shape, block', locks'[h], cTmp'[h], d)
  BY DEF LocksCount
<1>1. CASE d = Pos(shape, block[b])
  BY <1>1
<1>2. CASE d # Pos(shape, block[b])
  <2> DEFINE h == LockOf(shape, d)
  <2>1. locks'[h] = locks[h] /\ cTmp'[h] = cTmp[h]
    BY <1>2
  <2>2. CountsAt(shape, block, locks[h], d) /\ PartialAt(shape, block, locks[h], cTmp[h], d)
    BY DEF LocksCount
  <2>3. locks[h] \in Int /\ shape \in Shapes /\ block \in [Blocks -> Register]
    BY LockIs DEF Types
  <2> HIDE DEF h
  <2>4. CountsAt(shape, block', locks[h], d) /\ PartialAt(shape, block', locks[h], cTmp[h], d)
    BY <1>2, <2>2, <2>3, KeepsLock
  <2> QED BY <2>1, <2>4 DEF h
<1> QED BY <1>1, <1>2

\* The output after a step that does not leave its position, or leaves it to
\* the first block of the position.
LEMMA OutputKept ==
  ASSUME Types, Output, NEW b \in Blocks, NEW s, Moves(shape, b, block[b], s),
         shape' = shape, block' = [block EXCEPT ![b] = s], out' = out,
         LET a == Pos(shape, block[b]) IN b # First(shape, a) \/ Pos(shape, s) = a
  PROVE  Output'
<1> SUFFICES ASSUME NEW d \in Positions(shape)
             PROVE  Pos(shape, block'[First(shape, d)]) > d <=>
                    Pos(shape, block[First(shape, d)]) > d
  BY DEF Output
<1> DEFINE f == First(shape, d)
           a == Pos(shape, block[b])
<1>1. shape \in Shapes /\ block \in [Blocks -> Register]
  BY DEF Types
<1>2. f \in Blocks /\ Last(shape, d) \in Blocks /\ f =< Last(shape, d)
  BY <1>1, PositionIs
<1>3. CASE f # b
  BY <1>1, <1>2, <1>3
<1>4. CASE f = b
  <2>1. block'[f] = s
    BY <1>1, <1>4
  <2>2. CASE d = a
    BY <1>4, <2>1, <2>2
  <2>3. CASE d # a
    <3>1. Mine(shape, b, d)
      BY <1>2, <1>4, GridAssumption DEF Mine, Blocks
    <3>2. Pos(shape, s) > d <=> Pos(shape, block[b]) > d
      BY <1>1, <2>3, <3>1, KeepsOthers
    <3> QED BY <1>4, <2>1, <3>2
  <2> QED BY <2>2, <2>3
<1> QED BY <1>3, <1>4

\* The holder of a lock: it is its turn at the position, it is not done, and no
\* other block holds the lock.
LEMMA HolderIs ==
  ASSUME Inv, NEW b \in Blocks, block[b].pc \in {"reduce", "release"}
  PROVE  LET r == block[b]
             a == Pos(shape, r)
         IN  /\ a \in Positions(shape) /\ SharedAt(shape, a)
             /\ r.lock = LockOf(shape, a) /\ r.lock \in Blocks
             /\ locks[r.lock] = Last(shape, a) - b
             /\ \A c \in Blocks :
                  block[c].pc \in {"reduce", "release"} /\ block[c].lock = r.lock => c = b
<1>1. /\ shape \in Shapes /\ block \in [Blocks -> Register]
      /\ \A c \in Blocks : Good(shape, c, block[c]) /\ Sums(shape, block[c])
      /\ Holders
  BY DEF Inv, Types, Registers
<1>2. ASSUME NEW c \in Blocks, block[c].pc \in {"reduce", "release"}
      PROVE  LET a == Pos(shape, block[c]) IN
             /\ a \in Positions(shape) /\ SharedAt(shape, a)
             /\ block[c].lock = LockOf(shape, a)
             /\ locks[block[c].lock] = Last(shape, a) - c
  <2>1. Shared(block[c]) /\ block[c].pc # "exited" /\ block[c] \in Register
        /\ Good(shape, c, block[c])
    BY <1>1, <1>2 DEF Sums
  <2>2. locks[block[c].lock] = block[c].idx
    BY <1>1, <1>2 DEF Holders
  <2> QED BY <1>1, <2>1, <2>2, WorkIs
<1> DEFINE r == block[b]
           a == Pos(shape, r)
<1>3. /\ a \in Positions(shape) /\ SharedAt(shape, a)
      /\ r.lock = LockOf(shape, a) /\ locks[r.lock] = Last(shape, a) - b
  BY <1>2
<1>4. r.lock \in Blocks
  BY <1>1, <1>3, LockIs
<1>5. ASSUME NEW c \in Blocks, block[c].pc \in {"reduce", "release"}, block[c].lock = r.lock
      PROVE  c = b
  <2> DEFINE d == Pos(shape, block[c])
  <2>1. /\ d \in Positions(shape) /\ SharedAt(shape, d)
        /\ LockOf(shape, d) = LockOf(shape, a) /\ locks[r.lock] = Last(shape, d) - c
    BY <1>2, <1>3, <1>5
  <2>2. d = a
    BY <1>1, <1>3, <2>1, LockIs
  <2>3. Last(shape, a) \in Nat /\ b \in Nat /\ c \in Nat
    BY <1>1, <1>3, PositionIs DEF Blocks
  <2>4. Last(shape, a) - c = Last(shape, a) - b
    BY <1>3, <2>1, <2>2
  <2> QED BY <2>3, <2>4
<1> QED BY <1>3, <1>4, <1>5

\* Partial sums are integer vectors.
LEMMA ProductsType ==
  ASSUME NEW x, NEW y
  PROVE  Products(x, y) \in [KSteps -> Int]
BY DEF Products

\* Sums of neighbouring products.
LEMMA PlusProducts ==
  ASSUME NEW x \in Nat, NEW i \in Nat, NEW j \in Nat
  PROVE  Plus(Products(x, i), Products(x + i, j)) = Products(x, i + j)
<1>1. ASSUME NEW k \in KSteps
      PROVE  Products(x, i)[k] + Products(x + i, j)[k] = Products(x, i + j)[k]
  <2>1. k \in Int
    BY DEF KSteps
  <2>2. /\ Products(x, i)[k] = IF k \in x .. x + i - 1 THEN 1 ELSE 0
        /\ Products(x + i, j)[k] = IF k \in x + i .. (x + i) + j - 1 THEN 1 ELSE 0
        /\ Products(x, i + j)[k] = IF k \in x .. x + (i + j) - 1 THEN 1 ELSE 0
    BY DEF Products
  <2> QED BY <2>1, <2>2
<1>2. Products(x, i + j) = [k \in KSteps |-> Products(x, i + j)[k]]
  BY DEF Products
<1>3. Plus(Products(x, i), Products(x + i, j)) =
        [k \in KSteps |-> Products(x, i)[k] + Products(x + i, j)[k]]
  BY DEF Plus
<1>4. [k \in KSteps |-> Products(x, i)[k] + Products(x + i, j)[k]] =
      [k \in KSteps |-> Products(x, i + j)[k]]
  BY <1>1
<1> QED BY <1>2, <1>3, <1>4

\* A step that only changes the accumulators and the place.
Stay(r, sum, pc) == [r EXCEPT !.sum = sum, !.pc = pc]

\* It keeps the block's share.
LEMMA StaysGood ==
  ASSUME NEW sh \in Shapes, NEW b \in Blocks, NEW r \in Register, Good(sh, b, r),
         r.pc # "exited", NEW sum \in [KSteps -> Int],
         NEW pc \in Places \ {"exited"}
  PROVE  LET s == Stay(r, sum, pc) IN
         /\ s \in Register /\ Good(sh, b, s) /\ Pos(sh, s) = Pos(sh, r)
         /\ Shared(s) <=> Shared(r)
         /\ IsLast(s) <=> IsLast(r)
         /\ s.pc = pc /\ s.sum = sum /\ s.row = r.row /\ s.iters = r.iters
         /\ s.lock = r.lock /\ s.idx = r.idx /\ s.tile = r.tile
<1> DEFINE s == Stay(r, sum, pc)
<1>1. s \in Register
  BY DEF Register, Stay
<1>2. /\ s.pc = pc /\ s.sum = sum /\ s.row = r.row /\ s.iters = r.iters
      /\ s.lock = r.lock /\ s.idx = r.idx /\ s.tile = r.tile /\ s.part1 = r.part1
      /\ s.inPart2 = r.inPart2 /\ s.col = r.col /\ s.count = r.count
  BY DEF Register, Stay
<1> HIDE DEF s
<1>3. Pos(sh, s) = Pos(sh, r)
  BY <1>2 DEF Pos
<1>4. Stripe(sh, b, s) <=> Stripe(sh, b, r)
  BY <1>2 DEF Stripe
<1>5. WholeTile(sh, b, s) <=> WholeTile(sh, b, r)
  BY <1>2 DEF WholeTile
<1>6. Good(sh, b, s)
  BY <1>2, <1>3, <1>4, <1>5 DEF Good
<1>7. (Shared(s) <=> Shared(r)) /\ (IsLast(s) <=> IsLast(r))
  BY <1>2 DEF Shared, IsLast
<1> QED BY <1>1, <1>2, <1>3, <1>6, <1>7 DEF s

\* The parts of the invariant a step of one block leaves alone.
LEMMA Untouched ==
  ASSUME Inv, UNCHANGED <<shape, launches>>
  PROVE  /\ locks' = locks => OtherLocksZero'
         /\ tileOf' = tileOf => Served' /\ tileOf' \in [Blocks -> Int \X Int]
         /\ shape' \in Shapes /\ launches' \in 1 .. MaxLaunches
         /\ locks' = locks => locks' \in [Blocks -> Int]
         /\ cTmp' = cTmp => cTmp' \in [Blocks -> [KSteps -> Int]]
         /\ out' = out => out' \in [Tiles(shape') -> Seq([KSteps -> Int])]
<1>1. locks' = locks => OtherLocksZero'
  BY DEF Inv, OtherLocksZero
<1>2. tileOf' = tileOf => Served' /\ tileOf' \in [Blocks -> Int \X Int]
  BY DEF Inv, Served, Types
<1>3. /\ shape' \in Shapes /\ launches' \in 1 .. MaxLaunches
      /\ locks' = locks => locks' \in [Blocks -> Int]
      /\ cTmp' = cTmp => cTmp' \in [Blocks -> [KSteps -> Int]]
      /\ out' = out => out' \in [Tiles(shape') -> Seq([KSteps -> Int])]
  BY DEF Inv, Types
<1> QED BY <1>1, <1>2, <1>3

\* What is known of a block at work.
LEMMA Worker ==
  ASSUME Inv, NEW b \in Blocks, block[b].pc # "exited"
  PROVE  LET r == block[b]
             a == Pos(shape, r)
         IN  /\ shape \in Shapes /\ block \in [Blocks -> Register]
             /\ r \in Register /\ Good(shape, b, r) /\ Sums(shape, r)
             /\ a \in Positions(shape) /\ Mine(shape, b, a)
             /\ First(shape, a) =< b /\ b =< Last(shape, a)
             /\ r.tile = TileAt(shape, a)
             /\ r.idx = Last(shape, a) - b
             /\ r.row = RowOf(shape, a, b) /\ r.row + r.iters = EndOf(shape, a, b)
             /\ Shared(r) <=> SharedAt(shape, a)
             /\ IsLast(r) <=> b = First(shape, a)
             /\ Shared(r) => r.lock = LockOf(shape, a)
             /\ b \in Nat /\ First(shape, a) \in Nat /\ Last(shape, a) \in Nat
<1>1. /\ shape \in Shapes /\ block \in [Blocks -> Register]
      /\ Good(shape, b, block[b]) /\ Sums(shape, block[b])
  BY DEF Inv, Types, Registers
<1>2. block[b] \in Register
  BY <1>1
<1>3. Pos(shape, block[b]) \in Positions(shape)
  BY <1>1, <1>2, WorkIs
<1>4. b \in Nat /\ First(shape, Pos(shape, block[b])) \in Nat
      /\ Last(shape, Pos(shape, block[b])) \in Nat
  BY <1>1, <1>3, PositionIs DEF Blocks
<1> QED BY <1>1, <1>2, <1>4, WorkIs

\* Compute keeps the invariant: the block's share is summed, nothing is shared yet.
LEMMA ComputeKeeps ==
  ASSUME Inv, NEW b \in Blocks, Compute(b)
  PROVE  Inv'
<1> DEFINE r == block[b]
           a == Pos(shape, r)
           sum == Products(r.row, r.iters)
           pc == IF Shared(r) THEN "acquire" ELSE "write"
           s == Stay(r, sum, pc)
<1>1. r.pc = "compute" /\ UNCHANGED <<shape, launches, locks, cTmp, out, tileOf>>
  BY DEF Compute
<1>2. /\ shape \in Shapes /\ block \in [Blocks -> Register]
      /\ r \in Register /\ Good(shape, b, r)
      /\ a \in Positions(shape) /\ Mine(shape, b, a)
      /\ First(shape, a) =< b /\ b =< Last(shape, a)
      /\ r.row = RowOf(shape, a, b) /\ r.row + r.iters = EndOf(shape, a, b)
      /\ Shared(r) <=> SharedAt(shape, a)
      /\ IsLast(r) <=> b = First(shape, a)
      /\ b \in Nat /\ First(shape, a) \in Nat /\ Last(shape, a) \in Nat
  BY <1>1, Worker
<1>3. block' = [block EXCEPT ![b] = s]
  BY <1>2 DEF Compute, Stay
<1>4. sum \in [KSteps -> Int] /\ pc \in Places \ {"exited"}
  BY ProductsType DEF Places
<1>5. /\ s \in Register /\ Good(shape, b, s) /\ Pos(shape, s) = a
      /\ Shared(s) <=> Shared(r)
      /\ IsLast(s) <=> IsLast(r)
      /\ s.pc = pc /\ s.sum = sum /\ s.row = r.row /\ s.iters = r.iters
  <2>1. r.pc # "exited"
    BY <1>1
  <2> HIDE DEF sum, pc, r
  <2> QED BY <1>2, <1>4, <2>1, StaysGood
<1> HIDE DEF s
<1>6. Sums(shape, s)
  <2>1. CASE Shared(r)
    BY <1>5, <2>1 DEF Sums
  <2>2. CASE ~ Shared(r)
    <3>1. First(shape, a) = Last(shape, a) /\ b = First(shape, a) /\ b = Last(shape, a)
      BY <1>2, <2>2 DEF SharedAt
    <3>2. r.row = 0 /\ r.row + r.iters = shape.k
      BY <1>2, <3>1, Rows
    <3>3. r.iters = shape.k
      <4>1. r.iters \in Nat
        BY <1>2 DEF Register
      <4> QED BY <3>2, <4>1
    <3>4. sum = Products(0, shape.k) /\ IsLast(s) /\ pc = "write"
      BY <1>2, <1>5, <2>2, <3>1, <3>2, <3>3
    <3> QED BY <1>5, <3>4 DEF Sums
  <2> QED BY <2>1, <2>2
<1>7. Moves(shape, b, r, s)
  BY <1>5, <1>6 DEF Moves
<1>8. block' \in [Blocks -> Register] /\ Registers'
  BY <1>1, <1>3, <1>7, RegistersKept DEF Inv
<1>9. LocksCount'
  <2> DEFINE h == LockOf(shape, a)
  <2>1. ASSUME SharedAt(shape, a)
        PROVE  /\ CountsAt(shape, block', locks'[h], a)
               /\ PartialAt(shape, block', locks'[h], cTmp'[h], a)
    <3>1. ~ Done(shape, r, a) /\ ~ Done(shape, s, a)
      <4>1. a \in Nat
        BY <1>2, PosIs
      <4> QED BY <1>1, <1>2, <1>5, <2>1, <4>1 DEF Done
    <3>2. /\ CountsAt(shape, block, locks[h], a)
          /\ PartialAt(shape, block, locks[h], cTmp[h], a)
          /\ locks[h] \in Int
      BY <1>2, <2>1, LockIs DEF Inv, LocksCount, Types
    <3> QED BY <1>1, <1>2, <1>3, <3>1, <3>2, SameCounts, SamePartial
  <2> QED BY <1>1, <1>3, <1>7, <2>1, LocksKept DEF Inv
<1>10. Output'
  BY <1>1, <1>3, <1>5, <1>7, OutputKept DEF Inv
<1>11. \A c \in Blocks : c # b => block'[c] = block[c]
  BY <1>2, <1>3
<1>12. block'[b] = s /\ s.pc \notin {"reduce", "release"}
  BY <1>2, <1>3, <1>5
<1>13. Holders' /\ Stored'
  BY <1>1, <1>11, <1>12 DEF Inv, Holders, Stored
<1> QED BY <1>1, <1>8, <1>9, <1>10, <1>13, Untouched DEF Inv, Types

\* Acquire keeps the invariant: it is the block's turn, and the lock serves the
\* block's tile.
LEMMA AcquireKeeps ==
  ASSUME Inv, NEW b \in Blocks, Acquire(b)
  PROVE  Inv'
<1> DEFINE r == block[b]
           a == Pos(shape, r)
           s == Stay(r, r.sum, "reduce")
<1>1. /\ r.pc = "acquire" /\ locks[r.lock] = r.idx
      /\ UNCHANGED <<shape, launches, locks, cTmp, out>>
      /\ tileOf' = [tileOf EXCEPT ![r.lock] = r.tile]
      /\ block' = [block EXCEPT ![b].pc = "reduce"]
  BY DEF Acquire, MayAcquire
<1>2. /\ shape \in Shapes /\ block \in [Blocks -> Register]
      /\ r \in Register /\ Good(shape, b, r) /\ Sums(shape, r)
      /\ a \in Positions(shape) /\ r.tile = TileAt(shape, a)
      /\ Shared(r) <=> SharedAt(shape, a)
      /\ Shared(r) => r.lock = LockOf(shape, a)
  BY <1>1, Worker
<1>3. Shared(r) /\ SharedAt(shape, a) /\ r.sum = Products(r.row, r.iters)
  BY <1>1, <1>2 DEF Sums
<1>4. r.lock = LockOf(shape, a) /\ r.lock \in Blocks
  BY <1>2, <1>3, LockIs
<1>5. block' = [block EXCEPT ![b] = s]
  <2>1. [r EXCEPT !.pc = "reduce"] = s
    BY <1>2 DEF Register, Stay
  <2> QED BY <1>1, <2>1
<1>6. r.sum \in [KSteps -> Int] /\ "reduce" \in Places \ {"exited"} /\ r.tile \in Nat \X Nat
  BY <1>2 DEF Places, Register
<1>7. /\ s \in Register /\ Good(shape, b, s) /\ Pos(shape, s) = a
      /\ Shared(s) <=> Shared(r)
      /\ s.pc = "reduce" /\ s.sum = r.sum /\ s.row = r.row /\ s.iters = r.iters
      /\ s.lock = r.lock /\ s.idx = r.idx
  <2>1. r.pc # "exited"
    BY <1>1
  <2> QED BY <1>2, <1>6, <2>1, StaysGood
<1> HIDE DEF s
<1>8. Moves(shape, b, r, s)
  <2>1. Sums(shape, s)
    BY <1>3, <1>7 DEF Sums
  <2> QED BY <1>7, <2>1 DEF Moves
<1>9. block' \in [Blocks -> Register] /\ Registers'
  BY <1>1, <1>5, <1>8, RegistersKept DEF Inv
<1>10. LocksCount'
  <2> DEFINE h == LockOf(shape, a)
  <2>1. /\ CountsAt(shape, block', locks'[h], a)
        /\ PartialAt(shape, block', locks'[h], cTmp'[h], a)
    <3>1. ~ Done(shape, r, a) /\ ~ Done(shape, s, a)
      <4>1. a \in Nat
        BY <1>2, PosIs
      <4> QED BY <1>1, <1>7, <4>1 DEF Done
    <3>2. /\ CountsAt(shape, block, locks[h], a)
          /\ PartialAt(shape, block, locks[h], cTmp[h], a)
          /\ locks[h] \in Int
      BY <1>2, <1>3, LockIs DEF Inv, LocksCount, Types
    <3>3. locks' = locks /\ cTmp' = cTmp /\ r.pc # "release"
      BY <1>1
    <3>4. CountsAt(shape, block', locks[h], a)
      BY <1>2, <1>5, <3>1, <3>2, SameCounts
    <3>5. PartialAt(shape, block', locks[h], cTmp[h], a)
      BY <1>2, <1>5, <3>1, <3>2, <3>3, SamePartial
    <3> QED BY <3>3, <3>4, <3>5
  <2> QED BY <1>1, <1>5, <1>8, <2>1, LocksKept DEF Inv
<1>11. Output'
  BY <1>1, <1>5, <1>7, <1>8, OutputKept DEF Inv
<1>12. \A c \in Blocks : c # b => block'[c] = block[c]
  BY <1>2, <1>5
<1>13. block'[b] = s
  BY <1>2, <1>5
<1>14. Holders'
  BY <1>1, <1>7, <1>12, <1>13 DEF Inv, Holders
<1>15. Stored'
  BY <1>1, <1>7, <1>12, <1>13 DEF Inv, Stored
<1>16. tileOf' \in [Blocks -> Int \X Int] /\ Served'
  <2>1. tileOf \in [Blocks -> Int \X Int] /\ Served
    BY DEF Inv, Types
  <2>2. r.tile \in Int \X Int
    BY <1>6
  <2>3. tileOf' \in [Blocks -> Int \X Int]
    BY <1>1, <2>1, <2>2
  <2>4. ASSUME NEW l \in Blocks, tileOf'[l] # NoTile
        PROVE  \E d \in Positions(shape) :
                 SharedAt(shape, d) /\ LockOf(shape, d) = l /\ tileOf'[l] = TileAt(shape, d)
    <3>1. CASE l = r.lock
      <4>1. tileOf'[l] = TileAt(shape, a)
        BY <1>1, <1>2, <2>1, <3>1
      <4> QED BY <1>2, <1>3, <1>4, <3>1, <4>1
    <3>2. CASE l # r.lock
      <4>1. tileOf'[l] = tileOf[l]
        BY <1>1, <2>1, <3>2
      <4> QED BY <2>1, <2>4, <4>1 DEF Served
    <3> QED BY <3>1, <3>2
  <2> QED BY <1>1, <2>3, <2>4 DEF Served
<1> QED BY <1>1, <1>9, <1>10, <1>11, <1>14, <1>15, <1>16, Untouched DEF Inv, Types

\* What the block whose turn it is makes of the slot: the products from its
\* first k step on.
LEMMA ReducedIs ==
  ASSUME Inv, NEW b \in Blocks, block[b].pc = "reduce"
  PROVE  LET a == Pos(shape, block[b]) IN
         /\ Reduced(block[b]) = RestFrom(shape, a, b)
         /\ Reduced(block[b]) \in [KSteps -> Int]
         /\ ~ Done(shape, block[First(shape, a)], a)
<1> DEFINE r == block[b]
           a == Pos(shape, r)
           f == First(shape, a)
           l == Last(shape, a)
           n == locks[LockOf(shape, a)]
           k == shape.k
<1>1. /\ shape \in Shapes /\ block \in [Blocks -> Register]
      /\ r \in Register /\ Good(shape, b, r) /\ Sums(shape, r)
      /\ a \in Positions(shape) /\ Mine(shape, b, a) /\ f =< b /\ b =< l
      /\ r.idx = l - b /\ r.row = RowOf(shape, a, b)
      /\ r.row + r.iters = EndOf(shape, a, b)
      /\ b \in Nat /\ f \in Nat /\ l \in Nat
  BY Worker
<1>2. SharedAt(shape, a) /\ r.lock = LockOf(shape, a) /\ n = l - b
  BY HolderIs
<1>3. /\ CountsAt(shape, block, n, a)
      /\ PartialAt(shape, block, n, cTmp[LockOf(shape, a)], a)
  BY <1>1, <1>2 DEF Inv, LocksCount
<1>4. r.sum = Products(r.row, r.iters) /\ r.row \in Nat /\ r.iters \in Nat /\ k \in Nat
  BY <1>1, ShapeFields DEF Sums, Register
<1>5. ~ Done(shape, block[b], a)
  <2>1. a \in Nat
    BY <1>1, PosIs
  <2> QED BY <2>1 DEF Done
<1>6. ~ Done(shape, block[f], a)
  <2>1. b \in f .. l /\ f \in f .. l
    BY <1>1
  <2>2. n \in 0 .. l - f /\ \A c \in f .. l : Done(shape, block[c], a) <=> c > l - n
    BY <1>3, <1>5, <2>1 DEF CountsAt
  <2>3. ~ (f > l - n)
    BY <1>1, <2>2
  <2> QED BY <2>1, <2>2, <2>3
<1>7. RowOf(shape, a, b) \in 0 .. k - 1 /\ EndOf(shape, a, b) \in 0 .. k
      /\ (b = l => EndOf(shape, a, b) = k)
      /\ (b # l => EndOf(shape, a, b) = RowOf(shape, a, b + 1))
  BY <1>1, Rows
<1>8. Reduced(r) = RestFrom(shape, a, b)
  <2>1. CASE b = l
    <3>1. r.idx = 0 /\ r.iters = k - r.row
      BY <1>1, <1>4, <1>7, <2>1
    <3>2. Reduced(r) = Products(r.row, k - r.row)
      BY <1>4, <3>1 DEF Reduced
    <3> QED BY <1>1, <3>2 DEF RestFrom
  <2>2. CASE b # l
    <3> DEFINE e == r.row + r.iters
    <3>1. r.idx # 0 /\ n > 0 /\ l - n = b /\ (l - n) + 1 = b + 1
      BY <1>1, <1>2, <2>2
    <3>2. cTmp[LockOf(shape, a)] = RestFrom(shape, a, b + 1)
      <4>1. ~ (block[l - n].pc = "release")
        BY <3>1
      <4> QED BY <1>3, <1>6, <3>1, <4>1 DEF PartialAt
    <3>3. RowOf(shape, a, b + 1) = e /\ e \in 0 .. k
      BY <1>1, <1>7, <2>2
    <3>4. cTmp[r.lock] = Products(e, k - e)
      BY <1>2, <3>2, <3>3 DEF RestFrom
    <3>5. k - e \in Nat /\ r.iters + (k - e) = k - r.row
      BY <1>4, <3>3
    <3>6. Plus(Products(r.row, r.iters), Products(e, k - e)) = Products(r.row, k - r.row)
      <4> DEFINE j == k - e
      <4>1. j \in Nat
        BY <3>5
      <4> HIDE DEF j
      <4>2. Plus(Products(r.row, r.iters), Products(e, j)) = Products(r.row, r.iters + j)
        BY <1>4, <4>1, PlusProducts
      <4> QED BY <3>5, <4>2 DEF j
    <3>7. Reduced(r) = Plus(r.sum, cTmp[r.lock])
      BY <3>1 DEF Reduced
    <3> HIDE DEF e
    <3>8. Reduced(r) = Products(r.row, k - r.row)
      BY <1>4, <3>4, <3>6, <3>7
    <3> QED BY <1>1, <3>8 DEF RestFrom
  <2> QED BY <2>1, <2>2
<1>9. Reduced(r) \in [KSteps -> Int]
  BY <1>8, ProductsType DEF RestFrom
<1> QED BY <1>6, <1>8, <1>9

\* GlobalReduce keeps the invariant: the slot holds the products up to and
\* including those of the block whose turn it is.
LEMMA ReduceKeeps ==
  ASSUME Inv, NEW b \in Blocks, GlobalReduce(b)
  PROVE  Inv'
<1> DEFINE r == block[b]
           a == Pos(shape, r)
           h == LockOf(shape, a)
           sum == Reduced(r)
           s == Stay(r, sum, "release")
<1>1. /\ r.pc = "reduce" /\ UNCHANGED <<shape, launches, locks, out, tileOf>>
      /\ cTmp' = IF IsLast(r) THEN cTmp ELSE [cTmp EXCEPT ![r.lock] = sum]
  BY DEF GlobalReduce
<1>2. /\ shape \in Shapes /\ block \in [Blocks -> Register]
      /\ r \in Register /\ Good(shape, b, r) /\ Sums(shape, r)
      /\ a \in Positions(shape) /\ r.row = RowOf(shape, a, b)
      /\ IsLast(r) <=> b = First(shape, a)
      /\ b \in Nat /\ Last(shape, a) \in Nat
  BY <1>1, Worker
<1>3. /\ SharedAt(shape, a) /\ r.lock = h /\ r.lock \in Blocks
      /\ locks[h] = Last(shape, a) - b
      /\ \A c \in Blocks :
           block[c].pc \in {"reduce", "release"} /\ block[c].lock = r.lock => c = b
  BY <1>1, HolderIs
<1>4. /\ sum = RestFrom(shape, a, b) /\ sum \in [KSteps -> Int]
      /\ ~ Done(shape, block[First(shape, a)], a)
  BY <1>1, ReducedIs
<1>5. block' = [block EXCEPT ![b] = s]
  BY <1>2 DEF GlobalReduce, Stay
<1>6. /\ s \in Register /\ Good(shape, b, s) /\ Pos(shape, s) = a
      /\ Shared(s) <=> Shared(r)
      /\ IsLast(s) <=> IsLast(r)
      /\ s.pc = "release" /\ s.sum = sum /\ s.row = r.row /\ s.iters = r.iters
      /\ s.lock = r.lock /\ s.idx = r.idx
  <2>1. r.pc # "exited" /\ "release" \in Places \ {"exited"}
    BY <1>1 DEF Places
  <2> HIDE DEF sum
  <2> QED BY <1>2, <1>4, <2>1, StaysGood
<1> HIDE DEF s, sum
<1>7. Moves(shape, b, r, s)
  <2>1. Shared(r)
    BY <1>1, <1>2 DEF Sums
  <2>2. sum = Products(s.row, shape.k - s.row)
    BY <1>2, <1>4, <1>6 DEF RestFrom
  <2>3. Sums(shape, s)
    BY <1>6, <2>1, <2>2 DEF Sums
  <2> QED BY <1>6, <2>3 DEF Moves
<1>8. block' \in [Blocks -> Register] /\ Registers'
  BY <1>1, <1>5, <1>7, RegistersKept DEF Inv
<1>9. cTmp \in [Blocks -> [KSteps -> Int]] /\ locks \in [Blocks -> Int]
  BY DEF Inv, Types
<1>10. /\ cTmp' \in [Blocks -> [KSteps -> Int]]
       /\ \A x \in Blocks : x # h => cTmp'[x] = cTmp[x]
       /\ IsLast(r) => cTmp' = cTmp
       /\ ~ IsLast(r) => cTmp'[h] = sum
  BY <1>1, <1>3, <1>4, <1>9
<1>11. \A c \in Blocks : c # b => block'[c] = block[c]
  BY <1>2, <1>5
<1>12. block'[b] = s
  BY <1>2, <1>5
<1>13. LocksCount'
  <2>1. ASSUME NEW d \in Positions(shape), SharedAt(shape, d), d # a
        PROVE  /\ locks'[LockOf(shape, d)] = locks[LockOf(shape, d)]
               /\ cTmp'[LockOf(shape, d)] = cTmp[LockOf(shape, d)]
    <3>1. LockOf(shape, d) # h /\ LockOf(shape, d) \in Blocks
      BY <1>2, <1>3, <2>1, LockIs
    <3> QED BY <1>1, <1>10, <3>1
  <2>2. ~ Done(shape, r, a) /\ ~ Done(shape, s, a)
    <3>1. a \in Nat
      BY <1>2, PosIs
    <3> QED BY <1>1, <1>6, <3>1 DEF Done
  <2>3. /\ CountsAt(shape, block, locks[h], a)
        /\ PartialAt(shape, block, locks[h], cTmp[h], a)
        /\ locks[h] \in Int
    BY <1>2, <1>3, <1>9 DEF Inv, LocksCount
  <2>4. CountsAt(shape, block', locks'[h], a)
    BY <1>1, <1>2, <1>5, <2>2, <2>3, SameCounts
  <2>5. PartialAt(shape, block', locks'[h], cTmp'[h], a)
    <3>1. CASE IsLast(r)
      BY <1>1, <1>2, <1>5, <1>10, <2>2, <2>3, <3>1, SamePartial
    <3>2. CASE ~ IsLast(r)
      <4>1. Last(shape, a) - locks'[h] = b /\ b # First(shape, a)
        BY <1>1, <1>2, <1>3, <3>2
      <4>2. Pos(shape, block'[b]) = a /\ block'[b].pc = "release"
        BY <1>6, <1>12
      <4> QED BY <4>1, <4>2 DEF PartialAt
    <3> QED BY <3>1, <3>2
  <2> QED BY <1>1, <1>5, <1>7, <2>1, <2>4, <2>5, LocksKept DEF Inv
<1>14. Output'
  BY <1>1, <1>5, <1>6, <1>7, OutputKept DEF Inv
<1>15. Holders'
  <2>1. locks[r.lock] = r.idx
    BY <1>1 DEF Inv, Holders
  <2> QED BY <1>1, <1>6, <1>11, <1>12, <2>1 DEF Inv, Holders
<1>16. Stored'
  <2> SUFFICES ASSUME NEW c \in Blocks, block'[c].pc = "release", ~ IsLast(block'[c])
               PROVE  cTmp'[block'[c].lock] = RestFrom(shape, Pos(shape, block'[c]), c)
    BY <1>1 DEF Stored
  <2>1. CASE c = b
    BY <1>3, <1>4, <1>6, <1>10, <1>12, <2>1
  <2>2. CASE c # b
    <3>1. block'[c] = block[c]
      BY <1>11, <2>2
    <3>2. block[c].lock # h
      BY <1>3, <2>2, <3>1
    <3>3. block[c].lock \in Blocks
      BY <3>1, HolderIs
    <3>4. cTmp[block[c].lock] = RestFrom(shape, Pos(shape, block[c]), c)
      BY <3>1 DEF Inv, Stored
    <3> QED BY <1>10, <3>1, <3>2, <3>3, <3>4
  <2> QED BY <2>1, <2>2
<1> QED BY <1>1, <1>8, <1>10, <1>13, <1>14, <1>15, <1>16, Untouched DEF Inv, Types

\* The next slice is a step of the block.
LEMMA NextSliceMoves ==
  ASSUME NEW sh \in Shapes, NEW b \in Blocks, NEW r \in Register, Good(sh, b, r),
         r.pc # "exited"
  PROVE  LET s == NextSlice(sh, b, r) IN
         /\ Moves(sh, b, r, s) /\ s.pc \in {"compute", "exited"}
         /\ Mine(sh, b, Pos(sh, r)) => Pos(sh, s) > Pos(sh, r)
<1> DEFINE s == NextSlice(sh, b, r)
           a == Pos(sh, r)
<1>1. /\ s \in Register /\ Good(sh, b, s) /\ s.pc \in {"compute", "exited"}
      /\ \A d \in Positions(sh) : Mine(sh, b, d) => (Pos(sh, s) > d <=> a >= d)
  BY NextSliceIs
<1> HIDE DEF s
<1>2. Sums(sh, s)
  BY <1>1 DEF Sums
<1>3. a \in Positions(sh) /\ a >= a
  <2>1. a \in Positions(sh)
    BY WorkIs
  <2>2. a \in Nat
    BY PosIs
  <2> QED BY <2>1, <2>2
<1>4. Moves(sh, b, r, s)
  BY <1>1, <1>2 DEF Moves
<1>5. Mine(sh, b, a) => Pos(sh, s) > a
  BY <1>1, <1>3
<1> QED BY <1>1, <1>4, <1>5 DEF s

\* WriteResult keeps the invariant: the first block of a position writes its
\* tile, once, and goes on.
LEMMA WriteKeeps ==
  ASSUME Inv, NEW b \in Blocks, WriteResult(b)
  PROVE  Inv'
<1> DEFINE r == block[b]
           a == Pos(shape, r)
           s == NextSlice(shape, b, r)
<1>1. /\ r.pc = "write" /\ UNCHANGED <<shape, launches, locks, cTmp, tileOf>>
      /\ out' = [out EXCEPT ![r.tile] = Append(@, r.sum)]
      /\ block' = [block EXCEPT ![b] = s]
  BY DEF WriteResult
<1>2. /\ shape \in Shapes /\ block \in [Blocks -> Register]
      /\ r \in Register /\ Good(shape, b, r) /\ Sums(shape, r)
      /\ a \in Positions(shape) /\ Mine(shape, b, a) /\ r.tile = TileAt(shape, a)
      /\ IsLast(r) <=> b = First(shape, a)
  BY <1>1, Worker
<1>3. r.sum = Products(0, shape.k) /\ b = First(shape, a) /\ r.sum \in [KSteps -> Int]
  BY <1>1, <1>2 DEF Sums, Register
<1>4. Moves(shape, b, r, s) /\ s.pc \in {"compute", "exited"} /\ Pos(shape, s) > a
  <2>1. r.pc # "exited"
    BY <1>1
  <2> HIDE DEF r
  <2> QED BY <1>2, <2>1, NextSliceMoves
<1> HIDE DEF s
<1>5. block' \in [Blocks -> Register] /\ Registers'
  BY <1>1, <1>4, RegistersKept DEF Inv
<1>6. a \in Nat
  BY <1>2, PosIs
<1>7. LocksCount'
  <2> DEFINE h == LockOf(shape, a)
  <2>1. ASSUME SharedAt(shape, a)
        PROVE  /\ CountsAt(shape, block', locks'[h], a)
               /\ PartialAt(shape, block', locks'[h], cTmp'[h], a)
    <3>1. Done(shape, r, a) /\ Done(shape, s, a)
      BY <1>1, <1>4 DEF Done
    <3>2. /\ CountsAt(shape, block, locks[h], a)
          /\ PartialAt(shape, block, locks[h], cTmp[h], a)
          /\ locks[h] \in Int
      BY <1>2, <2>1, LockIs DEF Inv, LocksCount, Types
    <3>3. locks' = locks /\ cTmp' = cTmp /\ r.pc # "release"
      BY <1>1
    <3>4. CountsAt(shape, block', locks[h], a)
      BY <1>1, <1>2, <3>1, <3>2, SameCounts
    <3>5. PartialAt(shape, block', locks[h], cTmp[h], a)
      BY <1>1, <1>2, <3>1, <3>2, <3>3, SamePartial
    <3> QED BY <3>3, <3>4, <3>5
  <2> QED BY <1>1, <1>4, <2>1, LocksKept DEF Inv
<1>8. \A c \in Blocks : c # b => block'[c] = block[c]
  BY <1>1, <1>2
<1>9. block'[b] = s
  BY <1>1, <1>2
<1>10. out \in [Tiles(shape) -> Seq([KSteps -> Int])] /\ r.tile \in Tiles(shape)
  BY <1>2, TileIs DEF Inv, Types
<1>11. out' \in [Tiles(shape) -> Seq([KSteps -> Int])]
  <2>1. out[r.tile] \in Seq([KSteps -> Int])
    BY <1>10
  <2>2. Append(out[r.tile], r.sum) \in Seq([KSteps -> Int])
    BY <1>3, <2>1
  <2> QED BY <1>1, <1>10, <2>2
<1>12. Output'
  <2> SUFFICES ASSUME NEW d \in Positions(shape)
               PROVE  out'[TileAt(shape, d)] =
                        IF Pos(shape, block'[First(shape, d)]) > d
                        THEN <<Products(0, shape.k)>> ELSE <<>>
    BY <1>1 DEF Output
  <2>1. CASE d = a
    <3>1. out[r.tile] = <<>>
      <4>1. ~ (Pos(shape, block[First(shape, a)]) > a)
        BY <1>3, <1>6
      <4> QED BY <1>2, <4>1 DEF Inv, Output
    <3>2. out'[r.tile] = Append(<<>>, Products(0, shape.k))
      BY <1>1, <1>3, <1>10, <3>1
    <3>3. out'[r.tile] = <<Products(0, shape.k)>>
      BY <3>2
    <3> QED BY <1>2, <1>3, <1>4, <1>9, <2>1, <3>3
  <2>2. CASE d # a
    <3>1. TileAt(shape, d) # r.tile
      BY <1>2, <2>2, TileIs
    <3>2. out'[TileAt(shape, d)] = out[TileAt(shape, d)]
      <4>1. TileAt(shape, d) \in Tiles(shape)
        BY <1>2, TileIs
      <4> QED BY <1>1, <1>10, <3>1, <4>1
    <3>3. Pos(shape, block'[First(shape, d)]) > d <=> Pos(shape, block[First(shape, d)]) > d
      <4>1. /\ First(shape, d) \in Blocks /\ Last(shape, d) \in Blocks
            /\ First(shape, d) =< Last(shape, d)
        BY <1>2, PositionIs
      <4>2. CASE First(shape, d) = b
        <5>1. Mine(shape, b, d)
          BY <4>1, <4>2, GridAssumption DEF Mine, Blocks
        <5>2. Pos(shape, s) > d <=> Pos(shape, r) > d
          BY <1>2, <1>4, <2>2, <5>1, KeepsOthers
        <5> QED BY <1>9, <4>2, <5>2
      <4>3. CASE First(shape, d) # b
        BY <1>8, <4>1, <4>3
      <4> QED BY <4>2, <4>3
    <3>4. out[TileAt(shape, d)] =
            IF Pos(shape, block[First(shape, d)]) > d
            THEN <<Products(0, shape.k)>> ELSE <<>>
      BY DEF Inv, Output
    <3> QED BY <3>2, <3>3, <3>4
  <2> QED BY <2>1, <2>2
<1>13. Holders' /\ Stored'
  BY <1>1, <1>4, <1>8, <1>9 DEF Inv, Holders, Stored
<1>14. /\ OtherLocksZero' /\ Served' /\ tileOf' \in [Blocks -> Int \X Int]
       /\ shape' \in Shapes /\ launches' \in 1 .. MaxLaunches
       /\ locks' \in [Blocks -> Int] /\ cTmp' \in [Blocks -> [KSteps -> Int]]
  BY <1>1, Untouched
<1>15. Types'
  BY <1>1, <1>5, <1>11, <1>14 DEF Types
<1> QED BY <1>5, <1>7, <1>12, <1>13, <1>14, <1>15 DEF Inv

\* Release, by the first block of a shared position: the lock is reset for the
\* next use.
LEMMA LastReleaseKeeps ==
  ASSUME Inv, NEW b \in Blocks, Release(b), IsLast(block[b])
  PROVE  Inv'
<1> DEFINE r == block[b]
           a == Pos(shape, r)
           h == LockOf(shape, a)
           f == First(shape, a)
           l == Last(shape, a)
           s == Stay(r, r.sum, "write")
<1>1. /\ r.pc = "release" /\ UNCHANGED <<shape, launches, cTmp, out, tileOf>>
      /\ locks' = [locks EXCEPT ![r.lock] = 0]
      /\ block' = [block EXCEPT ![b] = [r EXCEPT !.pc = "write"]]
  BY DEF Release, Released
<1>2. /\ shape \in Shapes /\ block \in [Blocks -> Register]
      /\ r \in Register /\ Good(shape, b, r) /\ Sums(shape, r)
      /\ a \in Positions(shape) /\ r.row = RowOf(shape, a, b)
      /\ b = f /\ Mine(shape, b, a) /\ f =< l /\ f \in Nat /\ l \in Nat
  BY <1>1, Worker
<1>3. /\ SharedAt(shape, a) /\ r.lock = h /\ h \in Blocks
      /\ locks[h] = l - b
      /\ \A c \in Blocks :
           block[c].pc \in {"reduce", "release"} /\ block[c].lock = h => c = b
  BY <1>1, HolderIs
<1>4. block' = [block EXCEPT ![b] = s]
  <2>1. [r EXCEPT !.pc = "write"] = s
    BY <1>2 DEF Register, Stay
  <2> QED BY <1>1, <2>1
<1>5. r.sum = Products(0, shape.k)
  <2>1. RowOf(shape, a, b) = 0 /\ shape.k \in Nat
    BY <1>2, Rows, ShapeFields
  <2>2. r.sum = Products(r.row, shape.k - r.row)
    BY <1>1, <1>2 DEF Sums
  <2>3. shape.k - 0 = shape.k
    BY <2>1
  <2> QED BY <1>2, <2>1, <2>2, <2>3
<1>6. /\ s \in Register /\ Good(shape, b, s) /\ Pos(shape, s) = a
      /\ IsLast(s) <=> IsLast(r)
      /\ s.pc = "write" /\ s.sum = r.sum
  <2>1. r.pc # "exited" /\ "write" \in Places \ {"exited"} /\ r.sum \in [KSteps -> Int]
    BY <1>1, <1>2 DEF Places, Register
  <2> QED BY <1>2, <2>1, StaysGood
<1> HIDE DEF s
<1>7. Moves(shape, b, r, s)
  <2>1. Sums(shape, s)
    BY <1>5, <1>6 DEF Sums
  <2> QED BY <1>6, <2>1 DEF Moves
<1>8. block' \in [Blocks -> Register] /\ Registers'
  <2>1. shape' = shape
    BY <1>1
  <2> QED BY <1>4, <1>7, <2>1, RegistersKept DEF Inv
<1>9. locks \in [Blocks -> Int]
  BY DEF Inv, Types
<1>10. locks' \in [Blocks -> Int] /\ locks'[h] = 0 /\ \A x \in Blocks : x # h => locks'[x] = locks[x]
  BY <1>1, <1>3, <1>9
<1>11. \A c \in Blocks : c # b => block'[c] = block[c]
  BY <1>2, <1>4
<1>12. block'[b] = s
  BY <1>2, <1>4
<1>13. Done(shape, s, a) /\ ~ Done(shape, r, a) /\ a \in Nat
  <2>1. a \in Nat
    BY <1>2, PosIs
  <2> QED BY <1>1, <1>6, <2>1 DEF Done
<1>14. LocksCount'
  <2>1. ASSUME NEW d \in Positions(shape), SharedAt(shape, d), d # a
        PROVE  /\ locks'[LockOf(shape, d)] = locks[LockOf(shape, d)]
               /\ cTmp'[LockOf(shape, d)] = cTmp[LockOf(shape, d)]
    <3>1. LockOf(shape, d) # h /\ LockOf(shape, d) \in Blocks
      BY <1>2, <1>3, <2>1, LockIs
    <3> QED BY <1>1, <1>10, <3>1
  <2>2. CountsAt(shape, block, locks[h], a)
    BY <1>2, <1>3 DEF Inv, LocksCount
  <2>3. f \in f .. l
    BY <1>2
  <2>4. \A c \in f .. l : Done(shape, block[c], a) <=> c > l - locks[h]
    BY <1>2, <1>13, <2>2, <2>3 DEF CountsAt
  <2>5. ASSUME NEW c \in f .. l PROVE Done(shape, block'[c], a)
    <3>1. c \in Blocks
      <4>1. l \in Blocks
        BY <1>2, PositionIs
      <4> QED BY <1>2, <4>1, GridAssumption DEF Blocks
    <3>2. CASE c = b
      BY <1>12, <1>13, <3>2
    <3>3. CASE c # b
      <4>1. c > l - locks[h]
        BY <1>2, <1>3, <3>3
      <4> QED BY <1>11, <2>4, <3>1, <3>3, <4>1
    <3> QED BY <3>2, <3>3
  <2>6. CountsAt(shape, block', locks'[h], a)
    BY <1>10, <2>5 DEF CountsAt
  <2>7. PartialAt(shape, block', locks'[h], cTmp'[h], a)
    BY <2>3, <2>5 DEF PartialAt
  <2>8. shape' = shape
    BY <1>1
  <2> QED BY <1>4, <1>7, <2>1, <2>6, <2>7, <2>8, LocksKept DEF Inv
<1>15. Output'
  <2>1. shape' = shape /\ out' = out
    BY <1>1
  <2> QED BY <1>4, <1>6, <1>7, <2>1, OutputKept DEF Inv
<1>16. Holders'
  <2> SUFFICES ASSUME NEW c \in Blocks, block'[c].pc \in {"reduce", "release"}
               PROVE  locks'[block'[c].lock] = block'[c].idx
    BY DEF Holders
  <2>1. c # b
    BY <1>6, <1>12
  <2>2. block'[c] = block[c]
    BY <1>11, <2>1
  <2>3. block[c].lock # h /\ block[c].lock \in Blocks
    BY <1>3, <2>1, <2>2, HolderIs
  <2>4. locks[block[c].lock] = block[c].idx
    BY <2>2 DEF Inv, Holders
  <2> QED BY <1>10, <2>2, <2>3, <2>4
<1>17. Stored'
  <2>1. UNCHANGED <<shape, cTmp>>
    BY <1>1
  <2> QED BY <1>6, <1>11, <1>12, <2>1 DEF Inv, Stored
<1>18. OtherLocksZero'
  <2>1. shape' = shape /\ OtherLocksZero
    BY <1>1 DEF Inv
  <2> QED BY <1>10, <2>1 DEF OtherLocksZero
<1>19. /\ Served' /\ tileOf' \in [Blocks -> Int \X Int]
       /\ shape' \in Shapes /\ launches' \in 1 .. MaxLaunches
       /\ cTmp' \in [Blocks -> [KSteps -> Int]]
       /\ out' \in [Tiles(shape') -> Seq([KSteps -> Int])]
  BY <1>1, Untouched
<1>20. Types'
  BY <1>8, <1>10, <1>19 DEF Types
<1> QED BY <1>8, <1>14, <1>15, <1>16, <1>17, <1>18, <1>19, <1>20 DEF Inv

\* Release, by another block: the lock counts it, its products are in the slot,
\* and it goes on.
LEMMA TurnReleaseKeeps ==
  ASSUME Inv, NEW b \in Blocks, Release(b), ~ IsLast(block[b])
  PROVE  Inv'
<1> DEFINE r == block[b]
           a == Pos(shape, r)
           h == LockOf(shape, a)
           f == First(shape, a)
           l == Last(shape, a)
           s == NextSlice(shape, b, r)
<1>1. /\ r.pc = "release" /\ UNCHANGED <<shape, launches, cTmp, out, tileOf>>
      /\ locks' = [locks EXCEPT ![r.lock] = locks[r.lock] + 1]
      /\ block' = [block EXCEPT ![b] = s]
  BY DEF Release, Released
<1>2. /\ shape \in Shapes /\ block \in [Blocks -> Register]
      /\ r \in Register /\ Good(shape, b, r)
      /\ a \in Positions(shape) /\ Mine(shape, b, a)
      /\ b # f /\ f =< b /\ b =< l /\ f \in Nat /\ l \in Nat /\ b \in Nat
  BY <1>1, Worker
<1>3. /\ SharedAt(shape, a) /\ r.lock = h /\ h \in Blocks
      /\ locks[h] = l - b
      /\ \A c \in Blocks :
           block[c].pc \in {"reduce", "release"} /\ block[c].lock = h => c = b
  BY <1>1, HolderIs
<1>4. Moves(shape, b, r, s) /\ s.pc \in {"compute", "exited"} /\ Pos(shape, s) > a
  <2>1. r.pc # "exited"
    BY <1>1
  <2> HIDE DEF r
  <2> QED BY <1>2, <2>1, NextSliceMoves
<1> HIDE DEF s
<1>5. block' \in [Blocks -> Register] /\ Registers'
  BY <1>1, <1>4, RegistersKept DEF Inv
<1>6. locks \in [Blocks -> Int]
  BY DEF Inv, Types
<1>7. /\ locks' \in [Blocks -> Int] /\ locks'[h] = l - b + 1
      /\ \A x \in Blocks : x # h => locks'[x] = locks[x]
  <2>1. locks[h] + 1 = l - b + 1 /\ l - b + 1 \in Int
    BY <1>2, <1>3
  <2> QED BY <1>1, <1>3, <1>6, <2>1
<1>8. \A c \in Blocks : c # b => block'[c] = block[c]
  BY <1>1, <1>2
<1>9. block'[b] = s
  BY <1>1, <1>2
<1>10. Done(shape, s, a) /\ ~ Done(shape, r, a) /\ a \in Nat
  <2>1. a \in Nat
    BY <1>2, PosIs
  <2> QED BY <1>1, <1>4, <2>1 DEF Done
<1>11. LocksCount'
  <2>1. ASSUME NEW d \in Positions(shape), SharedAt(shape, d), d # a
        PROVE  /\ locks'[LockOf(shape, d)] = locks[LockOf(shape, d)]
               /\ cTmp'[LockOf(shape, d)] = cTmp[LockOf(shape, d)]
    <3>1. LockOf(shape, d) # h /\ LockOf(shape, d) \in Blocks
      BY <1>2, <1>3, <2>1, LockIs
    <3> QED BY <1>1, <1>7, <3>1
  <2>2. CountsAt(shape, block, locks[h], a)
    BY <1>2, <1>3 DEF Inv, LocksCount
  <2>3. b \in f .. l
    BY <1>2
  <2>4. \A c \in f .. l : Done(shape, block[c], a) <=> c > l - locks[h]
    BY <1>2, <1>10, <2>2, <2>3 DEF CountsAt
  <2>5. ASSUME NEW c \in f .. l PROVE Done(shape, block'[c], a) <=> c > l - locks'[h]
    <3>1. c \in Blocks /\ c \in Nat
      <4>1. l \in Blocks
        BY <1>2, PositionIs
      <4> QED BY <1>2, <4>1, GridAssumption DEF Blocks
    <3>2. CASE c = b
      <4>1. c > l - locks'[h]
        BY <1>2, <1>7, <3>2
      <4> QED BY <1>9, <1>10, <3>2, <4>1
    <3>3. CASE c # b
      <4>1. c > l - locks'[h] <=> c > l - locks[h]
        BY <1>2, <1>3, <1>7, <3>1, <3>3
      <4> QED BY <1>8, <2>4, <3>1, <3>3, <4>1
    <3> QED BY <3>2, <3>3
  <2>6. CountsAt(shape, block', locks'[h], a)
    <3>1. locks'[h] \in 0 .. l - f
      BY <1>2, <1>7
    <3> QED BY <2>5, <3>1 DEF CountsAt
  <2>7. PartialAt(shape, block', locks'[h], cTmp'[h], a)
    <3>1. cTmp[h] = RestFrom(shape, a, b)
      BY <1>1, <1>3 DEF Inv, Stored
    <3>2. (l - locks'[h]) + 1 = b
      BY <1>2, <1>7
    <3>3. cTmp'[h] = RestFrom(shape, a, (l - locks'[h]) + 1)
      BY <1>1, <3>1, <3>2
    <3> QED BY <3>3 DEF PartialAt
  <2> QED BY <1>1, <1>4, <2>1, <2>6, <2>7, LocksKept DEF Inv
<1>12. Output'
  BY <1>1, <1>2, <1>4, OutputKept DEF Inv
<1>13. Holders'
  <2> SUFFICES ASSUME NEW c \in Blocks, block'[c].pc \in {"reduce", "release"}
               PROVE  locks'[block'[c].lock] = block'[c].idx
    BY DEF Holders
  <2>1. c # b
    BY <1>4, <1>9
  <2>2. block'[c] = block[c]
    BY <1>8, <2>1
  <2>3. block[c].lock # h /\ block[c].lock \in Blocks
    BY <1>3, <2>1, <2>2, HolderIs
  <2>4. locks[block[c].lock] = block[c].idx
    BY <2>2 DEF Inv, Holders
  <2> QED BY <1>7, <2>2, <2>3, <2>4
<1>14. Stored'
  <2>1. UNCHANGED <<shape, cTmp>>
    BY <1>1
  <2> QED BY <1>4, <1>8, <1>9, <2>1 DEF Inv, Stored
<1>15. OtherLocksZero'
  <2>1. shape' = shape /\ OtherLocksZero
    BY <1>1 DEF Inv
  <2> QED BY <1>2, <1>3, <1>7, <2>1 DEF OtherLocksZero
<1>16. /\ Served' /\ tileOf' \in [Blocks -> Int \X Int]
       /\ shape' \in Shapes /\ launches' \in 1 .. MaxLaunches
       /\ cTmp' \in [Blocks -> [KSteps -> Int]]
       /\ out' \in [Tiles(shape') -> Seq([KSteps -> Int])]
  BY <1>1, Untouched
<1>17. Types'
  BY <1>5, <1>7, <1>16 DEF Types
<1> QED BY <1>5, <1>11, <1>12, <1>13, <1>14, <1>15, <1>16, <1>17 DEF Inv

\* The registers, locks and slots a launch starts with.
LEMMA FreshIs ==
  ASSUME NEW sh \in Shapes
  PROVE  LET blk == [b \in Blocks |-> Entered(sh, b)] IN
         /\ blk \in [Blocks -> Register]
         /\ \A b \in Blocks : /\ Good(sh, b, blk[b]) /\ Sums(sh, blk[b])
                              /\ blk[b].pc \in {"compute", "exited"}
         /\ \A a \in Positions(sh) :
              /\ CountsAt(sh, blk, 0, a)
              /\ \A sum : PartialAt(sh, blk, 0, sum, a)
              /\ ~ (Pos(sh, blk[First(sh, a)]) > a)
<1> DEFINE blk == [b \in Blocks |-> Entered(sh, b)]
<1>1. ASSUME NEW b \in Blocks
      PROVE  /\ blk[b] = Entered(sh, b)
             /\ blk[b] \in Register /\ Good(sh, b, blk[b])
             /\ blk[b].pc \in {"compute", "exited"}
             /\ \A a \in Positions(sh) : Mine(sh, b, a) => ~ (Pos(sh, blk[b]) > a)
  <2>1. blk[b] = Entered(sh, b)
    OBVIOUS
  <2> HIDE DEF blk
  <2> QED BY <2>1, EnteredIs
<1>2. blk \in [Blocks -> Register]
  BY <1>1
<1>3. ASSUME NEW b \in Blocks PROVE Sums(sh, blk[b])
  <2>1. blk[b].pc \in {"compute", "exited"}
    BY <1>1
  <2> HIDE DEF blk
  <2> QED BY <2>1 DEF Sums
<1> HIDE DEF blk
<1>4. ASSUME NEW a \in Positions(sh)
      PROVE  /\ CountsAt(sh, blk, 0, a)
             /\ \A sum : PartialAt(sh, blk, 0, sum, a)
             /\ ~ (Pos(sh, blk[First(sh, a)]) > a)
  <2> DEFINE f == First(sh, a)
             l == Last(sh, a)
  <2>1. f \in Blocks /\ l \in Blocks /\ f =< l
    BY PositionIs
  <2>2. f \in Nat /\ l \in Nat /\ \A c \in f .. l : c \in Blocks /\ c \in Nat /\ c =< l
    BY <2>1, GridAssumption DEF Blocks
  <2>3. ASSUME NEW c \in f .. l
        PROVE  ~ Done(sh, blk[c], a) /\ ~ (Pos(sh, blk[c]) > a)
    <3>1. c \in Blocks /\ Mine(sh, c, a)
      BY <2>2 DEF Mine
    <3>2. ~ (Pos(sh, blk[c]) > a) /\ blk[c].pc \in {"compute", "exited"}
      BY <1>1, <3>1
    <3> QED BY <3>2 DEF Done
  <2>4. \A c \in f .. l : Done(sh, blk[c], a) <=> c > l - 0
    BY <2>2, <2>3
  <2>5. CountsAt(sh, blk, 0, a)
    <3>1. 0 \in 0 .. l - f
      BY <2>1, <2>2
    <3> QED BY <2>4, <3>1 DEF CountsAt
  <2>6. f \in f .. l
    BY <2>1, <2>2
  <2> QED BY <2>3, <2>5, <2>6 DEF PartialAt
<1> QED BY <1>1, <1>2, <1>3, <1>4 DEF blk

\* The first launch establishes the invariant.
LEMMA InitInv ==
  Init => Inv
<1> SUFFICES ASSUME Init PROVE Inv
  OBVIOUS
<1>1. /\ shape \in Shapes /\ launches = 1 /\ block = [b \in Blocks |-> Entered(shape, b)]
      /\ locks = [l \in Blocks |-> 0] /\ cTmp = [l \in Blocks |-> Zero]
      /\ out = [t \in Tiles(shape) |-> <<>>] /\ tileOf = [l \in Blocks |-> NoTile]
  BY DEF Init
<1>2. /\ block \in [Blocks -> Register]
      /\ \A b \in Blocks : /\ Good(shape, b, block[b]) /\ Sums(shape, block[b])
                           /\ block[b].pc \in {"compute", "exited"}
      /\ \A a \in Positions(shape) :
           /\ CountsAt(shape, block, 0, a)
           /\ \A sum : PartialAt(shape, block, 0, sum, a)
           /\ ~ (Pos(shape, block[First(shape, a)]) > a)
  BY <1>1, FreshIs
<1>3. Types
  <2>1. launches \in 1 .. MaxLaunches
    BY <1>1, LaunchesAssumption
  <2>2. Zero \in [KSteps -> Int] /\ NoTile \in Int \X Int /\ 0 \in Int
    BY DEF Zero, NoTile
  <2>3. <<>> \in Seq([KSteps -> Int])
    OBVIOUS
  <2>4. cTmp \in [Blocks -> [KSteps -> Int]] /\ tileOf \in [Blocks -> Int \X Int]
        /\ locks \in [Blocks -> Int]
    BY <1>1, <2>2
  <2>5. out \in [Tiles(shape) -> Seq([KSteps -> Int])]
    BY <1>1, <2>3
  <2> QED BY <1>1, <1>2, <2>1, <2>4, <2>5 DEF Types
<1>4. LocksCount
  <2> SUFFICES ASSUME NEW a \in Positions(shape), SharedAt(shape, a)
               PROVE  LET h == LockOf(shape, a) IN
                      /\ CountsAt(shape, block, locks[h], a)
                      /\ PartialAt(shape, block, locks[h], cTmp[h], a)
    BY DEF LocksCount
  <2>1. locks[LockOf(shape, a)] = 0
    BY <1>1, LockIs
  <2> QED BY <1>2, <2>1
<1>5. Output
  <2>1. \A a \in Positions(shape) : TileAt(shape, a) \in Tiles(shape)
    BY <1>1, TileIs
  <2> QED BY <1>1, <1>2, <2>1 DEF Output
<1>6. OtherLocksZero /\ Served
  BY <1>1 DEF OtherLocksZero, Served
<1>7. Registers /\ Holders /\ Stored
  BY <1>2 DEF Registers, Holders, Stored
<1> QED BY <1>3, <1>4, <1>5, <1>6, <1>7 DEF Inv

\* When every block has left, every lock is zero again.
LEMMA LocksAreZero ==
  ASSUME Inv, \A b \in Blocks : block[b].pc = "exited"
  PROVE  /\ locks = [l \in Blocks |-> 0]
         /\ \A a \in Positions(shape) : Pos(shape, block[First(shape, a)]) > a
<1>1. /\ shape \in Shapes /\ block \in [Blocks -> Register] /\ locks \in [Blocks -> Int]
      /\ \A b \in Blocks : Good(shape, b, block[b])
  BY DEF Inv, Types, Registers
<1>2. ASSUME NEW a \in Positions(shape)
      PROVE  /\ Pos(shape, block[First(shape, a)]) > a
             /\ First(shape, a) \in First(shape, a) .. Last(shape, a)
             /\ First(shape, a) \in Nat /\ Last(shape, a) \in Nat
  <2>1. /\ First(shape, a) \in Blocks /\ Last(shape, a) \in Blocks
        /\ First(shape, a) =< Last(shape, a)
    BY <1>1, PositionIs
  <2>2. /\ First(shape, a) \in First(shape, a) .. Last(shape, a)
        /\ First(shape, a) \in Nat /\ Last(shape, a) \in Nat
    BY <2>1, GridAssumption DEF Blocks
  <2>3. Mine(shape, First(shape, a), a)
    BY <2>2 DEF Mine
  <2> DEFINE c == First(shape, a)
  <2>4. c \in Blocks /\ block[c] \in Register /\ Good(shape, c, block[c])
        /\ block[c].pc = "exited" /\ Mine(shape, c, a)
    BY <1>1, <2>1, <2>3
  <2> HIDE DEF c
  <2>5. Pos(shape, block[c]) > a
    BY <1>1, <2>4, LeftIs
  <2> QED BY <2>2, <2>5 DEF c
<1>3. ASSUME NEW l \in Blocks PROVE locks[l] = 0
  <2> SUFFICES ASSUME locks[l] # 0 PROVE FALSE
    OBVIOUS
  <2>1. PICK a \in Positions(shape) : SharedAt(shape, a) /\ LockOf(shape, a) = l
    BY DEF Inv, OtherLocksZero
  <2>2. CountsAt(shape, block, locks[l], a)
    BY <2>1 DEF Inv, LocksCount
  <2>3. Done(shape, block[First(shape, a)], a)
    BY <1>2 DEF Done
  <2>4. /\ locks[l] \in 0 .. Last(shape, a) - First(shape, a)
        /\ First(shape, a) > Last(shape, a) - locks[l]
    BY <1>2, <2>2, <2>3 DEF CountsAt
  <2> QED BY <1>2, <2>4
<1> QED BY <1>1, <1>2, <1>3

\* A later launch establishes it again, on the locks and slots it finds.
LEMMA LaunchKeeps ==
  ASSUME Inv, Launch
  PROVE  Inv'
<1>1. PICK sh \in Shapes : Launched(sh)
  BY DEF Launch
<1>2. /\ shape' = sh /\ block' = [b \in Blocks |-> Entered(sh, b)]
      /\ out' = [t \in Tiles(sh) |-> <<>>] /\ tileOf' = [l \in Blocks |-> NoTile]
  BY <1>1 DEF Launched
<1>3. /\ launches < MaxLaunches /\ launches' = launches + 1
      /\ locks' = locks /\ cTmp' = cTmp /\ \A b \in Blocks : block[b].pc = "exited"
  BY DEF Launch
<1>4. locks' = [l \in Blocks |-> 0]
  BY <1>3, LocksAreZero
<1>5. /\ block' \in [Blocks -> Register]
      /\ \A b \in Blocks : /\ Good(sh, b, block'[b]) /\ Sums(sh, block'[b])
                           /\ block'[b].pc \in {"compute", "exited"}
      /\ \A a \in Positions(sh) :
           /\ CountsAt(sh, block', 0, a)
           /\ \A sum : PartialAt(sh, block', 0, sum, a)
           /\ ~ (Pos(sh, block'[First(sh, a)]) > a)
  BY <1>2, FreshIs
<1>6. Types'
  <2>1. launches' \in 1 .. MaxLaunches
    BY <1>3, LaunchesAssumption DEF Inv, Types
  <2>2. NoTile \in Int \X Int /\ 0 \in Int
    BY DEF NoTile
  <2>3. <<>> \in Seq([KSteps -> Int])
    OBVIOUS
  <2>4. tileOf' \in [Blocks -> Int \X Int] /\ locks' \in [Blocks -> Int]
    BY <1>2, <1>4, <2>2
  <2>5. out' \in [Tiles(shape') -> Seq([KSteps -> Int])]
    BY <1>2, <2>3
  <2>6. cTmp' \in [Blocks -> [KSteps -> Int]]
    BY <1>3 DEF Inv, Types
  <2>7. shape' \in Shapes
    BY <1>2
  <2> QED BY <1>5, <2>1, <2>4, <2>5, <2>6, <2>7 DEF Types
<1>7. LocksCount'
  <2> SUFFICES ASSUME NEW a \in Positions(sh), SharedAt(sh, a)
               PROVE  LET h == LockOf(sh, a) IN
                      /\ CountsAt(sh, block', locks'[h], a)
                      /\ PartialAt(sh, block', locks'[h], cTmp'[h], a)
    BY <1>2 DEF LocksCount
  <2>1. locks'[LockOf(sh, a)] = 0
    BY <1>4, LockIs
  <2> QED BY <1>5, <2>1
<1>8. Output'
  <2>1. \A a \in Positions(sh) : TileAt(sh, a) \in Tiles(sh)
    BY TileIs
  <2> QED BY <1>2, <1>5, <2>1 DEF Output
<1>9. OtherLocksZero' /\ Served'
  BY <1>2, <1>4 DEF OtherLocksZero, Served
<1>10. Registers' /\ Holders' /\ Stored'
  BY <1>2, <1>5 DEF Registers, Holders, Stored
<1> QED BY <1>6, <1>7, <1>8, <1>9, <1>10 DEF Inv

\* Every step keeps the invariant.
LEMMA NextInv ==
  Inv /\ [Next]_vars => Inv'
<1> SUFFICES ASSUME Inv, [Next]_vars PROVE Inv'
  OBVIOUS
<1>1. CASE Launch
  BY <1>1, LaunchKeeps
<1>2. ASSUME NEW b \in Blocks, Step(b) PROVE Inv'
  <2>1. CASE Compute(b)
    BY <2>1, ComputeKeeps
  <2>2. CASE Acquire(b)
    BY <2>2, AcquireKeeps
  <2>3. CASE GlobalReduce(b)
    BY <2>3, ReduceKeeps
  <2>4. CASE Release(b)
    BY <2>4, LastReleaseKeeps, TurnReleaseKeeps
  <2>5. CASE WriteResult(b)
    BY <2>5, WriteKeeps
  <2> QED BY <1>2, <2>1, <2>2, <2>3, <2>4, <2>5 DEF Step
<1>3. CASE UNCHANGED vars
  BY <1>3 DEF vars, Inv, Types, Registers, LocksCount, OtherLocksZero, Holders,
              Stored, Output, Served
<1> QED BY <1>1, <1>2, <1>3 DEF Next

\* The invariant holds throughout.
LEMMA InvHolds ==
  Spec => []Inv
BY InitInv, NextInv, PTL DEF Spec

\* What the invariant says of a lock's value.
LEMMA LockRange ==
  ASSUME Inv
  PROVE  locks \in [Blocks -> 0 .. Grid]
<1>1. shape \in Shapes /\ locks \in [Blocks -> Int] /\ Grid \in Nat \ {0}
  BY GridAssumption DEF Inv, Types
<1>2. ASSUME NEW l \in Blocks PROVE locks[l] \in 0 .. Grid
  <2>1. CASE locks[l] = 0
    BY <1>1, <2>1
  <2>2. CASE locks[l] # 0
    <3>1. PICK a \in Positions(shape) : SharedAt(shape, a) /\ LockOf(shape, a) = l
      BY <2>2 DEF Inv, OtherLocksZero
    <3>2. CountsAt(shape, block, locks[l], a)
      BY <3>1 DEF Inv, LocksCount
    <3>3. locks[l] \in 0 .. Last(shape, a) - First(shape, a)
      BY <2>2, <3>2 DEF CountsAt
    <3>4. First(shape, a) \in Blocks /\ Last(shape, a) \in Blocks
      BY <1>1, PositionIs
    <3> QED BY <1>1, <3>3, <3>4 DEF Blocks
  <2> QED BY <2>1, <2>2
<1> QED BY <1>1, <1>2

\* The invariant gives the lock protocol.
LEMMA InvProtocol ==
  Inv => LockProtocol
<1> SUFFICES ASSUME Inv PROVE LockProtocol
  OBVIOUS
<1>1. /\ shape \in Shapes /\ launches \in 1 .. MaxLaunches
      /\ block \in [Blocks -> Register]
  BY DEF Inv, Types
<1>2. ASSUME NEW b \in Blocks
      PROVE  /\ block[b].pc \in Places
             /\ block[b].pc # "exited" =>
                  /\ block[b].tile \in Tiles(shape)
                  /\ block[b].iters > 0 /\ block[b].row + block[b].iters <= shape.k
                  /\ Shared(block[b]) => block[b].lock \in Blocks
  <2>1. block[b].pc \in Places /\ block[b].row \in Nat /\ block[b].iters \in Nat
    BY <1>1 DEF Register
  <2>2. ASSUME block[b].pc # "exited"
        PROVE  /\ block[b].tile \in Tiles(shape)
               /\ block[b].iters > 0 /\ block[b].row + block[b].iters <= shape.k
               /\ Shared(block[b]) => block[b].lock \in Blocks
    <3> DEFINE r == block[b]
               a == Pos(shape, r)
    <3>1. /\ a \in Positions(shape) /\ Mine(shape, b, a) /\ r.tile = TileAt(shape, a)
          /\ r.row = RowOf(shape, a, b) /\ r.row + r.iters = EndOf(shape, a, b)
          /\ Shared(r) <=> SharedAt(shape, a)
          /\ Shared(r) => r.lock = LockOf(shape, a)
      BY <2>2, Worker
    <3>2. r.tile \in Tiles(shape)
      BY <1>1, <3>1, TileIs
    <3>3. Shared(r) => r.lock \in Blocks
      BY <1>1, <3>1, LockIs
    <3>4. /\ RowOf(shape, a, b) < EndOf(shape, a, b) /\ EndOf(shape, a, b) \in 0 .. shape.k
          /\ shape.k \in Nat
      BY <1>1, <3>1, Rows, ShapeFields
    <3> QED BY <2>1, <3>1, <3>2, <3>3, <3>4
  <2> QED BY <2>1, <2>2
<1>3. TypeOK
  BY <1>1, <1>2, LockRange DEF TypeOK, Places
<1>4. LockServesOneTile
  <2> SUFFICES ASSUME NEW b \in Blocks, block[b].pc \in {"acquire", "reduce", "release"},
                      tileOf[block[b].lock] # NoTile
               PROVE  tileOf[block[b].lock] = block[b].tile
    BY DEF LockServesOneTile
  <2> DEFINE r == block[b]
             a == Pos(shape, r)
  <2>1. /\ a \in Positions(shape) /\ r.tile = TileAt(shape, a) /\ Sums(shape, r)
        /\ Shared(r) <=> SharedAt(shape, a)
        /\ Shared(r) => r.lock = LockOf(shape, a)
    BY Worker
  <2>2. SharedAt(shape, a) /\ r.lock = LockOf(shape, a)
    BY <2>1 DEF Sums
  <2>3. r.lock \in Blocks
    BY <1>1, <2>1, <2>2, LockIs
  <2>4. PICK d \in Positions(shape) :
          SharedAt(shape, d) /\ LockOf(shape, d) = r.lock /\ tileOf[r.lock] = TileAt(shape, d)
    BY <2>3 DEF Inv, Served
  <2>5. d = a
    BY <1>1, <2>1, <2>2, <2>4, LockIs
  <2> QED BY <2>1, <2>4, <2>5
<1>5. SlotIsExclusive
  BY HolderIs DEF SlotIsExclusive
<1> QED BY <1>3, <1>4, <1>5 DEF LockProtocol

\* init_part2_slice, barrier_acquire and barrier_release, for every grid, every
\* shape and any number of launches: each block works on tiles and k steps that
\* exist, the locks and slots it uses were allocated and serve one tile per
\* launch, and no two blocks are in the same slot at once.
THEOREM LocksAreOrdered == Spec => []LockProtocol
BY InvHolds, InvProtocol, PTL

\* The invariant gives the result of a launch.
LEMMA InvSound ==
  Inv => LaunchIsSound
<1> SUFFICES ASSUME Inv, \A b \in Blocks : block[b].pc = "exited"
             PROVE  /\ \A t \in Tiles(shape) : out[t] = <<Products(0, shape.k)>>
                    /\ locks = [l \in Blocks |-> 0]
  BY DEF LaunchIsSound, EveryTileReducedOnce, LocksReturnToZero
<1>1. locks = [l \in Blocks |-> 0]
  BY LocksAreZero
<1>2. ASSUME NEW t \in Tiles(shape) PROVE out[t] = <<Products(0, shape.k)>>
  <2>1. PICK a \in Positions(shape) : TileAt(shape, a) = t
    BY TileIs DEF Inv, Types
  <2>2. Pos(shape, block[First(shape, a)]) > a
    BY LocksAreZero
  <2> QED BY <2>1, <2>2 DEF Inv, Output
<1> QED BY <1>1, <1>2

\* The kernel from launch to exit, for every grid, shape and tile raster: when
\* all blocks have left, each output tile has been written once, with every
\* product in it once, and the lock array is zero for the next launch.
THEOREM LaunchComputesTheProduct == Spec => []LaunchIsSound
BY InvHolds, InvSound, PTL

=============================================================================
