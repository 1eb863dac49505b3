--------------------------- MODULE MarlinStripes ---------------------------
(***************************************************************************)
(* The persistent stripe scheduler of the quantized prefill GEMM            *)
(* (kernels/sm87/third_party/vllm_marlin/marlin_template.h, the repository's *)
(* modified copy) as the launchers of kernels/sm87 start it: one grid of as  *)
(* many thread blocks as the device has multiprocessors, fp32 reduction, no  *)
(* atomic add, one lock and one C_tmp slot per multiprocessor.              *)
(*                                                                          *)
(* The output is parallel x n_tiles tiles, each the sum of k_tiles products. *)
(* Whole tiles are dealt to the blocks first (part 1); what is left is cut   *)
(* into stripes of equal length along k that ignore tile borders (part 2),   *)
(* so a tile may be shared by several blocks.  They reduce it in turn,       *)
(* bottom to top, through one C_tmp slot guarded by one counting lock that   *)
(* the last of them resets: later launches use the same lock memory, often   *)
(* without clearing it.  The arithmetic of the products is left out: a       *)
(* partial sum says how often it has added the product of each k step.       *)
(***************************************************************************)
EXTENDS Integers, Sequences, FiniteSetsExt

CONSTANTS
  Grid,          \* gridDim.x, thread blocks of a launch (kSm87...MarlinSmCount)
  KTiles,        \* the values of k_tiles
  Parallels,     \* the values of parallel, tile rows
  NTiles,        \* the values of n_tiles, tile columns
  Rasters,       \* the instantiated tile raster policies
  MaxLaunches    \* bound on the launches that share one lock array

ASSUME GridAssumption == Grid \in Nat \ {0}
ASSUME ShapeAssumption ==
  /\ KTiles \subseteq Nat \ {0} /\ Parallels \subseteq Nat \ {0}
  /\ NTiles \subseteq Nat \ {0}
  /\ Rasters \subseteq {"stripes", "groupedM4", "bStationary"}
ASSUME LaunchesAssumption == MaxLaunches \in Nat \ {0}

Blocks == 0 .. Grid - 1
Shapes == [k : KTiles, par : Parallels, n : NTiles, raster : Rasters]
NoTile == <<-1, -1>>

VARIABLES
  shape,         \* the problem of the current launch
  launches,      \* launches started so far
  block,         \* the registers of every thread block
  locks,         \* the lock array in device memory
  cTmp,          \* the reduction buffer, one partial sum per lock
  out,           \* per output tile, the sums written to it in this launch
  tileOf         \* per lock, the tile it has served in this launch

vars == <<shape, launches, block, locks, cTmp, out, tileOf>>

DivCeil(a, b) == (a + b - 1) \div b

\* Partial sums: k step -> how often its product was added.
KSteps == 0 .. Max(KTiles) - 1
Zero == [k \in KSteps |-> 0]
Products(from, count) ==
  [k \in KSteps |-> IF k \in from .. from + count - 1 THEN 1 ELSE 0]
Plus(x, y) == [k \in KSteps |-> x[k] + y[k]]

-----------------------------------------------------------------------------
(* The partition of a launch.                                               *)

Persistent(sh) == sh.raster # "stripes"
MnTiles(sh) == sh.par * sh.n

\* Tiles left to the stripes: all of them when there is at most one per block;
\* otherwise the remainder, and one tile per block more when it is small.
Part2Tiles(sh) ==
  LET t == MnTiles(sh)
      rest == t % Grid
  IN  IF Persistent(sh) THEN 0
      ELSE IF t <= Grid THEN t
      ELSE IF rest * 3 <= Grid THEN rest + Grid
      ELSE rest

\* Whole tiles block b does before the stripes.
Part1Iters(sh, b) ==
  IF Persistent(sh)
  THEN IF b < MnTiles(sh) THEN DivCeil(MnTiles(sh) - b, Grid) ELSE 0
  ELSE (MnTiles(sh) - Part2Tiles(sh)) \div Grid

Iters(sh) == DivCeil(sh.k * Part2Tiles(sh), Grid)

\* Where a persistent task lands: groups of four tile rows traversed column by
\* column, or one column at a time.
GroupRows == 4
PersistentTile(sh, task) ==
  LET begin == (task \div (GroupRows * sh.n)) * GroupRows
      rows == IF sh.par - begin < GroupRows THEN sh.par - begin ELSE GroupRows
      inGroup == task % (GroupRows * sh.n)
  IN  IF sh.raster = "groupedM4"
      THEN <<begin + (inGroup % rows), inGroup \div rows>>
      ELSE <<task % sh.par, task \div sh.par>>

\* The lock before the one of block b's first stripe, or that lock itself.
FirstLock(sh, b) ==
  IF Part2Tiles(sh) >= Grid THEN b ELSE (Iters(sh) * b) \div sh.k - 1

-----------------------------------------------------------------------------
(* One block's slices.  col is slice_col_par, tile is <<par_id, slice_col>>. *)

\* The k steps of part 2 left to block b at this column and row.
StripeLength(sh, b, col, row) ==
  LET left == Iters(sh) * (b + 1) - (sh.k * col + row)
  IN  IF left < 0 \/ col >= Part2Tiles(sh) THEN 0
      ELSE IF row + left > sh.k THEN sh.k - row
      ELSE left

\* How many blocks share tile col, and block b's turn among them, bottom first.
Sharing(sh, b, col) ==
  LET it == Iters(sh)
      first == it * DivCeil(sh.k * col, it)
      off == first - sh.k * col
      count == DivCeil(sh.k - off, it) + (IF off > 0 THEN 1 ELSE 0)
      delta == it * b - first
      turn == IF delta < 0 \/ (off = 0 /\ delta = 0) THEN count - 1
              ELSE count - 1 - delta \div it - (IF off > 0 THEN 1 ELSE 0)
  IN  IF first <= sh.k * (col + 1) THEN <<count, turn>> ELSE <<1, 0>>

\* Mutant: one lock per block whenever there are enough of them.
LockStepNever(sh, count, turn) == IF Part2Tiles(sh) >= Grid THEN 0 ELSE 1

\* With at least one stripe tile per block only the block that starts a shared
\* tile moves on to the next lock; with fewer, every column has its own lock.
LockStep(sh, count, turn) ==
  IF Part2Tiles(sh) >= Grid
  THEN IF count > 1 /\ turn = count - 1 THEN 1 ELSE 0
  ELSE 1

\* Moving past the last column starts the next row of tiles.
Wrapped(sh, tile) == IF tile[2] = sh.n THEN <<tile[1] + 1, 0>> ELSE tile

InitPart2Slice(sh, b, r) ==
  LET len == StripeLength(sh, b, r.col, r.row)
      s == Sharing(sh, b, r.col)
  IN  IF len = 0 THEN [r EXCEPT !.iters = 0, !.pc = "exited"]
      ELSE [r EXCEPT !.iters = len, !.count = s[1], !.idx = s[2],
                     !.lock = @ + LockStep(sh, s[1], s[2]),
                     !.tile = Wrapped(sh, @), !.pc = "compute"]

InitPart1Slice(sh, r) ==
  [r EXCEPT !.part1 = @ - 1, !.iters = sh.k, !.pc = "compute",
            !.tile = IF Persistent(sh) THEN PersistentTile(sh, r.col)
                     ELSE <<r.col \div sh.n, r.col % sh.n>>]

\* Leaving part 1: the stripe of block b starts at k step iters * b of part 2.
EnterPart2(sh, b, r) ==
  LET start == Iters(sh) * b
      col == start \div sh.k
      at == col + MnTiles(sh) - Part2Tiles(sh)
  IN  [r EXCEPT !.inPart2 = TRUE, !.col = col, !.row = start % sh.k,
                !.tile = IF Persistent(sh) THEN <<0, 0>>
                         ELSE <<at \div sh.n, at % sh.n>>]

InitSlice(sh, b, r) ==
  IF ~r.inPart2 /\ r.part1 > 0 THEN InitPart1Slice(sh, r)
  ELSE InitPart2Slice(sh, b, IF r.inPart2 THEN r ELSE EnterPart2(sh, b, r))

NextSlice(sh, b, r) ==
  InitSlice(sh, b,
            [r EXCEPT !.row = 0, !.sum = Zero,
                      !.col = @ + (IF r.inPart2 THEN 1 ELSE Grid),
                      !.tile = IF r.inPart2 THEN <<@[1], @[2] + 1>> ELSE @])

\* The registers of block b when a launch starts.
Entered(sh, b) ==
  InitSlice(sh, b,
            [pc |-> "compute", part1 |-> Part1Iters(sh, b), inPart2 |-> FALSE,
             col |-> b, row |-> 0, tile |-> <<0, 0>>, iters |-> sh.k,
             count |-> 1, idx |-> 0, lock |-> FirstLock(sh, b), sum |-> Zero])

-----------------------------------------------------------------------------
Tiles(sh) == (0 .. sh.par - 1) \X (0 .. sh.n - 1)

\* Memory a launch finds: the output holds no sum of this launch yet.
Launched(sh) ==
  /\ shape' = sh
  /\ block' = [b \in Blocks |-> Entered(sh, b)]
  /\ out' = [t \in Tiles(sh) |-> <<>>]
  /\ tileOf' = [l \in Blocks |-> NoTile]

Init ==
  /\ shape \in Shapes
  /\ launches = 1
  /\ block = [b \in Blocks |-> Entered(shape, b)]
  /\ locks = [l \in Blocks |-> 0]
  /\ cTmp = [l \in Blocks |-> Zero]
  /\ out = [t \in Tiles(shape) |-> <<>>]
  /\ tileOf = [l \in Blocks |-> NoTile]

\* The next launch on the stream starts when every block of this one exited;
\* locks and cTmp are what it left behind.
Launch ==
  /\ launches < MaxLaunches
  /\ \A b \in Blocks : block[b].pc = "exited"
  /\ launches' = launches + 1
  /\ \E sh \in Shapes : Launched(sh)
  /\ UNCHANGED <<locks, cTmp>>

\* Only the last block of a shared tile, and the only block of any other, writes.
IsLast(r) == r.idx = r.count - 1
Shared(r) == r.count > 1

\* The main loop over the slice's k steps.
Compute(b) ==
  LET r == block[b] IN
  /\ r.pc = "compute"
  /\ block' = [block EXCEPT ![b].sum = Products(r.row, r.iters),
                            ![b].pc = IF Shared(r) THEN "acquire" ELSE "write"]
  /\ UNCHANGED <<shape, launches, locks, cTmp, out, tileOf>>

\* Mutant: the spin ends as soon as the lock does not exceed the turn.
MayAcquireAnyTurn(r) == locks[r.lock] <= r.idx

\* barrier_acquire spins until the lock counts the blocks below this one.
MayAcquire(r) == locks[r.lock] = r.idx

Acquire(b) ==
  LET r == block[b] IN
  /\ r.pc = "acquire" /\ MayAcquire(r)
  /\ block' = [block EXCEPT ![b].pc = "reduce"]
  /\ tileOf' = [tileOf EXCEPT ![r.lock] = r.tile]
  /\ UNCHANGED <<shape, launches, locks, cTmp, out>>

\* Mutant: the first block adds what C_tmp held before it.
ReducedAlways(r) == Plus(r.sum, cTmp[r.lock])

\* The first block has nothing to add; the others add what is stored.
Reduced(r) == IF r.idx = 0 THEN r.sum ELSE Plus(r.sum, cTmp[r.lock])

\* global_reduce_fp32: all but the last block store the sum.
GlobalReduce(b) ==
  LET r == block[b]
      sum == Reduced(r)
  IN
  /\ r.pc = "reduce"
  /\ block' = [block EXCEPT ![b].sum = sum, ![b].pc = "release"]
  /\ cTmp' = IF IsLast(r) THEN cTmp ELSE [cTmp EXCEPT ![r.lock] = sum]
  /\ UNCHANGED <<shape, launches, locks, out, tileOf>>

\* The lock counts the blocks done; the last one resets it.
Released(r) == IF IsLast(r) THEN 0 ELSE locks[r.lock] + 1

\* barrier_release, then the next slice unless this block writes the tile.
Release(b) ==
  LET r == block[b] IN
  /\ r.pc = "release"
  /\ locks' = [locks EXCEPT ![r.lock] = Released(r)]
  /\ block' = [block EXCEPT ![b] = IF IsLast(r) THEN [r EXCEPT !.pc = "write"]
                                   ELSE NextSlice(shape, b, r)]
  /\ UNCHANGED <<shape, launches, cTmp, out, tileOf>>

WriteResult(b) ==
  LET r == block[b] IN
  /\ r.pc = "write"
  /\ out' = [out EXCEPT ![r.tile] = Append(@, r.sum)]
  /\ block' = [block EXCEPT ![b] = NextSlice(shape, b, r)]
  /\ UNCHANGED <<shape, launches, locks, cTmp, tileOf>>

Step(b) ==
  Compute(b) \/ Acquire(b) \/ GlobalReduce(b) \/ Release(b) \/ WriteResult(b)

Next == Launch \/ \E b \in Blocks : Step(b)

\* The grid has one block per multiprocessor, so all of its blocks are resident
\* at once and each one keeps running, the spinning ones included.
Spec == Init /\ [][Next]_vars /\ \A b \in Blocks : WF_vars(Step(b))

-----------------------------------------------------------------------------
(* Properties.                                                              *)

\* Type correctness.  It includes the memory bounds: a block that reduces a
\* shared tile uses a lock and a C_tmp slot the launcher allocated (the arrays
\* hold one entry per block), and every tile a block works on exists.
TypeOK ==
  /\ shape \in Shapes /\ launches \in 1 .. MaxLaunches
  /\ locks \in [Blocks -> 0 .. Grid]
  /\ \A b \in Blocks :
       /\ block[b].pc \in {"compute", "acquire", "reduce", "release", "write",
                           "exited"}
       /\ block[b].pc # "exited" =>
            /\ block[b].tile \in Tiles(shape)
            /\ block[b].iters > 0 /\ block[b].row + block[b].iters <= shape.k
            /\ Shared(block[b]) => block[b].lock \in Blocks

\* What a launch computes: each output tile is written exactly once, with the
\* product of every k step added exactly once, however the blocks interleave
\* and whatever an earlier launch left in C_tmp.
EveryTileReducedOnce ==
  (\A b \in Blocks : block[b].pc = "exited") =>
    \A t \in Tiles(shape) : out[t] = <<Products(0, shape.k)>>

\* "The Gate+Up Marlin scheduler returns its locks to zero on this ordered
\* stream" (reference_runner.cpp): the next launch can reuse them uncleared.
LocksReturnToZero ==
  (\A b \in Blocks : block[b].pc = "exited") => locks = [l \in Blocks |-> 0]

\* The last block resets the lock with a plain store that no fence orders, so
\* no other tile of the launch may wait on the same lock: a lock that has served
\* a tile is only ever used for that tile.
LockServesOneTile ==
  \A b \in Blocks :
    block[b].pc \in {"acquire", "reduce", "release"} =>
      tileOf[block[b].lock] \in {NoTile, block[b].tile}

\* Two blocks never read or write the same C_tmp slot at the same time.
SlotIsExclusive ==
  \A b, c \in Blocks :
    ( /\ b # c
      /\ block[b].pc \in {"reduce", "release"}
      /\ block[c].pc \in {"reduce", "release"} ) =>
      block[b].lock # block[c].lock

\* init_part2_slice, barrier_acquire and barrier_release: locks and slots are in
\* range, belong to one tile of the launch, and admit one block at a time.
LockProtocol == TypeOK /\ LockServesOneTile /\ SlotIsExclusive

\* What a finished launch leaves: the whole product, and locks for the next one.
LaunchIsSound == EveryTileReducedOnce /\ LocksReturnToZero

\* The spinning blocks are always freed: every block leaves the kernel.
LaunchEnds == \A b \in Blocks : []<>(block[b].pc = "exited")

=============================================================================
