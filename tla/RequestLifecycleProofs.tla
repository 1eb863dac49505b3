----------------------- MODULE RequestLifecycleProofs -----------------------
(***************************************************************************)
(* What RequestLifecycle guarantees for every capacity, every prompt and   *)
(* output length, every tile geometry and any number of requests.          *)
(*                                                                         *)
(* The promised invariants speak of the moments at which a request starts, *)
(* emits or ends.  What carries them from one to the next is how far the   *)
(* arena has got at every place of the controller (Prefilling, Staged,     *)
(* Generating) and what the reuse boundary says between requests           *)
(* (Boundary).                                                             *)
(***************************************************************************)
EXTENDS RequestLifecycle, WellFoundedInduction, TLAPS

\* Exactly the first n rows are this request's, the others are untouched.
OwnRows(n) == \A i \in Rows : kv[i] = IF i =< n THEN "mine" ELSE "zero"

Quiet == ~poisoned /\ stage = "idle" /\ ~armed

\* An active request fits into the arena.
Fits ==
  pc # "idle" => /\ prompt \in Prompts
                 /\ maxNew >= 1
                 /\ prompt + maxNew - 1 =< Capacity

\* The passes recorded so far and those that the rest of the prefix takes.
Accounted ==
  CASE mode = "whole" -> passes = 0
    [] mode = "scalar" -> passes = steps
    [] OTHER -> passes + TileCount[PrefixLength - steps] = TileCount[PrefixLength]

Prefilling ==
  pc = "prefill" =>
    /\ Quiet /\ owner = "home" /\ emitted = 0
    /\ position = steps /\ home = steps /\ OwnRows(steps)
    /\ steps =< PrefixLength
    /\ mode = "whole" => steps = 0
    /\ steps = 0 => retained = 0
    /\ Accounted

Staged ==
  pc \in {"finish-whole", "commit-whole"} =>
    /\ mode = "whole" /\ armed /\ ~poisoned
    /\ stage = IF pc = "finish-whole" THEN "awaiting-logits" ELSE "awaiting-commit"
    /\ owner = "home" /\ emitted = 0 /\ passes = 0
    /\ position = 0 /\ home = prompt /\ OwnRows(prompt)
    /\ pc = "commit-whole" => basis = prompt

Generating ==
  pc \in {"mtp-init", "emit", "decode", "accept"} =>
    /\ Quiet
    /\ passes = ExpectedPasses
    /\ Holds(position)
    /\ ~engine.mtp => owner = "home" /\ OwnRows(position)
    /\ IF pc \in {"mtp-init", "emit"}
         THEN /\ position = prompt + emitted /\ basis = position
              /\ emitted < maxNew
         ELSE position = prompt + emitted - 1
    /\ pc = "decode" => emitted < maxNew
    /\ pc = "accept" => result \in {"ok", "cancelled"}

\* What is known between requests, and after a failure.
Boundary ==
  /\ pc # "idle" => boundary = "uncertain"
  /\ boundary = "clean" => home = 0 /\ \A i \in Rows : kv[i] = "zero"
  /\ pc = "failing" => /\ result \in {"error", "cancelled"}
                       /\ stage = "idle" \/ armed

\* The inductive invariant.
IInv ==
  /\ TypeOK /\ Fits /\ Prefilling /\ Staged /\ Generating /\ Boundary
  /\ StageIsPrivate /\ ReuseIsEarned /\ RouteWitnessComplete

-----------------------------------------------------------------------------
USE CapacityAssumption, PromptAssumption, ChunkAssumption, WholePassesAssumption

(***************************************************************************)
(* The geometry of the tiles                                               *)
(***************************************************************************)
\* The least number principle, for a set: what the inductions below rest on.
LEMMA LeastNatural ==
  ASSUME NEW T, T \subseteq Nat, T # {}
  PROVE  \E x \in T : \A y \in T : x =< y
<1>1. \E x \in T : \A y \in T : <<y, x>> \notin OpToRel(<, Nat)
  BY NatLessThanWellFounded, WFMin
<1>2. \A x, y \in Nat : <<y, x>> \notin OpToRel(<, Nat) => x =< y
  BY DEF OpToRel
<1> QED BY <1>1, <1>2

\* A bounded set of naturals has a greatest element, which Max returns.
LEMMA MaxOfBounded ==
  ASSUME NEW S, S # {}, NEW b \in Nat, S \subseteq 0 .. b
  PROVE  Max(S) \in S /\ \A y \in S : y =< Max(S)
<1> DEFINE D == {b - s : s \in S}
<1>1. D \subseteq Nat /\ D # {}
  <2>1. \A s \in S : s \in Nat /\ b - s \in Nat
    OBVIOUS
  <2> QED BY <2>1
<1>2. PICK d \in D : \A e \in D : d =< e
  <2> HIDE DEF D
  <2> QED BY <1>1, LeastNatural
<1>3. PICK s \in S : d = b - s
  OBVIOUS
<1>4. ASSUME NEW y \in S PROVE s >= y
  <2>1. d =< b - y
    BY <1>2
  <2> QED BY <1>3, <2>1
<1> QED BY <1>4 DEF Max

\* Min of two integers.
LEMMA MinOfTwo ==
  ASSUME NEW a \in Int, NEW b \in Int
  PROVE  Min({a, b}) = IF a =< b THEN a ELSE b
BY DEF Min

\* next_prefix_tile_token_count: a tile takes something, and no more than is left.
LEMMA TileFits ==
  ASSUME NEW r \in Nat \ {0}
  PROVE  TileSize(r) \in 1 .. r
<1> DEFINE c == IF r < Chunk THEN r ELSE Chunk
           F == {s \in Segments : s =< c}
<1>1. c \in 1 .. r
  OBVIOUS
<1>2. TileSize(r) = IF F = {} THEN c ELSE Max(F)
  BY DEF TileSize
<1> HIDE DEF c
<1>3. \A s \in F : s \in 1 .. c
  <2>1. ASSUME NEW s \in Segments, s =< c PROVE s \in 1 .. c
    BY <1>1, <2>1
  <2> QED BY <2>1
<1> HIDE DEF F
<1>4. F # {} => Max(F) \in F
  <2>1. c \in Nat /\ F \subseteq 0 .. c
    BY <1>1, <1>3
  <2> QED BY <2>1, MaxOfBounded
<1> QED BY <1>1, <1>2, <1>3, <1>4

\* What TileCount computes, as an equation for each of its arguments.
Counts(g, m) ==
  /\ g \in [0 .. m -> Nat]
  /\ g[0] = 0
  /\ \A r \in 1 .. m : g[r] = 1 + g[r - TileSize(r)]

LEMMA CountExists == \A m \in Nat : \E g : Counts(g, m)
<1> DEFINE T == {m \in Nat : ~ \E g : Counts(g, m)}
<1> SUFFICES ASSUME T # {} PROVE FALSE
  OBVIOUS
<1>1. PICK m \in T : \A y \in T : m =< y
  <2>1. T \subseteq Nat
    OBVIOUS
  <2> HIDE DEF T
  <2> QED BY <2>1, LeastNatural
<1>2. m \in Nat /\ ~ \E g : Counts(g, m)
  OBVIOUS
<1>3. CASE m = 0
  <2>1. Counts([i \in 0 .. 0 |-> 0], 0)
    BY DEF Counts
  <2> QED BY <1>2, <1>3, <2>1
<1>4. CASE m # 0
  <2>1. m - 1 \in Nat /\ m - 1 \notin T
    BY <1>1, <1>2, <1>4
  <2>2. PICK g : Counts(g, m - 1)
    BY <2>1
  <2>3. m - TileSize(m) \in 0 .. m - 1
    BY <1>2, <1>4, TileFits
  <2> DEFINE h == [i \in 0 .. m |-> IF i = m THEN 1 + g[m - TileSize(m)] ELSE g[i]]
  <2>4. h \in [0 .. m -> Nat] /\ h[0] = 0
    BY <1>2, <1>4, <2>2, <2>3 DEF Counts
  <2>5. ASSUME NEW r \in 1 .. m
        PROVE  h[r] = 1 + h[r - TileSize(r)]
    <3>1. CASE r = m
      BY <1>2, <2>3, <3>1
    <3>2. CASE r # m
      <4>1. r \in 1 .. m - 1 /\ r \in Nat \ {0}
        BY <1>2, <3>2
      <4>2. r - TileSize(r) \in 0 .. r - 1
        BY <4>1, TileFits
      <4>3. h[r] = g[r] /\ h[r - TileSize(r)] = g[r - TileSize(r)]
        BY <1>2, <4>1, <4>2
      <4> QED BY <2>2, <4>1, <4>3 DEF Counts
    <3> QED BY <3>1, <3>2
  <2>6. Counts(h, m)
    <3> HIDE DEF h
    <3> QED BY <2>4, <2>5 DEF Counts
  <2> QED BY <1>2, <2>6
<1> QED BY <1>3, <1>4

\* prefix_execution_count satisfies its recursion.
LEMMA TileCountDef ==
  /\ TileCount \in [0 .. Capacity -> Nat]
  /\ TileCount[0] = 0
  /\ \A r \in 1 .. Capacity : TileCount[r] = 1 + TileCount[r - TileSize(r)]
<1> DEFINE Body(g) == [r \in 0 .. Capacity |->
                         IF r = 0 THEN 0 ELSE 1 + g[r - TileSize(r)]]
<1>1. PICK g : Counts(g, Capacity)
  BY CountExists
<1>2. g = Body(g)
  BY <1>1 DEF Counts
<1>3. TileCount = Body(TileCount)
  BY <1>2 DEF TileCount
<1>4. TileCount = [r \in 0 .. Capacity |-> TileCount[r]]
  BY <1>3
<1>5. \A r \in 0 .. Capacity : TileCount[r] = g[r]
  <2> DEFINE T == {r \in 0 .. Capacity : TileCount[r] # g[r]}
  <2> SUFFICES ASSUME T # {} PROVE FALSE
    OBVIOUS
  <2>1. PICK r \in T : \A y \in T : r =< y
    <3>1. T \subseteq Nat
      OBVIOUS
    <3> HIDE DEF T
    <3> QED BY <3>1, LeastNatural
  <2>2. r # 0
    BY <1>1, <1>3 DEF Counts
  <2>3. r - TileSize(r) \in 0 .. r - 1
    BY <2>2, TileFits
  <2>4. TileCount[r - TileSize(r)] = g[r - TileSize(r)]
    BY <2>1, <2>3
  <2>5. TileCount[r] = 1 + TileCount[r - TileSize(r)]
    BY <1>3, <2>2
  <2>6. g[r] = 1 + g[r - TileSize(r)]
    BY <1>2, <2>2
  <2> QED BY <2>4, <2>5, <2>6
<1>6. TileCount = g
  BY <1>1, <1>4, <1>5 DEF Counts
<1> QED BY <1>1, <1>6 DEF Counts

(***************************************************************************)
(* The inductive step                                                      *)
(***************************************************************************)
\* reset_for_request_async in the mode select_request_reset picks leaves zeroed
\* memory, although two of the modes clear less than the whole arena.
LEMMA ResetWipes ==
  ASSUME IInv, pc = "idle", ResetMemory(SelectReset)
  PROVE  /\ kv' = [i \in Rows |-> "zero"]
         /\ home' = 0 /\ slot' = Off /\ position' = 0 /\ owner' = "home"
<1>1. SelectReset \in {"none", "prefix", "full"}
  BY DEF SelectReset
<1>2. SelectReset = "none" => home = 0 /\ \A i \in Rows : kv[i] = "zero"
  BY DEF IInv, Boundary, SelectReset
<1>3. SelectReset = "prefix" => \A i \in Rows : kv[i] # "zero" => i =< committed
  BY DEF IInv, ReuseIsEarned, CommittedCoversWrites, SelectReset
<1>4. \A i \in Rows : Cleared(SelectReset)[i] = "zero"
  <2>1. CASE SelectReset = "none"
    BY <1>2, <2>1 DEF Cleared
  <2>2. CASE SelectReset = "prefix"
    BY <1>3, <2>2 DEF Cleared, Wiped
  <2>3. CASE SelectReset = "full"
    BY <2>3 DEF Cleared, Wiped, Rows
  <2> QED BY <1>1, <2>1, <2>2, <2>3
<1>5. kv' = [i \in Rows |-> "zero"]
  BY <1>4 DEF ResetMemory, LeftOver
<1> QED BY <1>2, <1>5 DEF ResetMemory

\* n more tokens of an ordinary request: the memory advances with them.
LEMMA MemoryAdvances ==
  ASSUME MemoryType, owner = "home", home = position, OwnRows(position),
         NEW n \in Nat, position + n =< Capacity,
         kv' = Written(position + 1, position + n), home' = Advanced(n),
         position' = position + n, UNCHANGED <<slot, owner>>
  PROVE  /\ MemoryType' /\ OwnRows(position)'
         /\ home' = position' /\ owner' = "home"
<1>1. Holds(position)
  BY DEF Holds, Live, OwnRows, Rows, MemoryType
<1>2. home' = position + n
  BY <1>1 DEF Advanced
<1>3. kv' = [i \in Rows |-> IF i =< position + n THEN "mine" ELSE "zero"]
  BY DEF Written, OwnRows, Rows, MemoryType
<1>4. position + n \in 0 .. Capacity
  BY DEF MemoryType
<1>5. kv' \in [Rows -> {"zero", "mine", "old"}]
  BY <1>3
<1>6. MemoryType'
  BY <1>2, <1>4, <1>5 DEF MemoryType
<1>7. OwnRows(position)'
  BY <1>3 DEF OwnRows
<1> QED BY <1>2, <1>6, <1>7

\* What an advance of the memory means for the prediction.
LEMMA OwnRowsHold ==
  ASSUME MemoryType, owner = "home", home = position, OwnRows(position)
  PROVE  Holds(position)
BY DEF Holds, Live, OwnRows, Rows, MemoryType

LEMMA BeginStep ==
  ASSUME IInv, NEW how \in Modes, NEW p \in Prompts, NEW n \in MaxNews,
         Begin(how, p, n)
  PROVE  IInv'
<1>1. /\ kv' = [i \in Rows |-> "zero"]
      /\ home' = 0 /\ slot' = Off /\ position' = 0 /\ owner' = "home"
  BY ResetWipes DEF Begin, NewRequest
<1>2. p \in 1 .. Capacity /\ n \in Nat \ {0}
  OBVIOUS
<1>3. ControllerType'
  <2>1. /\ pc' = "prefill" /\ armed' \in BOOLEAN /\ ~armed' /\ engine' = engine /\ result' = result
        /\ basis' = Off
    BY DEF Begin, NewRequest
  <2>2. mode' \in Modes /\ prompt' \in Prompts /\ maxNew' \in Nat
    BY <1>2 DEF Begin, NewRequest
  <2>3. steps' \in 0 .. prompt' /\ emitted' \in 0 .. maxNew'
    BY <1>2 DEF Begin, NewRequest
  <2> QED BY <2>1, <2>2, <2>3 DEF IInv, TypeOK, ControllerType
<1>4. RunnerType' /\ MemoryType'
  <2>1. RunnerType'
    <3>1. /\ poisoned' \in BOOLEAN /\ ~poisoned' /\ boundary' = "uncertain" /\ committed' = 0
          /\ stage' = "idle" /\ retained' = 0 /\ passes' = 0
      BY DEF Begin, ResetRunner
    <3> QED BY <3>1 DEF RunnerType
  <2>2. MemoryType'
    BY <1>1 DEF MemoryType
  <2> QED BY <2>1, <2>2
<1>5. Fits'
  BY <1>2 DEF Fits, Begin, NewRequest, Admitted
<1>6. Prefilling'
  <2>1. Accounted'
    BY TileCountDef, <1>2
    DEF Accounted, Begin, NewRequest, ResetRunner, PrefixLength, Modes
  <2> QED BY <1>1, <1>2, <2>1
          DEF Prefilling, Quiet, OwnRows, Begin, NewRequest, ResetRunner,
              PrefixLength, Rows
<1>7. Staged' /\ Generating' /\ Boundary' /\ StageIsPrivate' /\ ReuseIsEarned'
  BY DEF Staged, Generating, Boundary, StageIsPrivate, ReuseIsEarned,
         CommittedCoversWrites, OnlySuccessGrantsReuse, Begin, ResetRunner
<1>8. RouteWitnessComplete'
  BY DEF IInv, RouteWitnessComplete, Begin
<1> QED BY <1>3, <1>4, <1>5, <1>6, <1>7, <1>8 DEF IInv, TypeOK

LEMMA BeginFailsStep ==
  ASSUME IInv, NEW how \in Modes, NEW p \in Prompts, NEW n \in MaxNews,
         BeginFails(how, p, n)
  PROVE  IInv'
<1>1. p \in 1 .. Capacity /\ n \in Nat \ {0} /\ pc = "idle" /\ pc' = "idle"
  BY DEF BeginFails, NewRequest
<1>2. ControllerType'
  <2>1. /\ armed' \in BOOLEAN /\ ~armed' /\ engine' = engine /\ result' = "error"
        /\ basis' = Off
    BY DEF BeginFails, NewRequest
  <2>2. mode' \in Modes /\ prompt' \in Prompts /\ maxNew' \in Nat
    BY <1>1 DEF BeginFails, NewRequest
  <2>3. steps' \in 0 .. prompt' /\ emitted' \in 0 .. maxNew'
    BY <1>1 DEF BeginFails, NewRequest
  <2> QED BY <1>1, <2>1, <2>2, <2>3 DEF IInv, TypeOK, ControllerType
<1>3. RunnerType'
  BY DEF IInv, TypeOK, RunnerType, BeginFails
<1>4. MemoryType'
  <2>1. kv' \in [Rows -> {"zero", "mine", "old"}]
    BY DEF IInv, TypeOK, MemoryType, BeginFails, LeftOver
  <2>2. home' \in {0, Off} /\ slot' = Off
    BY DEF BeginFails
  <2>3. position' \in {0, position} /\ owner' \in {"home", owner}
    BY DEF BeginFails
  <2> QED BY <2>1, <2>2, <2>3 DEF IInv, TypeOK, MemoryType
<1>5. Fits' /\ Prefilling' /\ Staged' /\ Generating'
  BY <1>1 DEF Fits, Prefilling, Staged, Generating
<1>6. Boundary' /\ ReuseIsEarned' /\ RouteWitnessComplete'
  BY <1>1 DEF Boundary, ReuseIsEarned, CommittedCoversWrites,
              OnlySuccessGrantsReuse, RouteWitnessComplete, BeginFails
<1>7. StageIsPrivate'
  BY <1>1 DEF IInv, StageIsPrivate, BeginFails
<1> QED BY <1>2, <1>3, <1>4, <1>5, <1>6, <1>7 DEF IInv, TypeOK

\* What an active request knows of its size and of the boundary.
LEMMA ActiveFacts ==
  ASSUME IInv, pc # "idle"
  PROVE  /\ prompt \in 1 .. Capacity /\ maxNew \in Nat \ {0}
         /\ prompt + maxNew - 1 =< Capacity
         /\ boundary = "uncertain" /\ steps \in Nat /\ emitted \in Nat
         /\ position \in Nat /\ passes \in Nat
BY DEF IInv, TypeOK, ControllerType, RunnerType, MemoryType, Fits, Boundary

\* Steps inside an active request leave the parts that speak of idleness alone.
LEMMA StaysActive ==
  ASSUME IInv, pc # "idle", pc' # "idle", boundary' = "uncertain",
         UNCHANGED <<prompt, maxNew, result>>
  PROVE  /\ Fits' /\ ReuseIsEarned' /\ RouteWitnessComplete'
         /\ pc' # "failing" => Boundary'
BY ActiveFacts
DEF IInv, Fits, ReuseIsEarned, CommittedCoversWrites, OnlySuccessGrantsReuse,
    RouteWitnessComplete, Boundary

LEMMA PrefillTileStep ==
  ASSUME IInv, PrefillTile
  PROVE  IInv'
<1> DEFINE r == PrefixLength - steps
           n == TileSize(r)
<1>1. /\ pc = "prefill" /\ pc' = "prefill" /\ boundary' = "uncertain"
      /\ mode \in {"tiles", "retained"}
  BY DEF PrefillTile, Uncertain
<1>2. /\ MemoryType /\ Quiet /\ owner = "home" /\ home = position
      /\ OwnRows(position) /\ position = steps /\ emitted = 0 /\ Accounted
  BY <1>1 DEF IInv, TypeOK, Prefilling
<1>3. PrefixLength \in 0 .. prompt /\ r \in 1 .. PrefixLength
  BY <1>1, ActiveFacts DEF PrefixLength, PrefillTile
<1>4. n \in 1 .. r
  BY <1>3, TileFits
<1> HIDE DEF n
<1>5. /\ kv' = Written(position + 1, position + n) /\ home' = Advanced(n)
      /\ position' = position + n /\ steps' = steps + n
      /\ retained' \in {0, position + n} /\ passes' = passes + 1
  BY DEF PrefillTile, n
<1>6. steps' \in 1 .. PrefixLength /\ steps' =< Capacity
  BY <1>1, <1>3, <1>4, <1>5, ActiveFacts
<1>7. MemoryType' /\ OwnRows(position)' /\ home' = position' /\ owner' = "home"
  BY <1>1, <1>2, <1>3, <1>4, <1>5, <1>6, ActiveFacts, MemoryAdvances DEF PrefillTile
<1>8. ControllerType'
  BY <1>1, <1>3, <1>6, ActiveFacts
  DEF IInv, TypeOK, ControllerType, PrefillTile, request
<1>9. RunnerType'
  BY <1>1, <1>2, <1>5, <1>6, ActiveFacts
  DEF IInv, TypeOK, RunnerType, PrefillTile, Uncertain
<1>10. Prefilling'
  <2>1. /\ TileCount[r] = 1 + TileCount[r - n]
        /\ TileCount[r] \in Nat /\ TileCount[r - n] \in Nat
        /\ r - n = PrefixLength - steps'
    <3>1. r \in 1 .. Capacity /\ r - n \in 0 .. Capacity
      BY <1>1, <1>3, <1>4, ActiveFacts
    <3>2. TileCount[r] = 1 + TileCount[r - n]
      BY <3>1, TileCountDef DEF n
    <3>3. r - n = PrefixLength - steps'
      BY <1>1, <1>3, <1>4, <1>5, ActiveFacts
    <3> HIDE DEF r
    <3> QED BY <3>1, <3>2, <3>3, TileCountDef
  <2>2. passes + TileCount[r] = TileCount[PrefixLength]
    BY <1>1, <1>2 DEF Accounted
  <2>3. passes' + TileCount[PrefixLength - steps'] = TileCount[PrefixLength]
    BY <1>1, <1>5, <2>1, <2>2, ActiveFacts
  <2>4. UNCHANGED <<mode, prompt, PrefixLength>>
    BY DEF PrefillTile, request, PrefixLength
  <2>5. Accounted'
    BY <1>1, <2>3, <2>4 DEF Accounted
  <2> QED BY <1>1, <1>2, <1>5, <1>6, <1>7, <2>4, <2>5
          DEF Prefilling, Quiet, PrefillTile
<1>11. Staged' /\ Generating' /\ StageIsPrivate'
  BY <1>1, <1>2 DEF Staged, Generating, StageIsPrivate, PrefillTile, Quiet
<1>12. Fits' /\ ReuseIsEarned' /\ RouteWitnessComplete' /\ Boundary'
  BY <1>1, StaysActive DEF PrefillTile, request
<1> QED BY <1>7, <1>8, <1>9, <1>10, <1>11, <1>12 DEF IInv, TypeOK

\* prefill_step_with_route: the two places of the scalar step in the prefill.
LEMMA ScalarStepMemory ==
  ASSUME MemoryType, owner = "home", home = position, OwnRows(position), StepRunner
  PROVE  /\ MemoryType' /\ OwnRows(position)' /\ position' = position + 1
         /\ home' = position' /\ owner' = "home"
<1>1. position + 1 =< Capacity
  BY DEF StepRunner, MemoryType
<1> QED BY <1>1, MemoryAdvances DEF StepRunner

LEMMA ScalarStepRunner ==
  ASSUME RunnerType, passes' \in Nat, StepRunner
  PROVE  /\ RunnerType' /\ boundary' = "uncertain" /\ retained' = 0
         /\ poisoned' \in BOOLEAN /\ ~poisoned' /\ stage' = "idle"
<1>1. /\ poisoned' \in BOOLEAN /\ ~poisoned' /\ boundary' = "uncertain" /\ committed' = 0
      /\ stage' = "idle" /\ retained' = 0
  BY DEF StepRunner, Uncertain, RunnerType
<1> QED BY <1>1 DEF RunnerType

LEMMA PrefillStepStep ==
  ASSUME IInv, PrefillStep
  PROVE  IInv'
<1>1. /\ pc = "prefill" /\ pc' = "prefill" /\ mode = "scalar" /\ StepRunner
      /\ passes' = passes + 1 /\ steps' = steps + 1 /\ steps < PrefixLength
      /\ UNCHANGED <<engine, mode, prompt, maxNew, emitted, basis, armed, result>>
  BY DEF PrefillStep, request
<1>2. /\ MemoryType /\ RunnerType /\ Quiet /\ owner = "home" /\ home = position
      /\ OwnRows(position) /\ position = steps /\ emitted = 0 /\ passes = steps
  BY <1>1 DEF IInv, TypeOK, Prefilling, Accounted
<1>3. /\ MemoryType' /\ OwnRows(position)' /\ position' = position + 1
      /\ home' = position' /\ owner' = "home"
  BY <1>1, <1>2, ScalarStepMemory
<1>4. /\ RunnerType' /\ boundary' = "uncertain"
      /\ poisoned' \in BOOLEAN /\ ~poisoned' /\ stage' = "idle"
  BY <1>1, <1>2, ActiveFacts, ScalarStepRunner
<1>5. steps' \in 1 .. PrefixLength /\ steps' \in 0 .. prompt
  BY <1>1, ActiveFacts DEF PrefixLength
<1>6. ControllerType'
  BY <1>1, <1>5, ActiveFacts DEF IInv, TypeOK, ControllerType
<1>7. Prefilling'
  <2>1. PrefixLength' = PrefixLength
    BY <1>1 DEF PrefixLength
  <2> QED BY <1>1, <1>2, <1>3, <1>4, <1>5, <2>1, ActiveFacts
          DEF Prefilling, Quiet, Accounted
<1>8. Staged' /\ Generating' /\ StageIsPrivate'
  BY <1>1, <1>4 DEF Staged, Generating, StageIsPrivate
<1>9. Fits' /\ ReuseIsEarned' /\ RouteWitnessComplete' /\ Boundary'
  BY <1>1, <1>4, StaysActive
<1> QED BY <1>3, <1>4, <1>6, <1>7, <1>8, <1>9 DEF IInv, TypeOK

LEMMA FinishStepStep ==
  ASSUME IInv, FinishStep
  PROVE  IInv'
<1>1. /\ pc = "prefill" /\ pc' = "emit" /\ mode \in {"tiles", "scalar"}
      /\ StepRunner /\ basis' = home'
      /\ passes' = passes + 1 /\ steps' = steps + 1 /\ steps = PrefixLength
      /\ UNCHANGED <<engine, mode, prompt, maxNew, emitted, armed, result>>
  BY DEF FinishStep, request
<1>2. /\ MemoryType /\ RunnerType /\ Quiet /\ owner = "home" /\ home = position
      /\ OwnRows(position) /\ position = steps /\ emitted = 0 /\ Accounted
  BY <1>1 DEF IInv, TypeOK, Prefilling
<1>3. /\ MemoryType' /\ OwnRows(position)' /\ position' = position + 1
      /\ home' = position' /\ owner' = "home"
  BY <1>1, <1>2, ScalarStepMemory
<1>4. /\ RunnerType' /\ boundary' = "uncertain"
      /\ poisoned' \in BOOLEAN /\ ~poisoned' /\ stage' = "idle"
  BY <1>1, <1>2, ActiveFacts, ScalarStepRunner
<1>5. PrefixLength = prompt - 1 /\ position' = prompt /\ position' \in Rows
  BY <1>1, <1>2, <1>3, ActiveFacts DEF PrefixLength, Rows
<1>6. ControllerType'
  BY <1>1, <1>3, <1>5, ActiveFacts DEF IInv, TypeOK, ControllerType
<1>7. Generating'
  <2>1. passes' = ExpectedPasses'
    <3>1. PrefixLength' = PrefixLength /\ PrefixLength \in 0 .. Capacity
      BY <1>1, <1>5, ActiveFacts DEF PrefixLength
    <3>2. CASE mode = "scalar"
      BY <1>1, <1>2, <3>1, <3>2 DEF Accounted, ExpectedPasses
    <3>3. CASE mode = "tiles"
      <4>1. passes = TileCount[PrefixLength]
        BY <1>1, <1>2, <3>1, <3>3, ActiveFacts, TileCountDef DEF Accounted
      <4> QED BY <1>1, <3>1, <3>3, <4>1 DEF ExpectedPasses
    <3> QED BY <1>1, <3>2, <3>3
  <2>2. Holds(position)'
    BY <1>3 DEF Holds, Live, OwnRows, Rows, MemoryType
  <2> QED BY <1>1, <1>2, <1>3, <1>4, <1>5, <2>1, <2>2, ActiveFacts
          DEF Generating, Quiet
<1>8. Prefilling' /\ Staged' /\ StageIsPrivate'
  BY <1>1, <1>4 DEF Prefilling, Staged, StageIsPrivate
<1>9. Fits' /\ ReuseIsEarned' /\ RouteWitnessComplete' /\ Boundary'
  BY <1>1, <1>4, StaysActive
<1> QED BY <1>3, <1>4, <1>6, <1>7, <1>8, <1>9 DEF IInv, TypeOK

LEMMA FinishRetainedStep ==
  ASSUME IInv, FinishRetained
  PROVE  IInv'
<1>1. /\ pc = "prefill" /\ pc' = "emit" /\ mode = "retained"
      /\ steps = PrefixLength /\ retained = position /\ retained' = 0
      /\ basis' = IF Holds(position) THEN retained ELSE Off
      /\ UNCHANGED <<engine, mode, prompt, maxNew, steps, emitted, armed, result,
                     poisoned, boundary, committed, stage, passes, memory>>
  BY DEF FinishRetained, request
<1>2. /\ MemoryType /\ RunnerType /\ Quiet /\ owner = "home" /\ home = position
      /\ OwnRows(position) /\ position = steps /\ emitted = 0 /\ Accounted
  BY <1>1 DEF IInv, TypeOK, Prefilling
<1>3. Holds(position) /\ PrefixLength = prompt
  BY <1>1, <1>2, OwnRowsHold DEF PrefixLength
<1>4. basis' = prompt /\ position = prompt /\ prompt \in Rows
  BY <1>1, <1>2, <1>3, ActiveFacts DEF Rows
<1>5. ControllerType'
  BY <1>1, <1>4 DEF IInv, TypeOK, ControllerType
<1>6. RunnerType' /\ MemoryType'
  <2>1. poisoned' \in BOOLEAN
    BY <1>1, <1>2 DEF RunnerType
  <2> QED BY <1>1, <1>2, <2>1 DEF RunnerType, MemoryType, memory
<1>7. Generating'
  <2>1. passes' = ExpectedPasses'
    <3>1. passes = TileCount[prompt]
      BY <1>1, <1>2, <1>3, ActiveFacts, TileCountDef DEF Accounted
    <3> QED BY <1>1, <1>3, <3>1 DEF ExpectedPasses, PrefixLength
  <2>2. Holds(position)' /\ OwnRows(position)' /\ owner' = "home" /\ position' = prompt
    BY <1>1, <1>2, <1>3, <1>4 DEF Holds, Live, OwnRows, memory
  <2> QED BY <1>1, <1>2, <1>4, <2>1, <2>2, ActiveFacts DEF Generating, Quiet
<1>8. Prefilling' /\ Staged' /\ StageIsPrivate'
  BY <1>1, <1>2 DEF Prefilling, Staged, StageIsPrivate, Quiet
<1>9. Fits' /\ ReuseIsEarned' /\ RouteWitnessComplete' /\ Boundary'
  BY <1>1, ActiveFacts, StaysActive
<1> QED BY <1>5, <1>6, <1>7, <1>8, <1>9 DEF IInv, TypeOK

LEMMA PrefillWholeStep ==
  ASSUME IInv, PrefillWhole
  PROVE  IInv'
<1>1. /\ pc = "prefill" /\ pc' = "finish-whole" /\ mode = "whole" /\ mode' = "whole"
      /\ boundary' = "uncertain" /\ committed' = 0 /\ retained' = 0
      /\ kv' = Written(1, prompt) /\ home' = Advanced(prompt)
      /\ stage' = "awaiting-logits" /\ armed' = TRUE /\ steps' = prompt
      /\ UNCHANGED <<engine, prompt, maxNew, emitted, basis, result, poisoned, passes,
                     position, slot, owner>>
  BY DEF PrefillWhole, Whole, Uncertain, request
<1>2. /\ MemoryType /\ RunnerType /\ Quiet /\ owner = "home" /\ home = position
      /\ OwnRows(position) /\ position = 0 /\ emitted = 0 /\ passes = 0
  BY <1>1 DEF IInv, TypeOK, Prefilling, Accounted
<1>3. home' = prompt
  BY <1>1, <1>2, OwnRowsHold, ActiveFacts DEF Advanced
<1>4. kv' = [i \in Rows |-> IF i =< prompt THEN "mine" ELSE "zero"]
  BY <1>1, <1>2, ActiveFacts DEF Written, OwnRows, Rows
<1>5. OwnRows(prompt)' /\ MemoryType'
  <2>1. kv' \in [Rows -> {"zero", "mine", "old"}]
    BY <1>4
  <2> QED BY <1>1, <1>2, <1>3, <1>4, <2>1, ActiveFacts DEF OwnRows, MemoryType
<1>6. ControllerType'
  BY <1>1, ActiveFacts DEF IInv, TypeOK, ControllerType
<1>7. RunnerType'
  BY <1>1, <1>2 DEF RunnerType
<1>8. Staged'
  BY <1>1, <1>2, <1>3, <1>5 DEF Staged, Quiet
<1>9. Prefilling' /\ Generating' /\ StageIsPrivate'
  BY <1>1, <1>2 DEF Prefilling, Generating, StageIsPrivate
<1>10. Fits' /\ ReuseIsEarned' /\ RouteWitnessComplete' /\ Boundary'
  BY <1>1, StaysActive
<1> QED BY <1>5, <1>6, <1>7, <1>8, <1>9, <1>10 DEF IInv, TypeOK

LEMMA FinishWholeStep ==
  ASSUME IInv, FinishWhole
  PROVE  IInv'
<1>1. /\ pc = "finish-whole" /\ pc' = "commit-whole" /\ mode = "whole"
      /\ stage' = "awaiting-commit"
      /\ basis' = IF Holds(prompt) THEN prompt ELSE Off
      /\ UNCHANGED <<engine, mode, prompt, maxNew, steps, emitted, armed, result,
                     poisoned, boundary, committed, retained, passes,
                     position, kv, home, slot, owner>>
  BY DEF FinishWhole, Whole, request, memory
<1>2. /\ MemoryType /\ RunnerType /\ armed /\ ~poisoned /\ owner = "home"
      /\ emitted = 0 /\ passes = 0 /\ position = 0 /\ home = prompt /\ OwnRows(prompt)
  BY <1>1 DEF IInv, TypeOK, Staged
<1>3. basis' = prompt /\ prompt \in Rows
  BY <1>1, <1>2, ActiveFacts DEF Holds, Live, OwnRows, Rows
<1>4. ControllerType'
  BY <1>1, <1>3 DEF IInv, TypeOK, ControllerType
<1>5. RunnerType' /\ MemoryType'
  BY <1>1, <1>2 DEF RunnerType, MemoryType
<1>6. Staged'
  BY <1>1, <1>2, <1>3 DEF Staged, OwnRows
<1>7. Prefilling' /\ Generating' /\ StageIsPrivate'
  BY <1>1, <1>2 DEF Prefilling, Generating, StageIsPrivate
<1>8. Fits' /\ ReuseIsEarned' /\ RouteWitnessComplete' /\ Boundary'
  BY <1>1, ActiveFacts, StaysActive
<1> QED BY <1>4, <1>5, <1>6, <1>7, <1>8 DEF IInv, TypeOK

LEMMA CommitWholeStep ==
  ASSUME IInv, CommitWhole
  PROVE  IInv'
<1>1. /\ pc = "commit-whole" /\ mode = "whole"
      /\ position' = prompt /\ passes' = passes + WholePasses
      /\ stage' = "idle" /\ armed' = FALSE
      /\ pc' \in {"mtp-init", "emit"}
      /\ UNCHANGED <<engine, mode, prompt, maxNew, steps, emitted, basis, result,
                     poisoned, boundary, committed, retained, kv, home, slot, owner>>
  BY DEF CommitWhole, Whole, request
<1>2. /\ MemoryType /\ RunnerType /\ ~poisoned /\ owner = "home" /\ basis = prompt
      /\ emitted = 0 /\ passes = 0 /\ position = 0 /\ home = prompt /\ OwnRows(prompt)
  BY <1>1 DEF IInv, TypeOK, Staged
<1>3. ControllerType'
  BY <1>1 DEF IInv, TypeOK, ControllerType
<1>4. RunnerType' /\ MemoryType'
  BY <1>1, <1>2, ActiveFacts DEF RunnerType, MemoryType
<1>5. Generating'
  <2>1. passes' = ExpectedPasses'
    BY <1>1, <1>2 DEF ExpectedPasses
  <2>2. OwnRows(position)' /\ Holds(position)'
    BY <1>1, <1>2, ActiveFacts DEF OwnRows, Holds, Live, Rows
  <2> QED BY <1>1, <1>2, <2>1, <2>2, ActiveFacts DEF Generating, Quiet
<1>6. Prefilling' /\ Staged' /\ StageIsPrivate'
  BY <1>1 DEF Prefilling, Staged, StageIsPrivate
<1>7. Fits' /\ ReuseIsEarned' /\ RouteWitnessComplete' /\ Boundary'
  BY <1>1, ActiveFacts, StaysActive
<1> QED BY <1>3, <1>4, <1>5, <1>6, <1>7 DEF IInv, TypeOK

LEMMA MtpInitializeStep ==
  ASSUME IInv, MtpInitialize
  PROVE  IInv'
<1>1. /\ pc = "mtp-init" /\ pc' = "emit" /\ boundary' = "uncertain" /\ committed' = 0
      /\ UNCHANGED <<engine, mode, prompt, maxNew, steps, emitted, basis, armed, result,
                     poisoned, stage, retained, passes, position, kv, home, slot, owner>>
  BY DEF MtpInitialize, Whole, Uncertain, request, memory
<1>2. ControllerType' /\ RunnerType' /\ MemoryType'
  BY <1>1 DEF IInv, TypeOK, ControllerType, RunnerType, MemoryType
<1>3. Generating'
  BY <1>1 DEF IInv, Generating, Quiet, Holds, Live, OwnRows, ExpectedPasses,
              PrefixLength
<1>4. Prefilling' /\ Staged' /\ StageIsPrivate'
  BY <1>1 DEF IInv, Prefilling, Staged, StageIsPrivate
<1>5. Fits' /\ ReuseIsEarned' /\ RouteWitnessComplete' /\ Boundary'
  BY <1>1, StaysActive
<1> QED BY <1>2, <1>3, <1>4, <1>5 DEF IInv, TypeOK

LEMMA EmitStep ==
  ASSUME IInv, Emit
  PROVE  IInv'
<1>1. /\ pc = "emit" /\ emitted' = emitted + 1
      /\ \/ pc' = "accept" /\ result' \in {"ok", "cancelled"}
         \/ pc' = "decode" /\ emitted + 1 < maxNew /\ result' = result
      /\ UNCHANGED <<engine, mode, prompt, maxNew, steps, basis, armed, poisoned,
                     boundary, committed, stage, retained, passes,
                     position, kv, home, slot, owner>>
  BY ActiveFacts DEF Emit, LengthReached, request, runner, memory
<1>2. /\ emitted < maxNew /\ position = prompt + emitted /\ Quiet
  BY <1>1 DEF IInv, Generating
<1>3. ControllerType'
  BY <1>1, <1>2, ActiveFacts DEF IInv, TypeOK, ControllerType
<1>4. RunnerType' /\ MemoryType'
  BY <1>1 DEF IInv, TypeOK, RunnerType, MemoryType
<1>5. Generating'
  <2>1. /\ passes' = ExpectedPasses' /\ Holds(position)' /\ Quiet'
        /\ ~engine'.mtp => owner' = "home" /\ OwnRows(position)'
    BY <1>1 DEF IInv, Generating, Quiet, Holds, Live, OwnRows, ExpectedPasses,
                PrefixLength
  <2> QED BY <1>1, <1>2, <2>1, ActiveFacts DEF Generating
<1>6. Prefilling' /\ Staged' /\ StageIsPrivate'
  BY <1>1, <1>2 DEF Prefilling, Staged, StageIsPrivate, Quiet
<1>7. Fits' /\ ReuseIsEarned' /\ RouteWitnessComplete' /\ Boundary'
  BY <1>1, ActiveFacts
  DEF IInv, Fits, ReuseIsEarned, CommittedCoversWrites, OnlySuccessGrantsReuse,
      RouteWitnessComplete, Boundary
<1> QED BY <1>3, <1>4, <1>5, <1>6, <1>7 DEF IInv, TypeOK

LEMMA DecodeStep ==
  ASSUME IInv, Decode
  PROVE  IInv'
<1>1. /\ pc = "decode" /\ pc' = "emit" /\ ~engine.mtp
      /\ StepRunner /\ basis' = home'
      /\ UNCHANGED <<engine, mode, prompt, maxNew, steps, emitted, armed, result, passes>>
  BY DEF Decode, request
<1>2. /\ MemoryType /\ RunnerType /\ Quiet /\ owner = "home" /\ OwnRows(position)
      /\ Holds(position) /\ passes = ExpectedPasses
      /\ position = prompt + emitted - 1 /\ emitted < maxNew
  BY <1>1 DEF IInv, TypeOK, Generating
<1>3. home = position
  BY <1>2 DEF Holds, Live
<1>4. /\ MemoryType' /\ OwnRows(position)' /\ position' = position + 1
      /\ home' = position' /\ owner' = "home"
  BY <1>1, <1>2, <1>3, ScalarStepMemory
<1>5. /\ RunnerType' /\ boundary' = "uncertain"
      /\ poisoned' \in BOOLEAN /\ ~poisoned' /\ stage' = "idle"
  BY <1>1, <1>2, ActiveFacts, ScalarStepRunner
<1>6. basis' = prompt + emitted /\ position' = prompt + emitted /\ basis' \in Rows
  BY <1>1, <1>2, <1>4, ActiveFacts DEF Rows
<1>7. ControllerType'
  BY <1>1, <1>6 DEF IInv, TypeOK, ControllerType
<1>8. Generating'
  <2>1. passes' = ExpectedPasses'
    BY <1>1, <1>2 DEF ExpectedPasses, PrefixLength
  <2>2. Holds(position)'
    BY <1>4 DEF Holds, Live, OwnRows, Rows, MemoryType
  <2> QED BY <1>1, <1>2, <1>4, <1>5, <1>6, <2>1, <2>2 DEF Generating, Quiet
<1>9. Prefilling' /\ Staged' /\ StageIsPrivate'
  BY <1>1, <1>5 DEF Prefilling, Staged, StageIsPrivate
<1>10. Fits' /\ ReuseIsEarned' /\ RouteWitnessComplete' /\ Boundary'
  BY <1>1, <1>5, StaysActive
<1> QED BY <1>4, <1>5, <1>7, <1>8, <1>9, <1>10 DEF IInv, TypeOK


(***************************************************************************)
(* Failures and cancellations                                              *)
(***************************************************************************)
\* fail_step and its siblings leave a poisoned runner at an uncertain boundary.
LEMMA FailRunnerStep ==
  ASSUME RunnerType, MemoryType, NEW last, FailRunner(last)
  PROVE  RunnerType' /\ MemoryType' /\ boundary' = "uncertain" /\ stage' = "idle"
<1>1. /\ poisoned' \in BOOLEAN /\ poisoned' /\ boundary' = "uncertain"
      /\ committed' = 0 /\ stage' = "idle" /\ retained' = 0 /\ home' = Off
      /\ UNCHANGED <<passes, position, slot, owner>>
  BY DEF FailRunner, Uncertain
<1>2. kv' \in [Rows -> {"zero", "mine", "old"}]
  BY DEF FailRunner, MemoryType, Written
<1>3. RunnerType'
  BY <1>1 DEF RunnerType
<1>4. MemoryType'
  BY <1>1, <1>2 DEF MemoryType
<1> QED BY <1>1, <1>3, <1>4

\* Giving up an active request, with or without the runner's knowledge.
LEMMA FailingStep ==
  ASSUME IInv, pc # "idle", pc' = "failing", result' \in {"error", "cancelled"},
         UNCHANGED <<engine, mode, prompt, maxNew, steps, emitted, basis>>,
         armed' \in BOOLEAN, RunnerType', MemoryType', boundary' = "uncertain",
         stage' = "idle" \/ (armed' /\ position' = 0)
  PROVE  IInv'
<1>1. ControllerType'
  BY DEF IInv, TypeOK, ControllerType
<1>2. Prefilling' /\ Staged' /\ Generating' /\ StageIsPrivate'
  BY DEF Prefilling, Staged, Generating, StageIsPrivate
<1>3. Fits' /\ ReuseIsEarned' /\ RouteWitnessComplete' /\ Boundary'
  BY DEF IInv, Fits, ReuseIsEarned, CommittedCoversWrites, OnlySuccessGrantsReuse,
         RouteWitnessComplete, Boundary
<1> QED BY <1>1, <1>2, <1>3 DEF IInv, TypeOK

LEMMA OperationFailsStep ==
  ASSUME IInv, OperationFails \/ MtpRoundFails \/ WholeOperationFails
                 \/ PrefillWholeFails
  PROVE  IInv'
<1>1. /\ pc # "idle" /\ pc' = "failing" /\ result' \in {"error", "cancelled"}
      /\ \E last : FailRunner(last)
      /\ UNCHANGED <<engine, mode, prompt, maxNew, steps, emitted, basis>>
  BY DEF OperationFails, MtpRoundFails, WholeOperationFails, PrefillWholeFails,
         Fails, Whole, request
<1>2. RunnerType' /\ MemoryType' /\ boundary' = "uncertain" /\ stage' = "idle"
  BY <1>1, FailRunnerStep DEF IInv, TypeOK
<1>3. armed' \in BOOLEAN
  BY DEF IInv, TypeOK, ControllerType, OperationFails, MtpRoundFails,
         WholeOperationFails, PrefillWholeFails
<1> QED BY <1>1, <1>2, <1>3, FailingStep

\* Neither the engine's own failure nor a cancellation before the commit tells
\* the runner: a stage it may have stays, and the armed guard knows of it.
LEMMA GivesUpStep ==
  ASSUME IInv, EngineFails \/ CancelWhole
  PROVE  IInv'
<1>1. /\ pc # "idle" /\ pc # "failing"
      /\ pc' = "failing" /\ result' \in {"error", "cancelled"}
      /\ UNCHANGED <<engine, mode, prompt, maxNew, steps, emitted, basis, armed,
                     poisoned, boundary, committed, stage, retained, passes,
                     position, kv, home, slot, owner>>
  BY DEF EngineFails, CancelWhole, Fails, Whole, request, runner, memory
<1>2. /\ armed' \in BOOLEAN /\ RunnerType' /\ MemoryType'
  BY <1>1 DEF IInv, TypeOK, ControllerType, RunnerType, MemoryType
<1>3. stage' = "idle" \/ (armed' /\ position' = 0)
  BY <1>1 DEF IInv, TypeOK, ControllerType, Prefilling, Staged, Generating, Quiet
<1> QED BY <1>1, <1>2, <1>3, ActiveFacts, FailingStep

LEMMA MtpCancelledStep ==
  ASSUME IInv, MtpCancelled
  PROVE  IInv'
<1>1. /\ pc = "decode" /\ pc' = "accept" /\ result' = "cancelled"
      /\ UNCHANGED <<engine, mode, prompt, maxNew, steps, emitted, basis, armed,
                     poisoned, boundary, committed, stage, retained, passes,
                     position, kv, home, slot, owner>>
  BY DEF MtpCancelled, request, runner, memory
<1>2. ControllerType' /\ RunnerType' /\ MemoryType'
  BY <1>1 DEF IInv, TypeOK, ControllerType, RunnerType, MemoryType
<1>3. Generating'
  BY <1>1 DEF IInv, Generating, Quiet, Holds, Live, OwnRows, ExpectedPasses,
              PrefixLength
<1>4. Prefilling' /\ Staged' /\ StageIsPrivate'
  BY <1>1 DEF IInv, Prefilling, Staged, StageIsPrivate
<1>5. Fits' /\ ReuseIsEarned' /\ RouteWitnessComplete' /\ Boundary'
  BY <1>1, ActiveFacts
  DEF IInv, Fits, ReuseIsEarned, CommittedCoversWrites, OnlySuccessGrantsReuse,
      RouteWitnessComplete, Boundary
<1> QED BY <1>2, <1>3, <1>4, <1>5 DEF IInv, TypeOK

LEMMA MtpRoundStep ==
  ASSUME IInv, NEW n \in 1 .. 2, NEW k \in 1 .. 2, MtpRound(n, k)
  PROVE  IInv'
<1>1. /\ pc = "decode" /\ engine.mtp
      /\ k =< n /\ position + n =< Capacity /\ emitted + k =< maxNew
      /\ boundary' = "uncertain" /\ committed' = 0
      /\ kv' = Written(position + 1, position + n) /\ slot' = Advanced(k)
      /\ owner' = "slot" /\ position' = position + k /\ emitted' = emitted + k
      /\ \/ pc' = "accept" /\ result' \in {"ok", "cancelled"}
         \/ pc' = "decode" /\ emitted + k < maxNew /\ result' = result
      /\ UNCHANGED <<engine, mode, prompt, maxNew, steps, basis, armed, poisoned,
                     stage, retained, passes, home>>
  BY ActiveFacts DEF MtpRound, Uncertain, LengthReached, request
<1>2. /\ MemoryType /\ Quiet /\ Holds(position) /\ passes = ExpectedPasses
      /\ position = prompt + emitted - 1
  BY <1>1 DEF IInv, TypeOK, Generating
<1>3. slot' = position + k /\ position + k \in 0 .. Capacity
  BY <1>1, <1>2, ActiveFacts DEF Advanced
<1>4. kv' = [i \in Rows |-> IF i \in position + 1 .. position + n
                              THEN "mine" ELSE kv[i]]
  BY <1>1 DEF Written
<1>5. kv' \in [Rows -> {"zero", "mine", "old"}]
  BY <1>2, <1>4 DEF MemoryType
<1>6. ControllerType'
  BY <1>1, ActiveFacts DEF IInv, TypeOK, ControllerType
<1>7. RunnerType'
  BY <1>1 DEF IInv, TypeOK, RunnerType
<1>8. MemoryType'
  BY <1>1, <1>2, <1>3, <1>5 DEF MemoryType
<1>9. Generating'
  <2>1. Holds(position)'
    <3>1. Live' = position + k
      BY <1>1, <1>3 DEF Live
    <3>2. ASSUME NEW i \in 1 .. position + k PROVE kv'[i] = "mine"
      <4>1. i \in Rows /\ (i \in 1 .. position \/ i \in position + 1 .. position + n)
        BY <1>1, ActiveFacts DEF Rows
      <4> QED BY <1>2, <1>4, <4>1 DEF Holds
    <3> QED BY <1>1, <3>1, <3>2 DEF Holds
  <2>2. passes' = ExpectedPasses'
    BY <1>1, <1>2 DEF ExpectedPasses, PrefixLength
  <2> QED BY <1>1, <1>2, <2>1, <2>2, ActiveFacts DEF Generating, Quiet
<1>10. Prefilling' /\ Staged' /\ StageIsPrivate'
  BY <1>1, <1>2 DEF Prefilling, Staged, StageIsPrivate, Quiet
<1>11. Fits' /\ ReuseIsEarned' /\ RouteWitnessComplete' /\ Boundary'
  BY <1>1, ActiveFacts
  DEF IInv, Fits, ReuseIsEarned, CommittedCoversWrites, OnlySuccessGrantsReuse,
      RouteWitnessComplete, Boundary
<1> QED BY <1>6, <1>7, <1>8, <1>9, <1>10, <1>11 DEF IInv, TypeOK

(***************************************************************************)
(* The end of a request                                                    *)
(***************************************************************************)
LEMMA RollbackStep ==
  ASSUME IInv, Rollback
  PROVE  IInv'
<1>1. /\ pc = "failing" /\ pc' = "idle"
      /\ UNCHANGED <<engine, mode, prompt, maxNew, steps, emitted, basis, result>>
  BY DEF Rollback, AfterRollback, request
<1>2. result \in {"error", "cancelled"} /\ boundary = "uncertain"
  BY <1>1 DEF IInv, Boundary
<1>3. CASE armed
  <2>1. /\ poisoned' \in BOOLEAN /\ ~poisoned' /\ retained' = 0 /\ stage' = "idle"
        /\ passes' = 0 /\ boundary' = "clean" /\ committed' = 0
        /\ armed' \in BOOLEAN /\ ~armed'
        /\ ResetMemory("full")
    BY <1>3 DEF Rollback, NeedsRollback, ResetRunner
  <2>2. /\ kv' = [i \in Rows |-> "zero"]
        /\ home' = 0 /\ slot' = Off /\ position' = 0 /\ owner' = "home"
    <3>1. \A i \in Rows : Cleared("full")[i] = "zero"
      BY DEF Cleared, Wiped, Rows
    <3>2. kv' = [i \in Rows |-> "zero"]
      BY <2>1, <3>1 DEF ResetMemory, LeftOver
    <3> QED BY <2>1, <3>2 DEF ResetMemory
  <2>3. ControllerType'
    BY <1>1, <2>1 DEF IInv, TypeOK, ControllerType
  <2>4. RunnerType'
    BY <2>1 DEF RunnerType
  <2>5. MemoryType'
    BY <2>2 DEF MemoryType
  <2>6. Fits' /\ Prefilling' /\ Staged' /\ Generating' /\ StageIsPrivate'
    BY <1>1, <2>1 DEF Fits, Prefilling, Staged, Generating, StageIsPrivate
  <2>7. Boundary' /\ ReuseIsEarned' /\ RouteWitnessComplete'
    BY <1>1, <1>2, <2>1, <2>2
    DEF Boundary, ReuseIsEarned, CommittedCoversWrites, OnlySuccessGrantsReuse,
        RouteWitnessComplete
  <2> QED BY <2>3, <2>4, <2>5, <2>6, <2>7 DEF IInv, TypeOK
<1>4. CASE ~armed
  <2>1. UNCHANGED <<armed, poisoned, boundary, committed, stage, retained, passes,
                    position, kv, home, slot, owner>>
    BY <1>4 DEF Rollback, NeedsRollback, runner, memory
  <2>2. ControllerType' /\ RunnerType' /\ MemoryType'
    BY <1>1, <2>1 DEF IInv, TypeOK, ControllerType, RunnerType, MemoryType
  <2>3. Fits' /\ Prefilling' /\ Staged' /\ Generating'
    BY <1>1 DEF Fits, Prefilling, Staged, Generating
  <2>4. StageIsPrivate'
    BY <1>1, <1>4, <2>1 DEF IInv, StageIsPrivate, Boundary
  <2>5. Boundary' /\ ReuseIsEarned' /\ RouteWitnessComplete'
    BY <1>1, <1>2, <2>1
    DEF Boundary, ReuseIsEarned, CommittedCoversWrites, OnlySuccessGrantsReuse,
        RouteWitnessComplete
  <2> QED BY <2>2, <2>3, <2>4, <2>5 DEF IInv, TypeOK
<1> QED BY <1>3, <1>4

LEMMA RollbackFailsStep ==
  ASSUME IInv, RollbackFails
  PROVE  IInv'
<1>1. /\ pc = "failing" /\ pc' = "idle" /\ result' = "error"
      /\ poisoned' \in BOOLEAN /\ poisoned'
      /\ position' \in {0, position} /\ owner' \in {"home", owner}
      /\ UNCHANGED <<engine, mode, prompt, maxNew, steps, emitted, basis, armed,
                     boundary, committed, stage, retained, passes, kv, home, slot>>
  BY DEF RollbackFails, request
<1>2. boundary = "uncertain"
  BY <1>1 DEF IInv, Boundary
<1>3. ControllerType'
  BY <1>1 DEF IInv, TypeOK, ControllerType
<1>4. RunnerType'
  BY <1>1 DEF IInv, TypeOK, RunnerType
<1>5. MemoryType'
  BY <1>1 DEF IInv, TypeOK, MemoryType
<1>6. Fits' /\ Prefilling' /\ Staged' /\ Generating'
  BY <1>1 DEF Fits, Prefilling, Staged, Generating
<1>7. StageIsPrivate'
  BY <1>1 DEF IInv, StageIsPrivate
<1>8. Boundary' /\ ReuseIsEarned' /\ RouteWitnessComplete'
  BY <1>1, <1>2
  DEF Boundary, ReuseIsEarned, CommittedCoversWrites, OnlySuccessGrantsReuse,
      RouteWitnessComplete
<1> QED BY <1>3, <1>4, <1>5, <1>6, <1>7, <1>8 DEF IInv, TypeOK

\* Only a profile without the MTP service commits a reuse boundary, and its rows
\* are exactly the first position ones.
LEMMA AcceptStep ==
  ASSUME IInv, Accept
  PROVE  IInv'
<1>1. /\ pc = "accept" /\ pc' = "idle"
      /\ UNCHANGED <<engine, mode, prompt, maxNew, steps, emitted, basis, armed,
                     poisoned, stage, retained, passes,
                     position, kv, home, slot, owner>>
  BY DEF Accept, request, memory
<1>2. /\ Quiet /\ passes = ExpectedPasses /\ boundary = "uncertain"
      /\ ~engine.mtp => OwnRows(position)
      /\ result \in {"ok", "cancelled"} /\ MemoryType /\ RunnerType
  BY <1>1 DEF IInv, TypeOK, Generating, Boundary
<1>3. /\ result' = result
      /\ \/ /\ boundary' = "committed" /\ committed' = position
            /\ engine.profile = "legacy" /\ result = "ok"
         \/ boundary' = "uncertain" /\ committed' \in {0, committed}
  BY <1>2 DEF Accept, CommitBoundary
<1>4. engine.profile = "legacy" => ~engine.mtp
  BY DEF IInv, TypeOK, ControllerType, Engines
<1>5. ControllerType'
  BY <1>1, <1>3 DEF IInv, TypeOK, ControllerType
<1>6. RunnerType'
  <2>1. boundary' \in {"clean", "committed", "uncertain"} /\ committed' \in 0 .. Capacity
    BY <1>2, <1>3 DEF RunnerType, MemoryType
  <2> QED BY <1>1, <1>2, <2>1 DEF RunnerType
<1>7. MemoryType'
  BY <1>1, <1>2 DEF MemoryType
<1>8. Fits' /\ Prefilling' /\ Staged' /\ Generating'
  BY <1>1 DEF Fits, Prefilling, Staged, Generating
<1>9. StageIsPrivate' /\ Boundary' /\ RouteWitnessComplete'
  BY <1>1, <1>2, <1>3
  DEF StageIsPrivate, Boundary, RouteWitnessComplete, Quiet
<1>10. ReuseIsEarned'
  <2>1. CommittedCoversWrites'
    <3>1. CASE boundary' = "committed"
      BY <1>1, <1>2, <1>3, <1>4, <3>1 DEF CommittedCoversWrites, OwnRows
    <3>2. CASE boundary' # "committed"
      BY <3>2 DEF CommittedCoversWrites
    <3> QED BY <3>1, <3>2
  <2>2. OnlySuccessGrantsReuse'
    BY <1>1, <1>2, <1>3 DEF OnlySuccessGrantsReuse, Quiet
  <2> QED BY <2>1, <2>2 DEF ReuseIsEarned
<1> QED BY <1>5, <1>6, <1>7, <1>8, <1>9, <1>10 DEF IInv, TypeOK

(***************************************************************************)
(* The theorems                                                            *)
(***************************************************************************)
LEMMA InitInvariant == Init => IInv
<1> SUFFICES ASSUME Init PROVE IInv
  OBVIOUS
<1>1. ControllerType
  <2>1. armed \in BOOLEAN /\ engine \in Engines /\ mode = "scalar"
    BY DEF Init
  <2>2. /\ pc = "idle" /\ result = "none" /\ prompt = 1 /\ maxNew = 1
        /\ steps = 0 /\ emitted = 0 /\ basis = Off
    BY DEF Init
  <2> QED BY <2>1, <2>2 DEF ControllerType, Modes
<1>2. RunnerType
  <2>1. poisoned \in BOOLEAN
    BY DEF Init
  <2>2. /\ boundary = "clean" /\ committed = 0 /\ stage = "idle"
        /\ retained = 0 /\ passes = 0
    BY DEF Init
  <2> QED BY <2>1, <2>2 DEF RunnerType
<1>3. MemoryType
  BY DEF Init, MemoryType
<1>4. Fits /\ Prefilling /\ Staged /\ Generating /\ Boundary
  BY DEF Init, Fits, Prefilling, Staged, Generating, Boundary
<1>5. StageIsPrivate /\ ReuseIsEarned /\ RouteWitnessComplete
  BY DEF Init, StageIsPrivate, ReuseIsEarned, CommittedCoversWrites,
         OnlySuccessGrantsReuse, RouteWitnessComplete
<1> QED BY <1>1, <1>2, <1>3, <1>4, <1>5 DEF IInv, TypeOK

LEMMA NextInvariant == IInv /\ [Next]_vars => IInv'
<1> SUFFICES ASSUME IInv, [Next]_vars PROVE IInv'
  OBVIOUS
<1>1. ASSUME NEW how \in Modes, NEW p \in Prompts, NEW n \in MaxNews,
             Begin(how, p, n) \/ BeginFails(how, p, n)
      PROVE  IInv'
  BY <1>1, BeginStep, BeginFailsStep
<1>2. CASE RunnerStep
  <2>1. ASSUME NEW n \in 1 .. 2, NEW k \in 1 .. 2, MtpRound(n, k) PROVE IInv'
    BY <2>1, MtpRoundStep
  <2> QED BY <1>2, <2>1, PrefillTileStep, PrefillStepStep, FinishStepStep,
             FinishRetainedStep, PrefillWholeStep, FinishWholeStep,
             CommitWholeStep, MtpInitializeStep, EmitStep, DecodeStep
          DEF RunnerStep
<1>3. CASE Failure
  BY <1>3, OperationFailsStep, GivesUpStep, MtpCancelledStep DEF Failure
<1>4. CASE End
  BY <1>4, RollbackStep, RollbackFailsStep, AcceptStep DEF End
<1>5. CASE UNCHANGED vars
  <2>1. UNCHANGED <<engine, pc, mode, prompt, maxNew, steps, emitted, basis, armed,
                    result, poisoned, boundary, committed, stage, retained, passes,
                    position, kv, home, slot, owner>>
    BY <1>5 DEF vars, request, runner, memory
  <2>2. TypeOK' /\ Fits' /\ Boundary' /\ StageIsPrivate' /\ RouteWitnessComplete'
    BY <2>1 DEF IInv, TypeOK, ControllerType, RunnerType, MemoryType, Fits,
                Boundary, StageIsPrivate, RouteWitnessComplete
  <2>3. ReuseIsEarned' /\ Staged'
    BY <2>1 DEF IInv, ReuseIsEarned, CommittedCoversWrites,
                OnlySuccessGrantsReuse, Staged, OwnRows
  <2>4. Prefilling'
    BY <2>1 DEF IInv, Prefilling, Accounted, Quiet, OwnRows, PrefixLength
  <2>5. Generating'
    BY <2>1 DEF IInv, Generating, Quiet, OwnRows, Holds, Live, PrefixLength,
                ExpectedPasses
  <2> QED BY <2>2, <2>3, <2>4, <2>5 DEF IInv
<1> QED BY <1>1, <1>2, <1>3, <1>4, <1>5 DEF Next

\* The inductive invariant holds of every behaviour: at every place of
\* run_generation_control the arena has got exactly as far as the request has.
THEOREM ArenaFollowsRequest == Spec => []IInv
BY InitInvariant, NextInvariant, PTL DEF Spec

\* Requests do not see each other: whatever select_request_reset decided not to
\* clear, begin_ordinary_request leaves a wiped arena and an unpoisoned runner,
\* and the rollback guard lets no stage outlive its request.
THEOREM Isolation == Spec => []RequestsAreIsolated
<1>1. IInv => RequestsAreIsolated
  <2> SUFFICES ASSUME IInv PROVE StartsWiped
    BY DEF IInv, RequestsAreIsolated
  <2> SUFFICES ASSUME pc = "prefill", steps = 0 PROVE StartsWiped
    BY DEF StartsWiped
  <2>1. /\ Quiet /\ owner = "home" /\ position = 0 /\ home = 0 /\ OwnRows(0)
        /\ retained = 0
    BY DEF IInv, Prefilling
  <2> QED BY <2>1 DEF StartsWiped, Quiet, OwnRows, Live, Rows
<1> QED BY <1>1, ArenaFollowsRequest, PTL

\* commit_ordinary_request_boundary: only a successful request lets the next one
\* clear less than the whole arena, and what is then cleared is all it wrote.
THEOREM ReuseAuthority == Spec => []ReuseIsEarned
<1>1. IInv => ReuseIsEarned
  BY DEF IInv
<1> QED BY <1>1, ArenaFollowsRequest, PTL

\* run_generation_control_impl: in all four prefill modes, for every tile
\* geometry, the emitted token is predicted from exactly the prompt and the
\* tokens before it, and the recorded passes are the ones it expects.
THEOREM Generation == Spec => []GenerationIsSound
<1>1. IInv => GenerationIsSound
  BY DEF IInv, GenerationIsSound, PredictsFromOwnPrefix, Generating
<1> QED BY <1>1, ArenaFollowsRequest, PTL
=============================================================================
