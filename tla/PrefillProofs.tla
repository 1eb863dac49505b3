---------------------------- MODULE PrefillProofs ----------------------------
(***************************************************************************)
(* Prefill, in three parts, for every geometry, every number of layers and *)
(* every size of the ring.                                                 *)
(*                                                                         *)
(* The plan: how it cuts a prompt.  The cutting loops of                   *)
(* prefill_execution_plan.cpp are recursive functions of the model.  What  *)
(* such a function computes is established by least counterexample: the    *)
(* set of arguments at which a claim fails has a least element, and the    *)
(* step before it holds.                                                   *)
(*                                                                         *)
(* The ledger (PrefillProgress), for every sequence of calls: the cursor   *)
(* agrees with the counters, and what is recorded is a schedule that       *)
(* DecoderDataflow allows.  The inductive invariant says exactly what the  *)
(* counters of a layer may be: below the cursor those of a finished layer, *)
(* above it none, and at the cursor those of a layer some panels of which  *)
(* are done.                                                               *)
(*                                                                         *)
(* The submission window (SubmissionWindow): the ring is the unfinished    *)
(* part of the stream, a cancellation stops the submissions within one     *)
(* window, and the ledger accepts the replay of what was executed.         *)
(***************************************************************************)
EXTENDS PrefillProgress, SubmissionWindow, WellFoundedInduction, TLAPS

USE GeometryAssumption, SupportedAssumption

(***************************************************************************)
(* Arithmetic                                                              *)
(***************************************************************************)
\* The least number principle, for a set.
LEMMA LeastNatural ==
  ASSUME NEW T, T \subseteq Nat, T # {}
  PROVE  \E x \in T : \A y \in T : x =< y
<1>1. \E x \in T : \A y \in T : <<y, x>> \notin OpToRel(<, Nat)
  BY NatLessThanWellFounded, WFMin
<1>2. \A x, y \in Nat : <<y, x>> \notin OpToRel(<, Nat) => x =< y
  BY DEF OpToRel
<1> QED BY <1>1, <1>2

\* Quotient and remainder are unique.
LEMMA DivMod ==
  ASSUME NEW b \in Nat \ {0}, NEW q \in Nat, NEW r \in 0 .. b - 1
  PROVE  (q * b + r) \div b = q /\ (q * b + r) % b = r
OBVIOUS

\* Counting modulo n, one step.
LEMMA NextModulo ==
  ASSUME NEW n \in Nat \ {0}, NEW k \in 0 .. n - 1
  PROVE  (k + 1) % n = IF k + 1 = n THEN 0 ELSE k + 1
OBVIOUS

\* What integer division leaves.
LEMMA DivBounds ==
  ASSUME NEW a \in Nat, NEW b \in Nat \ {0}
  PROVE  /\ a \div b \in Nat
         /\ (a \div b) * b =< a
         /\ a < (a \div b) * b + b
<1>1. a \div b \in Int
  OBVIOUS
<1>2. (a \div b) * b =< a
  OBVIOUS
<1>3. a < (a \div b) * b + b
  OBVIOUS
<1>4. ~ (a \div b < 0)
  OBVIOUS
<1> QED BY <1>1, <1>2, <1>3, <1>4

\* The division that sizes the arrays: the last unit is begun, none is missing.
LEMMA CeilDivBounds ==
  ASSUME NEW a \in Nat \ {0}, NEW b \in Nat \ {0}
  PROVE  /\ CeilDiv(a, b) \in Nat \ {0}
         /\ CeilDiv(a, b) * b - b < a /\ a =< CeilDiv(a, b) * b
<1> DEFINE q == CeilDiv(a, b)
<1>1. q \in Nat /\ q * b =< a + b - 1 /\ a + b - 1 < q * b + b
  <2>1. a + b - 1 \in Nat
    OBVIOUS
  <2> QED BY <2>1, DivBounds DEF CeilDiv
<1> HIDE DEF q
<1>2. q # 0
  BY <1>1
<1>3. q * b \in Nat
  BY <1>1
<1> QED BY <1>1, <1>2, <1>3 DEF q

(***************************************************************************)
(* Cutting a length down piece by piece                                    *)
(***************************************************************************)
Cuts(g, n, c, cut) ==
  /\ g \in [0 .. n -> Nat]
  /\ g[0] = c
  /\ \A k \in 1 .. n : g[k] = g[k - 1] - cut[g[k - 1]]

LEMMA CutsExist ==
  ASSUME NEW c \in Nat, NEW cut \in [Nat -> Nat], \A r \in Nat : cut[r] =< r
  PROVE  \A n \in Nat : \E g : Cuts(g, n, c, cut)
<1> DEFINE T == {n \in Nat : ~ \E g : Cuts(g, n, c, cut)}
<1> SUFFICES ASSUME T # {} PROVE FALSE
  OBVIOUS
<1>1. PICK m \in T : \A y \in T : m =< y
  <2>1. T \subseteq Nat
    OBVIOUS
  <2> HIDE DEF T
  <2> QED BY <2>1, LeastNatural
<1>2. m \in Nat /\ ~ \E g : Cuts(g, m, c, cut)
  OBVIOUS
<1>3. CASE m = 0
  <2>1. Cuts([i \in 0 .. 0 |-> c], 0, c, cut)
    BY DEF Cuts
  <2> QED BY <1>2, <1>3, <2>1
<1>4. CASE m # 0
  <2>1. m - 1 \in Nat /\ m - 1 \notin T
    BY <1>1, <1>2, <1>4
  <2>2. PICK g : Cuts(g, m - 1, c, cut)
    BY <2>1
  <2>3. g[m - 1] \in Nat /\ g[m - 1] - cut[g[m - 1]] \in Nat
    <3>1. g[m - 1] \in Nat
      BY <2>1, <2>2 DEF Cuts
    <3>2. cut[g[m - 1]] \in Nat /\ cut[g[m - 1]] =< g[m - 1]
      BY <3>1
    <3> QED BY <3>1, <3>2
  <2> DEFINE h == [i \in 0 .. m |-> IF i = m THEN g[m - 1] - cut[g[m - 1]] ELSE g[i]]
  <2>4. h \in [0 .. m -> Nat] /\ h[0] = c
    <3>1. \A i \in 0 .. m - 1 : g[i] \in Nat
      BY <2>2 DEF Cuts
    <3>2. g[0] = c
      BY <2>2 DEF Cuts
    <3> QED BY <1>2, <1>4, <2>3, <3>1, <3>2
  <2>5. ASSUME NEW k \in 1 .. m PROVE h[k] = h[k - 1] - cut[h[k - 1]]
    <3>1. h[k - 1] = g[k - 1]
      <4>1. k - 1 \in 0 .. m /\ k - 1 # m
        BY <1>2
      <4> QED BY <4>1
    <3>2. CASE k = m
      <4>1. h[m] = g[m - 1] - cut[g[m - 1]]
        BY <1>2
      <4>2. h[m - 1] = g[m - 1]
        BY <3>1, <3>2
      <4> HIDE DEF h
      <4> QED BY <3>2, <4>1, <4>2
    <3>3. CASE k # m
      BY <1>2, <2>2, <3>1, <3>3 DEF Cuts
    <3> QED BY <3>2, <3>3
  <2>6. Cuts(h, m, c, cut)
    <3> HIDE DEF h
    <3> QED BY <2>4, <2>5 DEF Cuts
  <2> QED BY <1>2, <2>6
<1> QED BY <1>3, <1>4

IsFunctionTo(n, f) == f = [k \in 0 .. n |-> f[k]]

\* f obeys the recursion of the first n cuts.
Solves(f, n, c, cut) ==
  /\ IsFunctionTo(n, f) /\ f[0] = c
  /\ \A k \in 1 .. n : f[k - 1] \in Nat => f[k] = f[k - 1] - cut[f[k - 1]]

\* The recursion has one solution.
LEMMA CutsUnique ==
  ASSUME NEW c \in Nat, NEW cut \in [Nat -> Nat], NEW n \in Nat,
         NEW g, Cuts(g, n, c, cut), NEW f, Solves(f, n, c, cut)
  PROVE  f = g
<1> DEFINE T == {k \in 0 .. n : f[k] # g[k]}
<1>1. ASSUME T # {} PROVE FALSE
  <2>1. PICK k \in T : \A y \in T : k =< y
    <3>1. T \subseteq Nat
      OBVIOUS
    <3> HIDE DEF T
    <3> QED BY <1>1, <3>1, LeastNatural
  <2>2. k \in 0 .. n /\ f[k] # g[k]
    BY <2>1
  <2>3. k # 0
    BY <2>2 DEF Cuts, Solves
  <2>4. k \in 1 .. n /\ k - 1 \in 0 .. n /\ ~ (k =< k - 1)
    BY <2>2, <2>3
  <2>5. f[k - 1] = g[k - 1] /\ g[k - 1] \in Nat
    <3>1. k - 1 \notin T
      <4> HIDE DEF T
      <4> QED BY <2>1, <2>4
    <3>2. g \in [0 .. n -> Nat]
      BY DEF Cuts
    <3> QED BY <2>4, <3>1, <3>2
  <2>6. g[k] = g[k - 1] - cut[g[k - 1]] /\ f[k] = f[k - 1] - cut[f[k - 1]]
    BY <2>4, <2>5 DEF Cuts, Solves
  <2> HIDE DEF T
  <2> QED BY <2>2, <2>5, <2>6
<1>2. \A k \in 0 .. n : f[k] = g[k]
  BY <1>1
<1>3. g = [k \in 0 .. n |-> g[k]]
  BY DEF Cuts
<1> QED BY <1>2, <1>3 DEF IsFunctionTo, Solves

\* A cut takes a full unit while two are left, all of what fits into one, and
\* in between leaves no more than one.
UnitCut(cut, u) ==
  /\ cut \in [Nat -> Nat]
  /\ \A r \in Nat :
       /\ cut[r] =< r
       /\ r =< u => cut[r] = r
       /\ u < r => cut[r] =< u /\ cut[r] < r
       /\ u < r /\ r < 2 * u => r - cut[r] =< u
       /\ r >= 2 * u => cut[r] = u

\* Balanced and the fixed panels of the prompt-wide tactics are such cuts.
LEMMA BalancedCut ==
  ASSUME NEW u \in Nat \ {0}
  PROVE  UnitCut([r \in Nat |-> Balanced(r, u)], u)
<1>1. ASSUME NEW r \in Nat
      PROVE  /\ Balanced(r, u) \in Nat /\ Balanced(r, u) =< r
             /\ r =< u => Balanced(r, u) = r
             /\ u < r => Balanced(r, u) =< u /\ Balanced(r, u) < r
             /\ u < r /\ r < 2 * u => r - Balanced(r, u) =< u
             /\ r >= 2 * u => Balanced(r, u) = u
  BY DEF Balanced
<1> DEFINE cut == [r \in Nat |-> Balanced(r, u)]
<1>2. cut \in [Nat -> Nat] /\ \A r \in Nat : cut[r] = Balanced(r, u)
  BY <1>1
<1> HIDE DEF cut
<1>3. UnitCut(cut, u)
  BY <1>1, <1>2 DEF UnitCut
<1> QED BY <1>3 DEF cut

LEMMA FixedCut ==
  ASSUME NEW u \in Nat \ {0}
  PROVE  UnitCut([r \in Nat |-> IF r < u THEN r ELSE u], u)
<1> DEFINE cut == [r \in Nat |-> IF r < u THEN r ELSE u]
<1>1. cut \in [Nat -> Nat] /\ \A r \in Nat : cut[r] = IF r < u THEN r ELSE u
  OBVIOUS
<1> HIDE DEF cut
<1>2. UnitCut(cut, u)
  BY <1>1 DEF UnitCut
<1> QED BY <1>2 DEF cut

\* After k cuts what is left is more than m - k - 1 units and at most m - k.
LEMMA CutsFit ==
  ASSUME NEW u \in Nat \ {0}, NEW m \in Nat, NEW c \in Nat, NEW cut,
         UnitCut(cut, u), NEW g, Cuts(g, m, c, cut), c =< m * u
  PROVE  /\ \A k \in 0 .. m : g[k] =< (m - k) * u
         /\ c > m * u - u => \A k \in 0 .. m : g[k] > (m - k) * u - u
<1>1. g[0] = c /\ \A k \in 0 .. m : g[k] \in Nat
  BY DEF Cuts
<1>2. ASSUME NEW k \in 1 .. m, NEW z, z = g[k - 1], NEW w, w = (m - k) * u
      PROVE  /\ z \in Nat /\ w \in Nat /\ g[k] = z - cut[z] /\ cut[z] \in 0 .. z
             /\ (m - (k - 1)) * u = w + u
             /\ w = 0 \/ w >= u
             /\ m - k = 1 => w = u
             /\ w > 0 /\ w < 2 * u => w = u
  <2>1. k - 1 \in 0 .. m /\ m - k \in Nat
    OBVIOUS
  <2>2. z \in Nat /\ g[k] = z - cut[z]
    BY <1>1, <1>2, <2>1 DEF Cuts
  <2>3. cut[z] \in 0 .. z
    BY <2>2 DEF UnitCut
  <2> DEFINE d == m - k
  <2>4. d \in Nat /\ w = d * u /\ (m - (k - 1)) * u = (d + 1) * u
    BY <1>2, <2>1
  <2> HIDE DEF d
  <2>5. w \in Nat /\ (d + 1) * u = w + u
    BY <2>4
  <2>6. w = 0 \/ w >= u
    BY <2>4
  <2>7. d = 1 => w = u
    BY <2>4
  <2>8. w > 0 /\ w < 2 * u => w = u
    <3>1. d >= 2 => w >= 2 * u
      BY <2>4
    <3>2. d = 0 => w = 0
      BY <2>4
    <3> QED BY <2>4, <2>7, <3>1, <3>2
  <2> QED BY <2>2, <2>3, <2>4, <2>5, <2>6, <2>7, <2>8 DEF d
<1>3. ASSUME NEW k \in 0 .. m, g[k] > (m - k) * u,
             \A j \in 0 .. m : j < k => g[j] =< (m - j) * u
      PROVE  FALSE
  <2>1. k # 0
    BY <1>1, <1>3
  <2> DEFINE z == g[k - 1]
             w == (m - k) * u
  <2>2. k \in 1 .. m /\ k - 1 \in 0 .. m /\ k - 1 < k
    BY <2>1
  <2>3. z =< w + u /\ z \in Nat /\ w \in Nat /\ g[k] = z - cut[z] /\ g[k] > w
        /\ (w = 0 \/ w >= u)
    BY <1>2, <1>3, <2>2
  <2> HIDE DEF z, w
  <2> QED BY <2>3 DEF UnitCut
<1>4. ASSUME NEW k \in 0 .. m, c > m * u - u, g[k] =< (m - k) * u - u,
             \A j \in 0 .. m : j < k => g[j] > (m - j) * u - u
      PROVE  FALSE
  <2>1. k # 0
    BY <1>1, <1>4
  <2> DEFINE z == g[k - 1]
             w == (m - k) * u
  <2>2. k \in 1 .. m /\ k - 1 \in 0 .. m /\ k - 1 < k
    BY <2>1
  <2>3. z > w /\ z \in Nat /\ w \in Nat /\ g[k] = z - cut[z] /\ g[k] =< w - u
        /\ (w = 0 \/ w >= u) /\ (w > 0 /\ w < 2 * u => w = u)
    BY <1>2, <1>4, <2>2
  <2> HIDE DEF z, w
  <2> QED BY <2>3 DEF UnitCut
<1>5. \A k \in 0 .. m : g[k] =< (m - k) * u
  <2> DEFINE T == {k \in 0 .. m : ~ (g[k] =< (m - k) * u)}
  <2> SUFFICES ASSUME T # {} PROVE FALSE
    OBVIOUS
  <2>1. PICK k \in T : \A y \in T : k =< y
    <3>1. T \subseteq Nat
      OBVIOUS
    <3> HIDE DEF T
    <3> QED BY <3>1, LeastNatural
  <2>2. \A j \in 0 .. m : j < k => g[j] =< (m - j) * u
    BY <2>1
  <2>3. g[k] > (m - k) * u
    BY <1>1, <2>1
  <2> QED BY <1>3, <2>2, <2>3
<1>6. ASSUME c > m * u - u PROVE \A k \in 0 .. m : g[k] > (m - k) * u - u
  <2> DEFINE T == {k \in 0 .. m : ~ (g[k] > (m - k) * u - u)}
  <2> SUFFICES ASSUME T # {} PROVE FALSE
    OBVIOUS
  <2>1. PICK k \in T : \A y \in T : k =< y
    <3>1. T \subseteq Nat
      OBVIOUS
    <3> HIDE DEF T
    <3> QED BY <3>1, LeastNatural
  <2>2. \A j \in 0 .. m : j < k => g[j] > (m - j) * u - u
    BY <2>1
  <2>3. g[k] =< (m - k) * u - u
    BY <1>1, <2>1
  <2> QED BY <1>4, <1>6, <2>2, <2>3
<1> QED BY <1>5, <1>6

\* What is left only ever shrinks.
LEMMA CutsShrink ==
  ASSUME NEW n \in Nat, NEW c \in Nat, NEW cut \in [Nat -> Nat],
         NEW g, Cuts(g, n, c, cut)
  PROVE  \A k \in 0 .. n : g[k] =< c
<1> DEFINE T == {k \in 0 .. n : ~ (g[k] =< c)}
<1> SUFFICES ASSUME T # {} PROVE FALSE
  OBVIOUS
<1>1. PICK k \in T : \A y \in T : k =< y
  <2>1. T \subseteq Nat
    OBVIOUS
  <2> HIDE DEF T
  <2> QED BY <2>1, LeastNatural
<1>2. k \in 0 .. n /\ ~ (g[k] =< c)
  BY <1>1
<1>3. k # 0
  BY <1>2 DEF Cuts
<1>4. k \in 1 .. n /\ k - 1 \in 0 .. n /\ ~ (k =< k - 1)
  BY <1>2, <1>3
<1>5. g[k - 1] =< c
  BY <1>1, <1>4
<1>6. g[k - 1] \in Nat /\ g[k] = g[k - 1] - cut[g[k - 1]]
  BY <1>4 DEF Cuts
<1> QED BY <1>2, <1>5, <1>6

\* What is left of a panel after k spans fits into the spans that follow: the
\* array of make_layer_major_prefill_arithmetic_span_ledger is long enough.
LEMMA SpansSuffice ==
  ASSUME NEW t \in Nat, t =< PanelTokens
  PROVE  SpanLedger(t)[MaxSpans] = 0
<1> DEFINE u == SegmentTokens
           m == MaxSpans
           cut == [r \in Nat |-> Balanced(r, u)]
           Body(g) == [k \in 0 .. m |-> IF k = 0 THEN t
                                        ELSE g[k - 1] - Balanced(g[k - 1], u)]
           f == SpanLedger(t)
<1>1. u \in Nat \ {0} /\ m \in Nat /\ t =< m * u
  <2>1. u \in Nat \ {0} /\ PanelTokens \in Nat \ {0}
    OBVIOUS
  <2> QED BY <2>1, CeilDivBounds DEF MaxSpans
<1>2. UnitCut(cut, u) /\ \A r \in Nat : cut[r] = Balanced(r, u)
  BY <1>1, BalancedCut
<1> HIDE DEF u, cut
<1>3. cut \in [Nat -> Nat] /\ \A r \in Nat : cut[r] =< r
  BY <1>2 DEF UnitCut
<1>4. PICK g : Cuts(g, m, t, cut)
  BY <1>1, <1>3, CutsExist
<1>5. g = Body(g)
  <2>1. g = [k \in 0 .. m |-> g[k]]
    BY <1>4 DEF Cuts
  <2>2. g[0] = t /\ \A k \in 1 .. m : g[k] = g[k - 1] - cut[g[k - 1]]
    BY <1>4 DEF Cuts
  <2>3. \A k \in 1 .. m : k - 1 \in 0 .. m /\ g[k - 1] \in Nat
    BY <1>1, <1>4 DEF Cuts
  <2>4. \A k \in 1 .. m : g[k] = g[k - 1] - Balanced(g[k - 1], u)
    BY <1>2, <2>2, <2>3
  <2>5. \A k \in 0 .. m : k = 0 \/ k \in 1 .. m
    BY <1>1
  <2> QED BY <2>1, <2>2, <2>4, <2>5
<1>6. f = Body(f)
  BY <1>5 DEF SpanLedger, u
<1> HIDE DEF f, m
<1>7. f = g
  <2>1. f[0] = t
    BY <1>1, <1>6
  <2>2. \A k \in 1 .. m : f[k] = f[k - 1] - Balanced(f[k - 1], u)
    BY <1>1, <1>6
  <2>3. IsFunctionTo(m, f)
    BY <1>6 DEF IsFunctionTo
  <2>4. \A k \in 1 .. m : f[k - 1] \in Nat => f[k] = f[k - 1] - cut[f[k - 1]]
    BY <1>2, <2>2
  <2>5. Solves(f, m, t, cut)
    BY <2>1, <2>3, <2>4 DEF Solves
  <2> QED BY <1>1, <1>3, <1>4, <2>5, CutsUnique
<1>8. \A k \in 0 .. m : g[k] =< (m - k) * u
  BY <1>1, <1>2, <1>4, CutsFit
<1>9. m \in 0 .. m /\ (m - m) * u = 0
  BY <1>1
<1>10. g[m] \in Nat /\ g[m] =< 0
  BY <1>4, <1>8, <1>9 DEF Cuts
<1> QED BY <1>7, <1>10 DEF f, m

(***************************************************************************)
(* The panels of a plan                                                    *)
(***************************************************************************)
UnitOf(tactic) == IF tactic \in FixedGeometry THEN FixedPanelTokens ELSE PanelTokens

\* The loop that cuts the prompt into panels is a sequence of such cuts.
LEMMA PanelsAreCuts ==
  ASSUME NEW tactic, NEW count \in Nat, count # 0
  PROVE  LET cut == [r \in Nat |-> NextPanelTokens(tactic, r)] IN
         /\ Cuts(RemainingAfter(tactic, count), PanelCount(tactic, count), count, cut)
         /\ UnitCut(cut, UnitOf(tactic))
         /\ PanelCount(tactic, count) \in Nat \ {0}
         /\ UnitOf(tactic) \in Nat \ {0}
         /\ count =< PanelCount(tactic, count) * UnitOf(tactic)
         /\ count > PanelCount(tactic, count) * UnitOf(tactic) - UnitOf(tactic)
<1> DEFINE u == UnitOf(tactic)
           m == PanelCount(tactic, count)
           cut == [r \in Nat |-> NextPanelTokens(tactic, r)]
           Body(g) == [k \in 0 .. m |->
                         IF k = 0 THEN count
                         ELSE g[k - 1] - NextPanelTokens(tactic, g[k - 1])]
           f == RemainingAfter(tactic, count)
<1>1. u \in Nat \ {0} /\ m \in Nat \ {0} /\ count =< m * u /\ count > m * u - u
  <2>1. u \in Nat \ {0}
    BY DEF UnitOf
  <2>2. m = CeilDiv(count, u)
    BY DEF PanelCount, UnitOf
  <2> QED BY <2>1, <2>2, CeilDivBounds
<1>2. UnitCut(cut, u)
  <2>1. CASE tactic \in FixedGeometry
    BY <1>1, <2>1, FixedCut DEF UnitOf, NextPanelTokens
  <2>2. CASE tactic \notin FixedGeometry
    BY <1>1, <2>2, BalancedCut DEF UnitOf, NextPanelTokens
  <2> QED BY <2>1, <2>2
<1>3. \A r \in Nat : cut[r] = NextPanelTokens(tactic, r)
  OBVIOUS
<1> HIDE DEF u, cut
<1>4. cut \in [Nat -> Nat] /\ \A r \in Nat : cut[r] =< r
  BY <1>2 DEF UnitCut
<1>5. PICK g : Cuts(g, m, count, cut)
  <2> HIDE DEF m
  <2> QED BY <1>1, <1>4, CutsExist
<1>6. g = Body(g)
  <2> HIDE DEF m
  <2>1. g = [k \in 0 .. m |-> g[k]]
    BY <1>5 DEF Cuts
  <2>2. g[0] = count /\ \A k \in 1 .. m : g[k] = g[k - 1] - cut[g[k - 1]]
    BY <1>5 DEF Cuts
  <2>3. \A k \in 1 .. m : k - 1 \in 0 .. m /\ g[k - 1] \in Nat
    BY <1>1, <1>5 DEF Cuts
  <2>4. \A k \in 1 .. m : g[k] = g[k - 1] - NextPanelTokens(tactic, g[k - 1])
    BY <1>3, <2>2, <2>3
  <2>5. \A k \in 0 .. m : k = 0 \/ k \in 1 .. m
    BY <1>1
  <2> QED BY <2>1, <2>2, <2>4, <2>5
<1>7. f = Body(f)
  BY <1>6 DEF RemainingAfter
<1> HIDE DEF f, m
<1>8. f = g
  <2>1. f[0] = count
    BY <1>1, <1>7
  <2>2. \A k \in 1 .. m : f[k] = f[k - 1] - NextPanelTokens(tactic, f[k - 1])
    BY <1>1, <1>7
  <2>3. IsFunctionTo(m, f)
    BY <1>7 DEF IsFunctionTo
  <2>4. \A k \in 1 .. m : f[k - 1] \in Nat => f[k] = f[k - 1] - cut[f[k - 1]]
    BY <1>3, <2>2
  <2>5. Solves(f, m, count, cut)
    BY <2>1, <2>3, <2>4 DEF Solves
  <2> QED BY <1>1, <1>4, <1>5, <2>5, CutsUnique
<1> QED BY <1>1, <1>2, <1>5, <1>8 DEF f, m, u, cut

\* A plan the ledger can be kept against.
PanelsCover(p) ==
  /\ p.panels[0].first = p.first
  /\ p.panels[p.panelCount - 1].end = p.final
  /\ \A k \in 0 .. p.panelCount - 1 :
       /\ p.panels[k].first \in p.first .. p.final
       /\ p.panels[k].end \in p.first .. p.final
       /\ p.panels[k].first < p.panels[k].end
       /\ k > 0 => p.panels[k].first = p.panels[k - 1].end

GoodPlan(p) ==
  /\ p.tactic \in Tactics
  /\ p.first \in Nat /\ p.final \in Nat /\ p.first < p.final
  /\ p.panelCount \in Nat \ {0}
  /\ PanelsCover(p)

\* build_unbound_layer_major_prefill_execution_plan: the number of panels is
\* computed by a division and the panels by a loop, and they agree.
LEMMA PlanIsGood ==
  ASSUME NEW tactic \in Tactics, NEW first \in Nat, NEW count \in Nat \ {0}
  PROVE  GoodPlan(Plan(tactic, first, count))
<1> DEFINE u == UnitOf(tactic)
           m == PanelCount(tactic, count)
           left == RemainingAfter(tactic, count)
           p == Plan(tactic, first, count)
<1>1. PICK cut : /\ Cuts(left, m, count, cut) /\ UnitCut(cut, u)
                 /\ m \in Nat \ {0} /\ u \in Nat \ {0}
                 /\ count =< m * u /\ count > m * u - u
  BY PanelsAreCuts
<1>2. /\ p.tactic = tactic /\ p.first = first /\ p.final = first + count
      /\ p.panelCount = m
      /\ \A k \in 0 .. m - 1 : /\ p.panels[k].first = first + count - left[k]
                               /\ p.panels[k].end = first + count - left[k + 1]
  BY DEF Plan, PanelsOf
<1> HIDE DEF u, m, left, p
<1>3. \A k \in 0 .. m : left[k] =< (m - k) * u /\ left[k] > (m - k) * u - u
  BY <1>1, CutsFit
<1>4. left[0] = count /\ \A k \in 0 .. m : left[k] \in Nat
  BY <1>1 DEF Cuts
<1>5. left[m] = 0
  <2>1. m \in 0 .. m /\ (m - m) * u = 0
    BY <1>1
  <2>2. left[m] \in Nat /\ left[m] =< 0
    BY <1>3, <1>4, <2>1
  <2> QED BY <2>2
<1>6. ASSUME NEW k \in 0 .. m - 1
      PROVE  /\ left[k] \in 1 .. count /\ left[k + 1] \in 0 .. count
             /\ left[k + 1] < left[k]
  <2>1. k \in 0 .. m /\ k + 1 \in 1 .. m /\ k + 1 \in 0 .. m /\ m - k \in Nat \ {0}
    BY <1>1
  <2>2. (m - k) * u >= u
    BY <1>1, <2>1
  <2>3. left[k] > (m - k) * u - u /\ left[k] \in Nat /\ left[k + 1] \in Nat
    BY <1>3, <1>4, <2>1
  <2>4. left[k] > 0
    <3>1. (m - k) * u \in Nat
      BY <1>1, <2>1
    <3> QED BY <1>1, <2>2, <2>3, <3>1
  <2>5. left[k] =< count /\ left[k + 1] =< count
    BY <1>1, <2>1, CutsShrink DEF UnitCut
  <2>6. left[k + 1] = left[k] - cut[left[k]]
    <3>1. \A i \in 1 .. m : left[i] = left[i - 1] - cut[left[i - 1]]
      BY <1>1 DEF Cuts
    <3>2. (k + 1) - 1 = k
      BY <2>1
    <3> QED BY <2>1, <3>1, <3>2
  <2>7. cut[left[k]] > 0 /\ cut[left[k]] \in Nat
    BY <1>1, <2>3, <2>4 DEF UnitCut
  <2> QED BY <2>3, <2>4, <2>5, <2>6, <2>7
<1>7. PanelsCover(p)
  <2>1. p.panels[0].first = p.first
    BY <1>1, <1>2, <1>4
  <2>2. p.panels[p.panelCount - 1].end = p.final
    BY <1>1, <1>2, <1>5
  <2>3. ASSUME NEW k \in 0 .. m - 1
        PROVE  /\ p.panels[k].first \in p.first .. p.final
               /\ p.panels[k].end \in p.first .. p.final
               /\ p.panels[k].first < p.panels[k].end
               /\ k > 0 => p.panels[k].first = p.panels[k - 1].end
    <3>1. k > 0 => k - 1 \in 0 .. m - 1 /\ (k - 1) + 1 = k
      BY <1>1
    <3> QED BY <1>2, <1>6, <3>1
  <2> QED BY <1>2, <2>1, <2>2, <2>3 DEF PanelsCover
<1> QED BY <1>1, <1>2, <1>7 DEF GoodPlan, p

\* "Preserve full-capacity work while preventing a final one-token panel": of
\* more than one balanced panel none is shorter than half a panel, and all but
\* the last two are full.
LEMMA BalancedPanels ==
  ASSUME NEW tactic \in Tactics, tactic \notin FixedGeometry,
         NEW first \in Nat, NEW count \in Nat \ {0}
  PROVE  LET p == Plan(tactic, first, count) IN
         p.panelCount > 1 =>
           \A k \in 0 .. p.panelCount - 1 :
             LET tokens == p.panels[k].end - p.panels[k].first
             IN /\ tokens =< PanelTokens
                /\ 2 * tokens >= PanelTokens
                /\ k < p.panelCount - 2 => tokens = PanelTokens
<1> DEFINE u == PanelTokens
           m == PanelCount(tactic, count)
           left == RemainingAfter(tactic, count)
           p == Plan(tactic, first, count)
           cut == [r \in Nat |-> NextPanelTokens(tactic, r)]
<1>1. /\ Cuts(left, m, count, cut) /\ UnitCut(cut, u)
      /\ m \in Nat \ {0} /\ u \in Nat \ {0}
      /\ count =< m * u /\ count > m * u - u
  BY PanelsAreCuts DEF UnitOf
<1>2. /\ p.panelCount = m
      /\ \A k \in 0 .. m - 1 : /\ p.panels[k].first = first + count - left[k]
                               /\ p.panels[k].end = first + count - left[k + 1]
  BY DEF Plan, PanelsOf
<1>3. \A r \in Nat : cut[r] = Balanced(r, u)
  BY DEF NextPanelTokens
<1> HIDE DEF u, m, left, p, cut
<1>4. \A k \in 0 .. m : left[k] =< (m - k) * u /\ left[k] > (m - k) * u - u
  BY <1>1, CutsFit
<1>5. \A k \in 0 .. m : left[k] \in Nat
  BY <1>1 DEF Cuts
<1>6. ASSUME NEW k \in 0 .. m - 1
      PROVE  /\ left[k + 1] = left[k] - Balanced(left[k], u)
             /\ left[k] \in Nat /\ Balanced(left[k], u) \in 0 .. u
  <2>1. k \in 0 .. m /\ k + 1 \in 1 .. m /\ (k + 1) - 1 = k
    BY <1>1
  <2>2. left[k] \in Nat /\ left[k + 1] = left[k] - cut[left[k]]
    BY <1>1, <2>1 DEF Cuts
  <2>3. cut[left[k]] \in 0 .. u
    BY <1>1, <2>2 DEF UnitCut
  <2> QED BY <1>3, <2>2, <2>3
<1>7. ASSUME m > 1, NEW k \in 0 .. m - 1
      PROVE  /\ 2 * Balanced(left[k], u) >= u
             /\ k < m - 2 => Balanced(left[k], u) = u
  <2>1. CASE k < m - 2
    <3>1. k \in 0 .. m /\ m - k \in Nat /\ m - k >= 3
      BY <1>1, <2>1
    <3>2. (m - k) * u >= 3 * u
      BY <1>1, <3>1
    <3>3. left[k] >= 2 * u
      BY <1>1, <1>4, <1>5, <3>1, <3>2
    <3> QED BY <1>1, <1>6, <3>3 DEF Balanced
  <2>2. CASE k = m - 2
    <3>1. k \in 0 .. m /\ (m - k) * u = 2 * u
      BY <1>1, <2>2
    <3>2. left[k] > (m - k) * u - u /\ left[k] \in Nat
      BY <1>4, <1>5, <3>1
    <3>3. left[k] > u
      BY <1>1, <3>1, <3>2
    <3> QED BY <1>1, <1>6, <2>2, <3>3 DEF Balanced
  <2>3. CASE k = m - 1
    <3>1. /\ k - 1 \in 0 .. m /\ (k - 1) + 1 = k /\ m - (k - 1) = 2
          /\ k \in 0 .. m /\ m - k = 1 /\ k - 1 \in 0 .. m - 1
      BY <1>1, <1>7, <2>3
    <3>2. left[k - 1] > u /\ left[k - 1] =< 2 * u
      BY <1>1, <1>4, <1>5, <3>1
    <3>3. left[k] = left[k - 1] - Balanced(left[k - 1], u)
      BY <1>6, <3>1
    <3>4. left[k] =< u
      <4>1. left[k] =< (m - k) * u /\ left[k] \in Nat
        BY <1>4, <1>5, <3>1
      <4>2. (m - k) * u = u
        BY <1>1, <3>1
      <4> QED BY <4>1, <4>2
    <3>5. 2 * left[k] >= u
      <4>1. ASSUME NEW z \in Nat, z > u, z =< 2 * u
            PROVE  Balanced(z, u) \in Nat /\ 2 * Balanced(z, u) =< z + 1
        BY <1>1, <4>1 DEF Balanced
      <4> QED BY <1>1, <1>5, <3>1, <3>2, <3>3, <4>1
    <3> QED BY <1>1, <1>6, <2>3, <3>4, <3>5 DEF Balanced
  <2> QED BY <1>1, <2>1, <2>2, <2>3
<1>8. ASSUME m > 1, NEW k \in 0 .. m - 1
      PROVE  p.panels[k].end - p.panels[k].first = Balanced(left[k], u)
  <2>1. k \in 0 .. m /\ k + 1 \in 0 .. m
    BY <1>1
  <2> QED BY <1>2, <1>5, <1>6, <2>1
<1> QED BY <1>1, <1>2, <1>6, <1>7, <1>8 DEF p, u

-----------------------------------------------------------------------------
(***************************************************************************)
(* The ledger under arbitrary calls                                        *)
(***************************************************************************)
Counters(l, panels, mlp, fill, core, drain) ==
  /\ progress.panels[l] = panels /\ progress.mlp[l] = mlp
  /\ progress.fill[l] = fill /\ progress.core[l] = core
  /\ progress.drain[l] = drain

Fresh(l) == progress.end[l] = plan.first /\ Counters(l, 0, 0, 0, 0, 0)

Finished(l) ==
  /\ progress.end[l] = plan.final
  /\ IF plan.tactic = WholeCore
       THEN Counters(l, plan.panelCount, 1, plan.panelCount, 1, plan.panelCount)
       ELSE Counters(l, plan.panelCount, MlpPhases(plan), 0, 0, 0)

\* How far the first k panels reach, and where the panel cursor then is.
CutAt(k) == IF k = plan.panelCount THEN plan.final ELSE plan.panels[k].first
AtPanel(k) == progress.panel = IF k = plan.panelCount THEN 0 ELSE k

\* The layer under the cursor, with k panels done.
PerPanelAt(l, k) ==
  k < plan.panelCount /\ Counters(l, k, k, 0, 0, 0) /\ progress.end[l] = CutAt(k)
LayerWideAt(l, k) ==
  Counters(l, k, 0, 0, 0, 0) /\ progress.end[l] = CutAt(k)
FillingAt(l, k) ==
  Counters(l, 0, 0, k, 0, 0) /\ progress.end[l] = plan.first
DrainingAt(l, k) ==
  Counters(l, k, 0, plan.panelCount, 1, k) /\ progress.end[l] = plan.final

Current(l) ==
  \E k \in 0 .. plan.panelCount :
    /\ AtPanel(k)
    /\ \/ plan.tactic = "per-panel" /\ PerPanelAt(l, k)
       \/ plan.tactic = LayerWide /\ LayerWideAt(l, k)
       \/ plan.tactic = WholeCore /\ (FillingAt(l, k) \/ DrainingAt(l, k))
       \/ plan.tactic \in AtomicTactics /\ k = 0 /\ Fresh(l)

Counter == [LayerSet -> Nat]

LedgerType ==
  /\ progress \in [end : Counter, panels : Counter, mlp : Counter, fill : Counter,
                   core : Counter, drain : Counter, layer : 0 .. Layers, panel : Nat,
                   ready : BOOLEAN, committed : BOOLEAN]
  /\ progress.panel \in 0 .. plan.panelCount - 1
  /\ error \in {"none", "out-of-order", "layer-range", "panel-range",
                "receipt", "incomplete", "already-committed", "not-ready"}

\* The inductive invariant.
LedgerInv ==
  /\ plan \in Plans
  /\ LedgerType
  /\ progress.layer = Layers => progress.panel = 0
  /\ \A l \in LayerSet : /\ l < progress.layer => Finished(l)
                         /\ l = progress.layer => Current(l)
                         /\ l > progress.layer => Fresh(l)

-----------------------------------------------------------------------------
\* An admitted plan covers its prompt.
LEMMA PlansAreGood ==
  ASSUME NEW p \in Plans
  PROVE  /\ GoodPlan(p)
         /\ p.tactic \notin FixedGeometry /\ p.panelCount > 1 =>
              \A k \in 0 .. p.panelCount - 1 :
                LET tokens == p.panels[k].end - p.panels[k].first
                IN /\ tokens =< PanelTokens
                   /\ 2 * tokens >= PanelTokens
                   /\ k < p.panelCount - 2 => tokens = PanelTokens
<1>1. PICK y \in Tactics \X (0 .. Capacity) \X (1 .. Capacity) :
        p = Plan(y[1], y[2], y[3])
  BY DEF Plans
<1>2. y[1] \in Tactics /\ y[2] \in Nat /\ y[3] \in Nat \ {0}
  BY <1>1
<1>3. GoodPlan(p)
  BY <1>1, <1>2, PlanIsGood
<1>4. p.tactic = y[1]
  BY <1>1 DEF Plan
<1> QED BY <1>1, <1>2, <1>3, <1>4, BalancedPanels

\* Everything the ledger's soundness says follows.
LEMMA LedgerInvSuffices == LedgerInv => LedgerIsSound
<1> SUFFICES ASSUME LedgerInv PROVE LedgerIsSound
  OBVIOUS
<1> DEFINE n == plan.panelCount
<1>1. GoodPlan(plan)
  BY PlansAreGood DEF LedgerInv
<1>2. n \in Nat \ {0} /\ plan.first \in Nat /\ plan.final \in Nat /\ plan.first < plan.final
  BY <1>1 DEF GoodPlan
<1>3. PanelsCoverThePrompt
  BY <1>1 DEF GoodPlan, PanelsCover, PanelsCoverThePrompt
<1>4. NoScalarTail
  BY PlansAreGood DEF LedgerInv, NoScalarTail
<1>5. SpansFit
  <2>1. ASSUME NEW k \in 0 .. n - 1
        PROVE  plan.panels[k].end - plan.panels[k].first \in Nat
    BY <1>1, <1>2 DEF GoodPlan, PanelsCover
  <2> QED BY <2>1, SpansSuffice DEF SpansFit
<1>6. CursorAgrees
  <2> SUFFICES ASSUME NEW l \in LayerSet
               PROVE  /\ l < progress.layer =>
                           /\ progress.end[l] = plan.final
                           /\ progress.panels[l] = plan.panelCount
                           /\ progress.mlp[l] = MlpPhases(plan)
                      /\ l > progress.layer =>
                           /\ progress.end[l] = plan.first
                           /\ \A c \in {progress.panels, progress.mlp, progress.fill,
                                        progress.core, progress.drain} : c[l] = 0
    BY DEF CursorAgrees
  <2>1. l < progress.layer => Finished(l)
    BY DEF LedgerInv
  <2>2. l > progress.layer => Fresh(l)
    BY DEF LedgerInv
  <2> QED BY <2>1, <2>2 DEF Finished, Fresh, Counters, MlpPhases, WholeCore
<1>7. LedgerTypeOK
  <2>1. ASSUME NEW l \in LayerSet PROVE progress.end[l] \in plan.first .. plan.final
    <3>1. Finished(l) \/ Fresh(l) \/ Current(l)
      BY DEF LedgerInv, LedgerType, LayerSet
    <3>2. \A k \in 0 .. n : CutAt(k) \in plan.first .. plan.final
      BY <1>1, <1>2 DEF CutAt, GoodPlan, PanelsCover
    <3>3. Current(l) => \/ progress.end[l] \in {plan.first, plan.final}
                        \/ \E k \in 0 .. n : progress.end[l] = CutAt(k)
      BY DEF Current, PerPanelAt, LayerWideAt, FillingAt, DrainingAt, Fresh
    <3> QED BY <1>2, <3>1, <3>2, <3>3 DEF Finished, Fresh
  <2> QED BY <2>1 DEF LedgerTypeOK, LedgerInv, LedgerType
<1> QED BY <1>3, <1>4, <1>5, <1>6, <1>7 DEF LedgerIsSound

(***************************************************************************)
(* One call                                                                *)
(***************************************************************************)
\* What the ledger keeps of a layer.
Row(l) == <<progress.end[l], progress.panels[l], progress.mlp[l], progress.fill[l],
            progress.core[l], progress.drain[l]>>

\* The ledger is a record of counters and cursors.
LEMMA LedgerIsRecord ==
  ASSUME LedgerInv
  PROVE  progress \in [end : Counter, panels : Counter, mlp : Counter, fill : Counter,
                       core : Counter, drain : Counter, layer : 0 .. Layers, panel : Nat,
                       ready : BOOLEAN, committed : BOOLEAN]
  BY DEF LedgerInv, LedgerType

\* Types and the plan's geometry, in the form the steps use.
LEMMA LedgerFacts ==
  ASSUME LedgerInv
  PROVE  /\ plan.tactic \in Tactics /\ plan.panelCount \in Nat \ {0}
         /\ plan.first \in Nat /\ plan.final \in Nat /\ plan.first < plan.final
         /\ \A k \in 0 .. plan.panelCount : CutAt(k) \in plan.first .. plan.final
         /\ CutAt(0) = plan.first
         /\ \A k \in 0 .. plan.panelCount - 1 :
              /\ plan.panels[k].first = CutAt(k)
              /\ plan.panels[k].end = CutAt(k + 1)
              /\ CutAt(k) < CutAt(k + 1)
         /\ Layers \in Nat \ {0}
<1> DEFINE n == plan.panelCount
<1>1. GoodPlan(plan)
  BY PlansAreGood DEF LedgerInv
<1>2. n \in Nat \ {0} /\ plan.first \in Nat /\ plan.final \in Nat
  BY <1>1 DEF GoodPlan
<1>3. ASSUME NEW k \in 0 .. n - 1
      PROVE  plan.panels[k].first = CutAt(k) /\ plan.panels[k].end = CutAt(k + 1)
  <2>1. plan.panels[k].first = CutAt(k)
    BY <1>2 DEF CutAt
  <2>2. CASE k = n - 1
    BY <1>1, <1>2, <2>2 DEF CutAt, GoodPlan, PanelsCover
  <2>3. CASE k # n - 1
    <3>1. k + 1 \in 0 .. n - 1 /\ k + 1 > 0 /\ (k + 1) - 1 = k
      BY <1>2, <2>3
    <3>2. plan.panels[k + 1].first = plan.panels[k].end
      BY <1>1, <3>1 DEF GoodPlan, PanelsCover
    <3> QED BY <1>2, <2>1, <3>1, <3>2 DEF CutAt
  <2> QED BY <2>1, <2>2, <2>3
<1>4. \A k \in 0 .. n - 1 : CutAt(k) < CutAt(k + 1)
  BY <1>1, <1>3 DEF GoodPlan, PanelsCover
<1>5. \A k \in 0 .. n : CutAt(k) \in plan.first .. plan.final
  BY <1>1, <1>2 DEF CutAt, GoodPlan, PanelsCover
<1>6. CutAt(0) = plan.first
  BY <1>1, <1>2 DEF CutAt, GoodPlan, PanelsCover
<1>7. plan.tactic \in Tactics /\ plan.first < plan.final
  BY <1>1 DEF GoodPlan
<1>9. Layers \in Nat \ {0}
  BY GeometryAssumption
<1> HIDE DEF n
<1>8. \A k \in 0 .. n - 1 : /\ plan.panels[k].first = CutAt(k)
                            /\ plan.panels[k].end = CutAt(k + 1)
                            /\ CutAt(k) < CutAt(k + 1)
  BY <1>3, <1>4
<1> QED BY <1>2, <1>5, <1>6, <1>7, <1>8, <1>9 DEF n

\* An untouched layer under the cursor has no panel done.
LEMMA FreshIsCurrent ==
  ASSUME LedgerInv, NEW l, Fresh(l), progress.panel = 0
  PROVE  Current(l)
BY LedgerFacts
DEF Fresh, Current, AtPanel, PerPanelAt, LayerWideAt, FillingAt, Tactics, FixedGeometry

\* A call that changes one layer's row, and moves the cursor when it is finished.
LEMMA LocalStep ==
  ASSUME LedgerInv, plan' = plan, LedgerType', NEW l \in LayerSet,
         l = progress.layer, \A j \in LayerSet : j # l => UNCHANGED Row(j),
         \/ progress'.layer = l /\ Current(l)'
         \/ progress'.layer = l + 1 /\ progress'.panel = 0 /\ Finished(l)'
  PROVE  LedgerInv'
<1>1. ASSUME NEW j \in LayerSet, j < l PROVE Finished(j)'
  <2>1. Finished(j) /\ UNCHANGED Row(j)
    BY <1>1 DEF LedgerInv, LayerSet
  <2> QED BY <2>1 DEF Row, Finished, Counters
<1>2. ASSUME NEW j \in LayerSet, j > l PROVE Fresh(j)'
  <2>1. Fresh(j) /\ UNCHANGED Row(j)
    BY <1>2 DEF LedgerInv, LayerSet
  <2> QED BY <2>1 DEF Row, Fresh, Counters
<1>3. CASE progress'.layer = l /\ Current(l)'
  BY <1>1, <1>2, <1>3 DEF LedgerInv, LayerSet
<1>4. CASE progress'.layer = l + 1 /\ progress'.panel = 0 /\ Finished(l)'
  <2>1. ASSUME NEW j \in LayerSet, j = l + 1 PROVE Current(j)'
    <3>1. Fresh(j)'
      BY <1>2, <2>1 DEF LayerSet
    <3> QED BY <1>4, <3>1, LedgerFacts
            DEF Fresh, Current, AtPanel, PerPanelAt, LayerWideAt, FillingAt, CutAt, Tactics,
                FixedGeometry
  <2> QED BY <1>1, <1>2, <1>4, <2>1 DEF LedgerInv, LayerSet
<1> QED BY <1>3, <1>4

\* A refused call, or one that only sets a flag.
LEMMA FlagStep ==
  ASSUME LedgerInv, plan' = plan, LedgerType',
         UNCHANGED <<progress.layer, progress.panel>>,
         \A j \in LayerSet : UNCHANGED Row(j)
  PROVE  LedgerInv'
<1>1. ASSUME NEW j \in LayerSet
      PROVE  /\ Finished(j) => Finished(j)'
             /\ Fresh(j) => Fresh(j)'
             /\ Current(j) => Current(j)'
  <2>1. UNCHANGED Row(j)
    OBVIOUS
  <2>2. /\ Finished(j) => Finished(j)'
        /\ Fresh(j) => Fresh(j)'
    BY <2>1 DEF Row, Finished, Fresh, Counters
  <2>3. \A k \in 0 .. plan.panelCount :
          /\ AtPanel(k) => AtPanel(k)'
          /\ PerPanelAt(j, k) => PerPanelAt(j, k)'
          /\ LayerWideAt(j, k) => LayerWideAt(j, k)'
          /\ FillingAt(j, k) => FillingAt(j, k)'
          /\ DrainingAt(j, k) => DrainingAt(j, k)'
    BY <2>1 DEF Row, AtPanel, PerPanelAt, LayerWideAt, FillingAt, DrainingAt, CutAt, Counters
  <2>4. Current(j) => Current(j)'
    BY <2>2, <2>3 DEF Current
  <2> QED BY <2>2, <2>4
<1> QED BY <1>1 DEF LedgerInv

\* A recorded call: the new row of layer l, and the new cursor.
Moves(l, end, panels, mlp, fill, core, drain, layer, panel) ==
  /\ l \in LayerSet /\ l = progress.layer /\ ~progress.committed
  /\ progress' = [progress EXCEPT
                    !.end[l] = end, !.panels[l] = panels, !.mlp[l] = mlp,
                    !.fill[l] = fill, !.core[l] = core, !.drain[l] = drain,
                    !.layer = layer, !.panel = panel]
  /\ plan' = plan /\ error' = "none"

Refuses == progress' = progress /\ plan' = plan /\ LedgerType'

InRange(end, panels, mlp, fill, core, drain, layer, panel) ==
  /\ end \in Nat /\ panels \in Nat /\ mlp \in Nat
  /\ fill \in Nat /\ core \in Nat /\ drain \in Nat
  /\ layer \in 0 .. Layers /\ panel \in 0 .. plan.panelCount - 1

Moved(l, end, panels, mlp, fill, core, drain, layer, panel) ==
  /\ l \in LayerSet /\ l = progress.layer /\ plan' = plan
  /\ LedgerType'
  /\ progress'.end = [progress.end EXCEPT ![l] = end]
  /\ progress'.end[l] = end
  /\ Counters(l, panels, mlp, fill, core, drain)'
  /\ \A j \in LayerSet : j # l => UNCHANGED Row(j)
  /\ progress'.layer = layer /\ progress'.panel = panel
  /\ progress'.committed = progress.committed /\ ~progress.committed

LEMMA MovedRow ==
  ASSUME LedgerInv, NEW l, NEW end, NEW panels, NEW mlp, NEW fill, NEW core,
         NEW drain, NEW layer, NEW panel,
         Moves(l, end, panels, mlp, fill, core, drain, layer, panel),
         InRange(end, panels, mlp, fill, core, drain, layer, panel)
  PROVE  Moved(l, end, panels, mlp, fill, core, drain, layer, panel)
<1> USE DEF InRange
<1> DEFINE e == [progress.end EXCEPT ![l] = end]
           a == [progress.panels EXCEPT ![l] = panels]
           m == [progress.mlp EXCEPT ![l] = mlp]
           f == [progress.fill EXCEPT ![l] = fill]
           c == [progress.core EXCEPT ![l] = core]
           d == [progress.drain EXCEPT ![l] = drain]
<1>1. l \in LayerSet /\ l = progress.layer /\ plan' = plan /\ ~progress.committed
  BY DEF Moves
<1>2. /\ e \in Counter /\ a \in Counter /\ m \in Counter
      /\ f \in Counter /\ c \in Counter /\ d \in Counter
  BY DEF LedgerInv, LedgerType, Counter
<1>3. progress' = [progress EXCEPT !.end = e, !.panels = a, !.mlp = m, !.fill = f,
                                   !.core = c, !.drain = d, !.layer = layer,
                                   !.panel = panel]
  BY DEF Moves
<1>4. /\ e[l] = end /\ a[l] = panels /\ m[l] = mlp
      /\ f[l] = fill /\ c[l] = core /\ d[l] = drain
  BY <1>1 DEF LedgerInv, LedgerType, Counter
<1>5. \A j \in LayerSet : j # l =>
        /\ e[j] = progress.end[j] /\ a[j] = progress.panels[j] /\ m[j] = progress.mlp[j]
        /\ f[j] = progress.fill[j] /\ c[j] = progress.core[j] /\ d[j] = progress.drain[j]
  BY DEF LedgerInv, LedgerType, Counter
<1>6. progress'.end = e
  BY <1>3 DEF LedgerInv, LedgerType
<1> HIDE DEF e, a, m, f, c, d
<1>7. /\ progress'.end[l] = end /\ Counters(l, panels, mlp, fill, core, drain)'
      /\ progress'.layer = layer /\ progress'.panel = panel
      /\ progress'.committed = progress.committed
  BY <1>3, <1>4 DEF LedgerInv, LedgerType, Counters
<1>8. LedgerType'
  <2>1. progress' \in [end : Counter, panels : Counter, mlp : Counter, fill : Counter,
                       core : Counter, drain : Counter, layer : 0 .. Layers, panel : Nat,
                       ready : BOOLEAN, committed : BOOLEAN]
    <3>1. panel \in Nat
      BY LedgerFacts
    <3>2. progress \in [end : Counter, panels : Counter, mlp : Counter, fill : Counter,
                        core : Counter, drain : Counter, layer : 0 .. Layers,
                        panel : Nat, ready : BOOLEAN, committed : BOOLEAN]
      BY DEF LedgerInv, LedgerType
    <3> QED BY <1>2, <1>3, <3>1, <3>2
  <2>2. progress'.panel \in 0 .. plan'.panelCount - 1
    <3>1. progress'.panel = panel /\ plan' = plan
      BY <1>1, <1>7
    <3> QED BY <3>1
  <2>3. error' = "none"
    BY DEF Moves
  <2> QED BY <2>1, <2>2, <2>3 DEF LedgerType
<1>9. \A j \in LayerSet : j # l => UNCHANGED Row(j)
  BY <1>3, <1>5 DEF LedgerInv, LedgerType, Row
<1> QED BY <1>1, <1>6, <1>7, <1>8, <1>9 DEF e, Moved

\* A counter that keeps its value.
LEMMA Same ==
  ASSUME NEW f \in Counter, NEW l \in LayerSet, NEW v, f[l] = v
  PROVE  [f EXCEPT ![l] = v] = f
BY DEF Counter

\* advance_prefill_progress_after_completion: a refusal changes nothing, and what
\* is recorded is the next panel of the layer under the cursor.
LEMMA PanelCall ==
  ASSUME LedgerInv, CallPanel
  PROVE  \/ Refuses
         \/ \E l \in LayerSet, k \in 0 .. plan.panelCount - 1 :
              /\ progress.end[l] = CutAt(k)
              /\ \/ /\ plan.tactic = "per-panel"
                    /\ progress.mlp[l] = k
                    /\ IF k + 1 = plan.panelCount
                         THEN Moves(l, CutAt(k + 1), k + 1, k + 1, 0, 0, 0, l + 1, 0)
                         ELSE Moves(l, CutAt(k + 1), k + 1, k + 1, 0, 0, 0, l, k + 1)
                 \/ /\ plan.tactic = LayerWide
                    /\ progress.mlp[l] = 0
                    /\ Moves(l, CutAt(k + 1), k + 1, 0, 0, 0, 0, l,
                             IF k + 1 = plan.panelCount THEN 0 ELSE k + 1)
<1> DEFINE n == plan.panelCount
<1>1. PICK l \in SomeLayer, k \in SomePanel : Call(AdvancePanel(plan, progress, l, k))
  BY DEF CallPanel
<1>2. plan' = plan
  BY <1>1 DEF Call
<1>3. CASE progress' = progress
  <2>1. error' \in {"out-of-order", "layer-range", "panel-range", "none"}
    BY <1>1 DEF Call, AdvancePanel, Refused, Recorded
  <2> QED BY <1>2, <1>3, <2>1 DEF LedgerInv, LedgerType, Refuses
<1>4. CASE progress' # progress
  <2>1. k \in Nat /\ n \in Nat \ {0} /\ l \in Int
    BY LedgerFacts DEF SomePanel, SomeLayer
  <2>2. /\ plan.tactic \notin FixedGeometry /\ l \in LayerSet /\ ~ (k >= n)
        /\ ~progress.committed /\ progress.layer = l
        /\ progress.panel = k /\ progress.panels[l] = k
        /\ progress.end[l] = plan.panels[k].first
        /\ error' = "none"
    BY <1>1, <1>4 DEF Call, AdvancePanel, Refused, Recorded, Open
  <2>3. k \in 0 .. n - 1
    BY <2>1, <2>2
  <2>4. /\ plan.tactic \in {"per-panel", LayerWide}
        /\ Counters(l, k, IF plan.tactic = "per-panel" THEN k ELSE 0, 0, 0, 0)
    <3>1. Current(l)
      BY <2>2 DEF LedgerInv
    <3>2. PICK j \in 0 .. n :
            /\ AtPanel(j)
            /\ \/ plan.tactic = "per-panel" /\ PerPanelAt(l, j)
               \/ plan.tactic = LayerWide /\ LayerWideAt(l, j)
      BY <2>2, <3>1 DEF Current, FixedGeometry
    <3>3. j = k
      BY <2>2, <3>2 DEF AtPanel, PerPanelAt, LayerWideAt, Counters
    <3> QED BY <3>2, <3>3 DEF PerPanelAt, LayerWideAt, LayerWide
  <2> DEFINE moves == IF plan.tactic = "per-panel" THEN 1 ELSE 0
             cursor == IF k + 1 = n THEN 0 ELSE k + 1
  <2>5. NextPanel(plan, progress) = cursor
    BY <2>1, <2>2, <2>3, NextModulo DEF NextPanel
  <2>6. progress' = [progress EXCEPT
                   !.end[l] = plan.panels[k].end,
                   !.panels[l] = @ + 1,
                   !.mlp[l] = @ + moves,
                   !.panel = cursor,
                   !.layer = IF cursor = 0 THEN @ + moves ELSE @]
    BY <1>1, <2>2, <2>5 DEF Call, AdvancePanel, Recorded, Open
  <2>7. plan.panels[k].end = CutAt(k + 1) /\ plan.panels[k].first = CutAt(k)
    BY <2>1, <2>3, LedgerFacts
  <2>8a. moves \in {0, 1}
    OBVIOUS
  <2> HIDE DEF moves, cursor
  <2>8. Moves(l, CutAt(k + 1), k + 1,
              IF plan.tactic = "per-panel" THEN k + moves ELSE moves, 0, 0, 0,
              IF cursor = 0 THEN l + moves ELSE l, cursor)
    <3> DEFINE z == IF plan.tactic = "per-panel" THEN k + moves ELSE moves
    <3>1. /\ [progress.fill EXCEPT ![l] = 0] = progress.fill
          /\ [progress.core EXCEPT ![l] = 0] = progress.core
          /\ [progress.drain EXCEPT ![l] = 0] = progress.drain
      BY <2>2, <2>4, Same DEF LedgerInv, LedgerType, Counters
    <3>2. progress.mlp[l] + moves = z /\ progress.panels[l] + 1 = k + 1
      BY <2>4, <2>8a DEF Counters
    <3> HIDE DEF z
    <3>3. progress' = [progress EXCEPT
                        !.end[l] = CutAt(k + 1), !.panels[l] = k + 1, !.mlp[l] = z,
                        !.panel = cursor,
                        !.layer = IF cursor = 0 THEN l + moves ELSE l]
      BY <2>2, <2>6, <2>7, <3>2
    <3> DEFINE f == [progress.fill EXCEPT ![l] = 0]
               c == [progress.core EXCEPT ![l] = 0]
               d == [progress.drain EXCEPT ![l] = 0]
    <3>4. f = progress.fill /\ c = progress.core /\ d = progress.drain
      BY <3>1
    <3> HIDE DEF f, c, d
    <3>5. progress' = [progress EXCEPT
                        !.end[l] = CutAt(k + 1), !.panels[l] = k + 1, !.mlp[l] = z,
                        !.fill = f, !.core = c, !.drain = d,
                        !.panel = cursor,
                        !.layer = IF cursor = 0 THEN l + moves ELSE l]
      BY <3>3, <3>4 DEF LedgerInv, LedgerType
    <3>6. progress' = [progress EXCEPT
                        !.end[l] = CutAt(k + 1), !.panels[l] = k + 1, !.mlp[l] = z,
                        !.fill[l] = 0, !.core[l] = 0, !.drain[l] = 0,
                        !.layer = IF cursor = 0 THEN l + moves ELSE l, !.panel = cursor]
      BY <3>5 DEF f, c, d
    <3> QED BY <1>2, <2>2, <3>6 DEF Moves, z
  <2>9. CASE plan.tactic = "per-panel"
    <3>1. moves = 1 /\ progress.mlp[l] = k
      BY <2>4, <2>9 DEF moves, Counters
    <3>2. IF k + 1 = n
            THEN Moves(l, CutAt(k + 1), k + 1, k + 1, 0, 0, 0, l + 1, 0)
            ELSE Moves(l, CutAt(k + 1), k + 1, k + 1, 0, 0, 0, l, k + 1)
      BY <2>1, <2>3, <2>8, <2>9, <3>1 DEF cursor
    <3> QED BY <2>2, <2>3, <2>7, <2>9, <3>1, <3>2
  <2>10. CASE plan.tactic = LayerWide
    <3>1. moves = 0 /\ progress.mlp[l] = 0
      BY <2>4, <2>10 DEF moves, Counters, LayerWide
    <3>2. Moves(l, CutAt(k + 1), k + 1, 0, 0, 0, 0, l, IF k + 1 = n THEN 0 ELSE k + 1)
      BY <2>2, <2>8, <2>10, <3>1 DEF cursor, LayerWide, LayerSet
    <3> QED BY <2>2, <2>3, <2>7, <2>10, <3>1, <3>2
  <2> QED BY <2>4, <2>9, <2>10
<1> QED BY <1>3, <1>4

(***************************************************************************)
(* The calls of the prompt-wide tactics and the MLP phase               *)
(***************************************************************************)
\* advance_layer_wide_p40_mlp_progress_after_completion
LEMMA LayerWideMlpCall ==
  ASSUME LedgerInv, CallLayerWideMlp
  PROVE  \/ Refuses
         \/ \E l \in LayerSet :
              /\ plan.tactic = LayerWide /\ progress.end[l] = plan.final /\ progress.mlp[l] = 0
              /\ Moves(l, plan.final, plan.panelCount, 1, 0, 0, 0, l + 1, 0)
<1> DEFINE n == plan.panelCount
<1>1. PICK l \in SomeLayer : Call(AdvanceLayerWideMlp(plan, progress, l))
  BY DEF CallLayerWideMlp
<1>2. plan' = plan
  BY <1>1 DEF Call
<1>3. CASE progress' = progress
  <2>1. error' \in {"out-of-order", "layer-range", "panel-range", "receipt", "none"}
    BY <1>1 DEF Call, AdvanceLayerWideMlp, Refused, Recorded
  <2> QED BY <1>2, <1>3, <2>1 DEF LedgerInv, LedgerType, Refuses
<1>4. CASE progress' # progress
  <2>1. n \in Nat \ {0} /\ l \in Int
    BY LedgerFacts DEF SomeLayer
  <2>2. /\ plan.tactic = LayerWide /\ l \in LayerSet
        /\ ~progress.committed /\ progress.layer = l
        /\ progress.panel = 0 /\ progress.panels[l] = plan.panelCount /\ progress.mlp[l] = 0
        /\ error' = "none"
    BY <1>1, <1>4 DEF Call, AdvanceLayerWideMlp, Refused, Recorded, Open
  <2>3. progress.panel = 0
    BY <2>2
  <2>4. progress.end[l] = plan.final /\ Counters(l, plan.panelCount, 0, 0, 0, 0)
    <3>1. Current(l)
      BY <2>2 DEF LedgerInv
    <3>2. PICK j \in 0 .. n : AtPanel(j) /\ LayerWideAt(l, j)
      BY <2>2, <3>1 DEF Current, LayerWide, WholeCore, AtomicTactics
    <3> QED BY <2>1, <2>2, <3>2, LedgerFacts
            DEF AtPanel, LayerWideAt, CutAt, Counters
  <2>5. progress' = [progress EXCEPT !.mlp[l] = 1,
                      !.layer = l + 1]
    BY <1>1, <2>1, <2>2, <2>3, <2>4 DEF Call, AdvanceLayerWideMlp, Recorded, Open, Counters, NextPanel, WholeCoreAt
  <2> DEFINE e == [progress.end EXCEPT ![l] = plan.final]
             a == [progress.panels EXCEPT ![l] = plan.panelCount]
             f == [progress.fill EXCEPT ![l] = 0]
             c == [progress.core EXCEPT ![l] = 0]
             d == [progress.drain EXCEPT ![l] = 0]
  <2>6. e = progress.end /\ a = progress.panels /\ f = progress.fill /\ c = progress.core /\ d = progress.drain
    BY <2>2, <2>4, Same DEF LedgerInv, LedgerType, Counters
  <2> HIDE DEF e, a, f, c, d
  <2>7. progress' = [progress EXCEPT
                      !.end = e, !.panels = a, !.mlp[l] = 1,
                      !.fill = f, !.core = c, !.drain = d,
                      !.layer = l + 1, !.panel = 0]
    BY <2>2, <2>3, <2>5, <2>6, LedgerIsRecord
  <2>8. Moves(l, plan.final, plan.panelCount, 1, 0, 0, 0, l + 1, 0)
    BY <1>2, <2>2, <2>7 DEF Moves, e, a, f, c, d
  <2> QED BY <2>2, <2>3, <2>4, <2>8 DEF Counters
<1> QED BY <1>3, <1>4

\* advance_prompt_wide_p40_fill_progress_after_completion
LEMMA FillCall ==
  ASSUME LedgerInv, CallFill
  PROVE  \/ Refuses
         \/ \E l \in LayerSet, k \in 0 .. plan.panelCount - 1 :
              /\ plan.tactic = WholeCore /\ progress.end[l] = plan.first /\ progress.mlp[l] = 0
              /\ Moves(l, plan.first, 0, 0, k + 1, 0, 0, l, IF k + 1 = plan.panelCount THEN 0 ELSE k + 1)
<1> DEFINE n == plan.panelCount
<1>1. PICK l \in SomeLayer, k \in SomePanel : Call(AdvanceFill(plan, progress, l, k))
  BY DEF CallFill
<1>2. plan' = plan
  BY <1>1 DEF Call
<1>3. CASE progress' = progress
  <2>1. error' \in {"out-of-order", "layer-range", "panel-range", "receipt", "none"}
    BY <1>1 DEF Call, AdvanceFill, Refused, Recorded
  <2> QED BY <1>2, <1>3, <2>1 DEF LedgerInv, LedgerType, Refuses
<1>4. CASE progress' # progress
  <2>1. k \in Nat /\ n \in Nat \ {0} /\ l \in Int
    BY LedgerFacts DEF SomePanel, SomeLayer
  <2>2. /\ plan.tactic = WholeCore /\ l \in LayerSet /\ ~ (k >= n)
        /\ ~progress.committed /\ progress.layer = l
        /\ progress.panel = k /\ progress.fill[l] = k /\ progress.core[l] = 0 /\ progress.drain[l] = 0
        /\ progress.panels[l] = 0 /\ progress.mlp[l] = 0
        /\ error' = "none"
    BY <1>1, <1>4 DEF Call, AdvanceFill, Refused, Recorded, Open, WholeCoreAt
  <2>3. k \in 0 .. n - 1
    BY <2>1, <2>2
  <2>4. progress.end[l] = plan.first /\ Counters(l, 0, 0, k, 0, 0)
    <3>1. Current(l)
      BY <2>2 DEF LedgerInv
    <3>2. PICK j \in 0 .. n : AtPanel(j) /\ (FillingAt(l, j) \/ DrainingAt(l, j))
      BY <2>2, <3>1 DEF Current, LayerWide, WholeCore, AtomicTactics
    <3> QED BY <2>1, <2>2, <3>2, LedgerFacts
            DEF AtPanel, FillingAt, DrainingAt, Counters
  <2>5. progress' = [progress EXCEPT !.fill[l] = k + 1,
                      !.panel = IF k + 1 = plan.panelCount THEN 0 ELSE k + 1]
    BY <1>1, <2>1, <2>2, <2>3, <2>4, NextModulo DEF Call, AdvanceFill, Recorded, Open, Counters, NextPanel, WholeCoreAt
  <2> DEFINE e == [progress.end EXCEPT ![l] = plan.first]
             a == [progress.panels EXCEPT ![l] = 0]
             m == [progress.mlp EXCEPT ![l] = 0]
             c == [progress.core EXCEPT ![l] = 0]
             d == [progress.drain EXCEPT ![l] = 0]
  <2>6. e = progress.end /\ a = progress.panels /\ m = progress.mlp /\ c = progress.core /\ d = progress.drain
    BY <2>2, <2>4, Same DEF LedgerInv, LedgerType, Counters
  <2> HIDE DEF e, a, m, c, d
  <2>7. progress' = [progress EXCEPT
                      !.end = e, !.panels = a, !.mlp = m,
                      !.fill[l] = k + 1, !.core = c, !.drain = d,
                      !.layer = l, !.panel = IF k + 1 = plan.panelCount THEN 0 ELSE k + 1]
    <3>1. progress.layer = l
      BY <2>2
    <3> QED BY <2>5, <2>6, <3>1, LedgerIsRecord
  <2>8. Moves(l, plan.first, 0, 0, k + 1, 0, 0, l, IF k + 1 = plan.panelCount THEN 0 ELSE k + 1)
    BY <1>2, <2>2, <2>7 DEF Moves, e, a, m, c, d
  <2> QED BY <2>2, <2>3, <2>4, <2>8 DEF Counters
<1> QED BY <1>3, <1>4

\* advance_prompt_wide_p40_prompt_core_progress_after_completion
LEMMA PromptCoreCall ==
  ASSUME LedgerInv, CallPromptCore
  PROVE  \/ Refuses
         \/ \E l \in LayerSet :
              /\ plan.tactic = WholeCore /\ progress.end[l] = plan.first /\ progress.mlp[l] = 0
              /\ Moves(l, plan.final, 0, 0, plan.panelCount, 1, 0, l, 0)
<1> DEFINE n == plan.panelCount
<1>1. PICK l \in SomeLayer : Call(AdvancePromptCore(plan, progress, l))
  BY DEF CallPromptCore
<1>2. plan' = plan
  BY <1>1 DEF Call
<1>3. CASE progress' = progress
  <2>1. error' \in {"out-of-order", "layer-range", "panel-range", "receipt", "none"}
    BY <1>1 DEF Call, AdvancePromptCore, Refused, Recorded
  <2> QED BY <1>2, <1>3, <2>1 DEF LedgerInv, LedgerType, Refuses
<1>4. CASE progress' # progress
  <2>1. n \in Nat \ {0} /\ l \in Int
    BY LedgerFacts DEF SomeLayer
  <2>2. /\ plan.tactic = WholeCore /\ l \in LayerSet
        /\ ~progress.committed /\ progress.layer = l
        /\ progress.panel = 0 /\ progress.fill[l] = plan.panelCount /\ progress.core[l] = 0 /\ progress.drain[l] = 0
        /\ progress.panels[l] = 0 /\ progress.mlp[l] = 0
        /\ error' = "none"
    BY <1>1, <1>4 DEF Call, AdvancePromptCore, Refused, Recorded, Open, WholeCoreAt
  <2>3. progress.panel = 0
    BY <2>2
  <2>4. progress.end[l] = plan.first /\ Counters(l, 0, 0, plan.panelCount, 0, 0)
    <3>1. Current(l)
      BY <2>2 DEF LedgerInv
    <3>2. PICK j \in 0 .. n : AtPanel(j) /\ (FillingAt(l, j) \/ DrainingAt(l, j))
      BY <2>2, <3>1 DEF Current, LayerWide, WholeCore, AtomicTactics
    <3> QED BY <2>1, <2>2, <3>2, LedgerFacts
            DEF AtPanel, FillingAt, DrainingAt, Counters
  <2>5. progress' = [progress EXCEPT !.end[l] = plan.final,
                      !.core[l] = 1]
    BY <1>1, <2>1, <2>2, <2>3, <2>4 DEF Call, AdvancePromptCore, Recorded, Open, Counters, NextPanel, WholeCoreAt
  <2> DEFINE a == [progress.panels EXCEPT ![l] = 0]
             m == [progress.mlp EXCEPT ![l] = 0]
             f == [progress.fill EXCEPT ![l] = plan.panelCount]
             d == [progress.drain EXCEPT ![l] = 0]
  <2>6. a = progress.panels /\ m = progress.mlp /\ f = progress.fill /\ d = progress.drain
    BY <2>2, <2>4, Same DEF LedgerInv, LedgerType, Counters
  <2> HIDE DEF a, m, f, d
  <2>7. progress' = [progress EXCEPT
                      !.end[l] = plan.final, !.panels = a, !.mlp = m,
                      !.fill = f, !.core[l] = 1, !.drain = d,
                      !.layer = l, !.panel = 0]
    BY <2>2, <2>3, <2>5, <2>6, LedgerIsRecord
  <2>8. Moves(l, plan.final, 0, 0, plan.panelCount, 1, 0, l, 0)
    BY <1>2, <2>2, <2>7 DEF Moves, a, m, f, d
  <2> QED BY <2>2, <2>3, <2>4, <2>8 DEF Counters
<1> QED BY <1>3, <1>4

\* advance_prompt_wide_p40_drain_progress_after_completion
LEMMA DrainCall ==
  ASSUME LedgerInv, CallDrain
  PROVE  \/ Refuses
         \/ \E l \in LayerSet, k \in 0 .. plan.panelCount - 1 :
              /\ plan.tactic = WholeCore /\ progress.end[l] = plan.final /\ progress.mlp[l] = 0
              /\ Moves(l, plan.final, k + 1, 0, plan.panelCount, 1, k + 1, l, IF k + 1 = plan.panelCount THEN 0 ELSE k + 1)
<1> DEFINE n == plan.panelCount
<1>1. PICK l \in SomeLayer, k \in SomePanel : Call(AdvanceDrain(plan, progress, l, k))
  BY DEF CallDrain
<1>2. plan' = plan
  BY <1>1 DEF Call
<1>3. CASE progress' = progress
  <2>1. error' \in {"out-of-order", "layer-range", "panel-range", "receipt", "none"}
    BY <1>1 DEF Call, AdvanceDrain, Refused, Recorded
  <2> QED BY <1>2, <1>3, <2>1 DEF LedgerInv, LedgerType, Refuses
<1>4. CASE progress' # progress
  <2>1. k \in Nat /\ n \in Nat \ {0} /\ l \in Int
    BY LedgerFacts DEF SomePanel, SomeLayer
  <2>2. /\ plan.tactic = WholeCore /\ l \in LayerSet /\ ~ (k >= n)
        /\ ~progress.committed /\ progress.layer = l
        /\ progress.panel = k /\ progress.fill[l] = plan.panelCount /\ progress.core[l] = 1 /\ progress.drain[l] = k
        /\ progress.panels[l] = k /\ progress.mlp[l] = 0
        /\ error' = "none"
    BY <1>1, <1>4 DEF Call, AdvanceDrain, Refused, Recorded, Open, WholeCoreAt
  <2>3. k \in 0 .. n - 1
    BY <2>1, <2>2
  <2>4. progress.end[l] = plan.final /\ Counters(l, k, 0, plan.panelCount, 1, k)
    <3>1. Current(l)
      BY <2>2 DEF LedgerInv
    <3>2. PICK j \in 0 .. n : AtPanel(j) /\ (FillingAt(l, j) \/ DrainingAt(l, j))
      BY <2>2, <3>1 DEF Current, LayerWide, WholeCore, AtomicTactics
    <3> QED BY <2>1, <2>2, <3>2, LedgerFacts
            DEF AtPanel, FillingAt, DrainingAt, Counters
  <2>5. progress' = [progress EXCEPT !.panels[l] = k + 1,
                      !.drain[l] = k + 1,
                      !.panel = IF k + 1 = plan.panelCount THEN 0 ELSE k + 1]
    <3>1. (k + 1) % n = IF k + 1 = n THEN 0 ELSE k + 1
      BY <2>1, <2>3, NextModulo
    <3> QED BY <1>1, <1>4, <2>2, <2>4, <3>1
            DEF Call, AdvanceDrain, Refused, Recorded, Open, Counters, NextPanel, WholeCoreAt
  <2> DEFINE e == [progress.end EXCEPT ![l] = plan.final]
             m == [progress.mlp EXCEPT ![l] = 0]
             f == [progress.fill EXCEPT ![l] = plan.panelCount]
             c == [progress.core EXCEPT ![l] = 1]
  <2>6. e = progress.end /\ m = progress.mlp /\ f = progress.fill /\ c = progress.core
    BY <2>2, <2>4, Same DEF LedgerInv, LedgerType, Counters
  <2> HIDE DEF e, m, f, c
  <2>7. progress' = [progress EXCEPT
                      !.end = e, !.panels[l] = k + 1, !.mlp = m,
                      !.fill = f, !.core = c, !.drain[l] = k + 1,
                      !.layer = l, !.panel = IF k + 1 = plan.panelCount THEN 0 ELSE k + 1]
    <3>1. progress.layer = l
      BY <2>2
    <3> QED BY <2>5, <2>6, <3>1, LedgerIsRecord
  <2>8. Moves(l, plan.final, k + 1, 0, plan.panelCount, 1, k + 1, l, IF k + 1 = plan.panelCount THEN 0 ELSE k + 1)
    BY <1>2, <2>2, <2>7 DEF Moves, e, m, f, c
  <2> QED BY <2>2, <2>3, <2>4, <2>8 DEF Counters
<1> QED BY <1>3, <1>4

\* advance_prompt_wide_p40_persistent_mlp_progress_after_completion
LEMMA PersistentMlpCall ==
  ASSUME LedgerInv, CallPersistentMlp
  PROVE  \/ Refuses
         \/ \E l \in LayerSet :
              /\ plan.tactic = WholeCore /\ progress.end[l] = plan.final /\ progress.mlp[l] = 0
              /\ Moves(l, plan.final, plan.panelCount, 1, plan.panelCount, 1, plan.panelCount, l + 1, 0)
<1> DEFINE n == plan.panelCount
<1>1. PICK l \in SomeLayer : Call(AdvancePersistentMlp(plan, progress, l))
  BY DEF CallPersistentMlp
<1>2. plan' = plan
  BY <1>1 DEF Call
<1>3. CASE progress' = progress
  <2>1. error' \in {"out-of-order", "layer-range", "panel-range", "receipt", "none"}
    BY <1>1 DEF Call, AdvancePersistentMlp, Refused, Recorded
  <2> QED BY <1>2, <1>3, <2>1 DEF LedgerInv, LedgerType, Refuses
<1>4. CASE progress' # progress
  <2>1. n \in Nat \ {0} /\ l \in Int
    BY LedgerFacts DEF SomeLayer
  <2>2. /\ plan.tactic = WholeCore /\ l \in LayerSet
        /\ ~progress.committed /\ progress.layer = l
        /\ progress.panel = 0 /\ progress.fill[l] = plan.panelCount /\ progress.core[l] = 1 /\ progress.drain[l] = plan.panelCount
        /\ progress.panels[l] = plan.panelCount /\ progress.mlp[l] = 0
        /\ error' = "none"
    BY <1>1, <1>4 DEF Call, AdvancePersistentMlp, Refused, Recorded, Open, WholeCoreAt
  <2>3. progress.panel = 0
    BY <2>2
  <2>4. progress.end[l] = plan.final /\ Counters(l, plan.panelCount, 0, plan.panelCount, 1, plan.panelCount)
    <3>1. Current(l)
      BY <2>2 DEF LedgerInv
    <3>2. PICK j \in 0 .. n : AtPanel(j) /\ (FillingAt(l, j) \/ DrainingAt(l, j))
      BY <2>2, <3>1 DEF Current, LayerWide, WholeCore, AtomicTactics
    <3> QED BY <2>1, <2>2, <3>2, LedgerFacts
            DEF AtPanel, FillingAt, DrainingAt, Counters
  <2>5. progress' = [progress EXCEPT !.mlp[l] = 1,
                      !.layer = l + 1]
    BY <1>1, <2>1, <2>2, <2>3, <2>4 DEF Call, AdvancePersistentMlp, Recorded, Open, Counters, NextPanel, WholeCoreAt
  <2> DEFINE e == [progress.end EXCEPT ![l] = plan.final]
             a == [progress.panels EXCEPT ![l] = plan.panelCount]
             f == [progress.fill EXCEPT ![l] = plan.panelCount]
             c == [progress.core EXCEPT ![l] = 1]
             d == [progress.drain EXCEPT ![l] = plan.panelCount]
  <2>6. e = progress.end /\ a = progress.panels /\ f = progress.fill /\ c = progress.core /\ d = progress.drain
    BY <2>2, <2>4, Same DEF LedgerInv, LedgerType, Counters
  <2> HIDE DEF e, a, f, c, d
  <2>7. progress' = [progress EXCEPT
                      !.end = e, !.panels = a, !.mlp[l] = 1,
                      !.fill = f, !.core = c, !.drain = d,
                      !.layer = l + 1, !.panel = 0]
    BY <2>2, <2>3, <2>5, <2>6, LedgerIsRecord
  <2>8. Moves(l, plan.final, plan.panelCount, 1, plan.panelCount, 1, plan.panelCount, l + 1, 0)
    BY <1>2, <2>2, <2>7 DEF Moves, e, a, f, c, d
  <2> QED BY <2>2, <2>3, <2>4, <2>8 DEF Counters
<1> QED BY <1>3, <1>4

\* A layer published at once, by each of the four tactics that do so.
LEMMA AtomicCall ==
  ASSUME LedgerInv, CallProjectionReset \/ CallPacked \/ CallPackedV2 \/ CallParity
  PROVE  \/ Refuses
         \/ \E l \in LayerSet :
              /\ plan.tactic \in AtomicTactics
              /\ progress.end[l] = plan.first /\ progress.mlp[l] = 0
              /\ Moves(l, plan.final, plan.panelCount, 1, 0, 0, 0, l + 1, 0)
<1> DEFINE n == plan.panelCount
<1>1. PICK l \in SomeLayer, tactic \in AtomicTactics, receipt \in BOOLEAN :
        Call(AtomicLayer(tactic, plan, progress, l, receipt))
  BY DEF CallProjectionReset, CallPacked, CallPackedV2, CallParity, AdvanceProjectionReset,
         AdvancePacked, AdvancePackedV2, AdvanceParity, AtomicTactics
<1>2. plan' = plan
  BY <1>1 DEF Call
<1>3. CASE progress' = progress
  <2>1. error' \in {"out-of-order", "layer-range", "panel-range", "receipt", "none"}
    BY <1>1 DEF Call, AtomicLayer, Refused, Recorded
  <2> QED BY <1>2, <1>3, <2>1 DEF LedgerInv, LedgerType, Refuses
<1>4. CASE progress' # progress
  <2>1. /\ plan.tactic \in AtomicTactics /\ l \in LayerSet
        /\ ~progress.committed /\ progress.layer = l
        /\ progress.panel = 0 /\ Counters(l, 0, 0, 0, 0, 0)
        /\ progress.end[l] = plan.first
        /\ error' = "none"
    BY <1>1, <1>4 DEF Call, AtomicLayer, Refused, Recorded, Open, WholeCoreAt, Counters
  <2>2. progress' = [progress EXCEPT !.end[l] = plan.final,
                      !.panels[l] = plan.panelCount,
                      !.mlp[l] = 1,
                      !.layer = l + 1]
    BY <1>1, <1>4, <2>1 DEF Call, AtomicLayer, Refused, Recorded, Open
  <2> DEFINE f == [progress.fill EXCEPT ![l] = 0]
             c == [progress.core EXCEPT ![l] = 0]
             d == [progress.drain EXCEPT ![l] = 0]
  <2>3. f = progress.fill /\ c = progress.core /\ d = progress.drain
    BY <2>1, Same DEF LedgerInv, LedgerType, Counters
  <2> HIDE DEF f, c, d
  <2>4. progress' = [progress EXCEPT
                      !.end[l] = plan.final, !.panels[l] = plan.panelCount, !.mlp[l] = 1,
                      !.fill = f, !.core = c, !.drain = d,
                      !.layer = l + 1, !.panel = 0]
    BY <2>1, <2>2, <2>3 DEF LedgerInv, LedgerType
  <2>5. Moves(l, plan.final, plan.panelCount, 1, 0, 0, 0, l + 1, 0)
    BY <1>2, <2>1, <2>4 DEF Moves, f, c, d
  <2> QED BY <2>1, <2>5 DEF Counters
<1> QED BY <1>3, <1>4

(***************************************************************************)
(* The dataflow                                                            *)
(***************************************************************************)
\* The output of a layer, by what the ledger says of it.
LEMMA OutputOfRow ==
  ASSUME LedgerInv, NEW l \in LayerSet
  PROVE  /\ progress.mlp[l] = 0 => OutputEnd(l) = plan.first
         /\ plan.tactic = "per-panel" /\ progress.mlp[l] \in 0 .. plan.panelCount =>
              OutputEnd(l) = CutAt(progress.mlp[l])
         /\ plan.tactic # "per-panel" /\ progress.mlp[l] = 1 => OutputEnd(l) = plan.final
<1> DEFINE m == progress.mlp[l]
<1>1. m = 0 => OutputEnd(l) = plan.first
  BY DEF OutputEnd
<1>2. ASSUME plan.tactic = "per-panel", m \in 0 .. plan.panelCount
      PROVE  OutputEnd(l) = CutAt(m)
  <2>1. CASE m = 0
    BY <1>1, <2>1, LedgerFacts
  <2>2. CASE m # 0
    <3>1. m - 1 \in 0 .. plan.panelCount - 1 /\ (m - 1) + 1 = m /\ m > 0
      BY <1>2, <2>2, LedgerFacts
    <3>2. OutputEnd(l) = plan.panels[m - 1].end
      BY <1>2, <3>1 DEF OutputEnd
    <3> QED BY <3>1, <3>2, LedgerFacts
  <2> QED BY <2>1, <2>2
<1>3. plan.tactic # "per-panel" /\ m = 1 => OutputEnd(l) = plan.final
  BY DEF OutputEnd
<1> QED BY <1>1, <1>2, <1>3

\* A finished layer has produced everything.
LEMMA FinishedOutput ==
  ASSUME LedgerInv, NEW l \in LayerSet, Finished(l)
  PROVE  OutputEnd(l) = plan.final
<1>1. CASE plan.tactic = "per-panel"
  <2>1. progress.mlp[l] = plan.panelCount
    BY <1>1 DEF Finished, Counters, MlpPhases, WholeCore
  <2>2. plan.panelCount \in 0 .. plan.panelCount
    BY LedgerFacts
  <2> QED BY <1>1, <2>1, <2>2, OutputOfRow DEF CutAt
<1>2. CASE plan.tactic # "per-panel"
  <2>1. progress.mlp[l] = 1
    BY <1>2 DEF Finished, Counters, MlpPhases
  <2> QED BY <1>2, <2>1, OutputOfRow
<1> QED BY <1>1, <1>2

\* A row that changes within its bounds is an Advance of the decoder.
LEMMA RowAdvances ==
  ASSUME LedgerInv, NEW l \in LayerSet, l = progress.layer, plan' = plan,
         ~progress.committed, progress'.committed = progress.committed,
         NEW s \in progress.end[l] .. plan.final,
         progress'.end = [progress.end EXCEPT ![l] = s],
         OutputEnd(l)' \in OutputEnd(l) .. s,
         \A j \in LayerSet : j # l => UNCHANGED Row(j)
  PROVE  Dataflow!Next
<1> DEFINE out == [j \in LayerSet |-> OutputEnd(j)]
           o == OutputEnd(l)'
<1>1. Dataflow!Input(l) = plan.final
  <2>1. CASE l = 0
    BY <2>1 DEF Dataflow!Input
  <2>2. CASE l # 0
    <3>1. l - 1 \in LayerSet /\ l - 1 < progress.layer
      BY <2>2, LedgerFacts DEF LayerSet
    <3>2. OutputEnd(l - 1) = plan.final
      BY <3>1, FinishedOutput DEF LedgerInv
    <3> QED BY <2>2, <3>1, <3>2 DEF Dataflow!Input
  <2> QED BY <2>1, <2>2
<1>2. out' = [out EXCEPT ![l] = o]
  <2>1. ASSUME NEW j \in LayerSet, j # l PROVE OutputEnd(j)' = OutputEnd(j)
    <3>1. UNCHANGED Row(j)
      BY <2>1
    <3> QED BY <3>1 DEF Row, OutputEnd
  <2> QED BY <2>1
<1>3. Dataflow!Advance(l)
  <2>1. s \in progress.end[l] .. Dataflow!Input(l) /\ o \in out[l] .. s
    BY <1>1
  <2> HIDE DEF o
  <2> QED BY <1>2, <2>1 DEF Dataflow!Advance
<1> QED BY <1>3 DEF Dataflow!Next, Dataflow!LayerSet, LayerSet

\* A call that is refused changes nothing.
LEMMA RefusedStep ==
  ASSUME LedgerInv, Refuses
  PROVE  LedgerInv' /\ UNCHANGED Dataflow!vars
<1>1. progress' = progress /\ plan' = plan /\ LedgerType'
  BY DEF Refuses
<1>2. LedgerInv'
  BY <1>1, FlagStep DEF Row
<1>3. UNCHANGED Dataflow!vars
  BY <1>1 DEF Dataflow!vars, OutputEnd
<1> QED BY <1>2, <1>3

\* A recorded call keeps the invariant and advances the decoder.
LEMMA MoveStep ==
  ASSUME LedgerInv, NEW l, NEW end, NEW panels, NEW mlp, NEW fill, NEW core,
         NEW drain, NEW layer, NEW panel,
         Moved(l, end, panels, mlp, fill, core, drain, layer, panel),
         \/ layer = l /\ Current(l)'
         \/ layer = l + 1 /\ panel = 0 /\ Finished(l)',
         end \in progress.end[l] .. plan.final,
         OutputEnd(l)' \in OutputEnd(l) .. end
  PROVE  LedgerInv' /\ Dataflow!Next
<1>1. LedgerInv'
  BY LocalStep DEF Moved
<1>2. Dataflow!Next
  BY RowAdvances DEF Moved
<1> QED BY <1>1, <1>2

\* A panel of the per-panel or the layer-wide tactic.
LEMMA CallPanelStep ==
  ASSUME LedgerInv, CallPanel
  PROVE  LedgerInv' /\ [Dataflow!Next]_(Dataflow!vars)
<1> DEFINE n == plan.panelCount
<1> SUFFICES ASSUME ~Refuses
             PROVE  LedgerInv' /\ [Dataflow!Next]_(Dataflow!vars)
  BY RefusedStep
<1>1. PICK l \in LayerSet, k \in 0 .. n - 1 :
        /\ progress.end[l] = CutAt(k)
        /\ \/ /\ plan.tactic = "per-panel"
              /\ progress.mlp[l] = k
              /\ IF k + 1 = n
                   THEN Moves(l, CutAt(k + 1), k + 1, k + 1, 0, 0, 0, l + 1, 0)
                   ELSE Moves(l, CutAt(k + 1), k + 1, k + 1, 0, 0, 0, l, k + 1)
           \/ /\ plan.tactic = LayerWide
              /\ progress.mlp[l] = 0
              /\ Moves(l, CutAt(k + 1), k + 1, 0, 0, 0, 0, l,
                       IF k + 1 = plan.panelCount THEN 0 ELSE k + 1)
  BY PanelCall
<1>2. /\ n \in Nat \ {0} /\ CutAt(k) \in Nat /\ CutAt(k + 1) \in Nat /\ k + 1 \in Nat
      /\ CutAt(k) < CutAt(k + 1) /\ CutAt(k + 1) =< plan.final /\ plan.final \in Nat
      /\ plan.first \in Nat /\ plan.first =< CutAt(k) /\ k + 1 \in 0 .. n
      /\ plan.panels[k].end = CutAt(k + 1)
      /\ l \in 0 .. Layers /\ l + 1 \in 0 .. Layers /\ 0 \in 0 .. plan.panelCount - 1
  <2>1. n \in Nat \ {0} /\ k \in 0 .. n /\ k + 1 \in 0 .. n /\ k + 1 \in Nat
    BY LedgerFacts
  <2>2. CutAt(k) \in plan.first .. plan.final /\ CutAt(k + 1) \in plan.first .. plan.final
    BY <2>1, LedgerFacts
  <2>3. l \in 0 .. Layers /\ l + 1 \in 0 .. Layers
    BY LedgerFacts DEF LayerSet
  <2> QED BY <2>1, <2>2, <2>3, LedgerFacts
<1>3. CASE plan.tactic = "per-panel"
  <2>1. progress.mlp[l] = k /\ OutputEnd(l) = CutAt(k)
    <3>1. progress.mlp[l] = k
      BY <1>1, <1>3 DEF LayerWide
    <3> QED BY <1>2, <1>3, <3>1, OutputOfRow
  <2>2. CASE k + 1 = n
    <3>1. Moves(l, CutAt(k + 1), k + 1, k + 1, 0, 0, 0, l + 1, 0)
      BY <1>1, <1>3, <2>2 DEF LayerWide
    <3>2. InRange(CutAt(k + 1), k + 1, k + 1, 0, 0, 0, l + 1, 0)
      BY <1>2 DEF InRange
    <3>3. Moved(l, CutAt(k + 1), k + 1, k + 1, 0, 0, 0, l + 1, 0)
      BY <3>1, <3>2, MovedRow
    <3>4. Finished(l)'
      BY <1>3, <2>2, <3>3 DEF Moved, Finished, MlpPhases, WholeCore, CutAt
    <3>5. OutputEnd(l)' = CutAt(k + 1)
      BY <1>2, <1>3, <3>3 DEF Moved, OutputEnd, Counters
    <3> QED BY <1>1, <1>2, <2>1, <3>3, <3>4, <3>5, MoveStep
  <2>3. CASE k + 1 # n
    <3>1. Moves(l, CutAt(k + 1), k + 1, k + 1, 0, 0, 0, l, k + 1)
      BY <1>1, <1>3, <2>3 DEF LayerWide
    <3>2. InRange(CutAt(k + 1), k + 1, k + 1, 0, 0, 0, l, k + 1)
      BY <1>2, <2>3 DEF InRange
    <3>3. Moved(l, CutAt(k + 1), k + 1, k + 1, 0, 0, 0, l, k + 1)
      BY <3>1, <3>2, MovedRow
    <3>4. Current(l)'
      <4>1. AtPanel(k + 1)' /\ PerPanelAt(l, k + 1)'
        BY <1>2, <2>3, <3>3 DEF Moved, AtPanel, PerPanelAt, CutAt
      <4> QED BY <1>2, <1>3, <3>3, <4>1 DEF Moved, Current
    <3>5. OutputEnd(l)' = CutAt(k + 1)
      BY <1>2, <1>3, <3>3 DEF Moved, OutputEnd, Counters
    <3> QED BY <1>1, <1>2, <2>1, <3>3, <3>4, <3>5, MoveStep
  <2> QED BY <2>2, <2>3
<1>4. CASE plan.tactic # "per-panel"
  <2> DEFINE cursor == IF k + 1 = plan.panelCount THEN 0 ELSE k + 1
  <2>1. /\ plan.tactic = LayerWide /\ progress.mlp[l] = 0
        /\ Moves(l, CutAt(k + 1), k + 1, 0, 0, 0, 0, l, cursor)
    BY <1>1, <1>4
  <2>2. cursor \in 0 .. plan.panelCount - 1
    BY <1>2
  <2> HIDE DEF cursor
  <2>3. InRange(CutAt(k + 1), k + 1, 0, 0, 0, 0, l, cursor)
    BY <1>2, <2>2 DEF InRange
  <2>4. Moved(l, CutAt(k + 1), k + 1, 0, 0, 0, 0, l, cursor)
    BY <2>1, <2>3, MovedRow
  <2>5. Current(l)'
    <3>1. AtPanel(k + 1)' /\ LayerWideAt(l, k + 1)'
      BY <2>4 DEF Moved, AtPanel, LayerWideAt, CutAt, cursor
    <3> QED BY <1>2, <2>1, <2>4, <3>1 DEF Moved, Current
  <2>6. OutputEnd(l) = plan.first /\ OutputEnd(l)' = plan.first
    <3>1. OutputEnd(l) = plan.first
      BY <2>1, OutputOfRow
    <3> QED BY <2>4, <3>1 DEF Moved, OutputEnd, Counters
  <2> QED BY <1>1, <1>2, <2>4, <2>5, <2>6, MoveStep
<1> QED BY <1>3, <1>4

\* The MLP phase over all panels of a layer.
LEMMA CallLayerWideMlpStep ==
  ASSUME LedgerInv, CallLayerWideMlp
  PROVE  LedgerInv' /\ [Dataflow!Next]_(Dataflow!vars)
<1> DEFINE n == plan.panelCount
<1> SUFFICES ASSUME ~Refuses
             PROVE  LedgerInv' /\ [Dataflow!Next]_(Dataflow!vars)
  BY RefusedStep
<1>1. PICK l \in LayerSet :
        /\ plan.tactic = LayerWide /\ progress.end[l] = plan.final /\ progress.mlp[l] = 0
        /\ Moves(l, plan.final, plan.panelCount, 1, 0, 0, 0, l + 1, 0)
  BY LayerWideMlpCall
<1>2. /\ n \in Nat \ {0} /\ plan.first \in Nat /\ plan.final \in Nat
      /\ plan.first < plan.final
      /\ l \in 0 .. Layers /\ l + 1 \in 0 .. Layers /\ 0 \in 0 .. plan.panelCount - 1
  BY LedgerFacts DEF LayerSet
<1>3. InRange(plan.final, plan.panelCount, 1, 0, 0, 0, l + 1, 0)
  BY <1>2 DEF InRange
<1>4. Moved(l, plan.final, plan.panelCount, 1, 0, 0, 0, l + 1, 0)
  BY <1>1, <1>3, MovedRow
<1>5. Finished(l)'
  BY <1>1, <1>2, <1>4 DEF Finished, MlpPhases, WholeCore, LayerWide, Moved
<1>6. OutputEnd(l) = plan.first /\ OutputEnd(l)' = plan.final
  <2>1. OutputEnd(l) = plan.first
    BY <1>1, OutputOfRow
  <2> QED BY <1>1, <1>4, <2>1 DEF Moved, Counters, OutputEnd, LayerWide, WholeCore, AtomicTactics
<1> QED BY <1>1, <1>2, <1>4, <1>5, <1>6, MoveStep

\* A fill panel changes neither state nor output of the layer.
LEMMA CallFillStep ==
  ASSUME LedgerInv, CallFill
  PROVE  LedgerInv' /\ [Dataflow!Next]_(Dataflow!vars)
<1> DEFINE n == plan.panelCount
<1> SUFFICES ASSUME ~Refuses
             PROVE  LedgerInv' /\ [Dataflow!Next]_(Dataflow!vars)
  BY RefusedStep
<1>1. PICK l \in LayerSet, k \in 0 .. n - 1 :
        /\ plan.tactic = WholeCore /\ progress.end[l] = plan.first /\ progress.mlp[l] = 0
        /\ Moves(l, plan.first, 0, 0, k + 1, 0, 0, l, IF k + 1 = plan.panelCount THEN 0 ELSE k + 1)
  BY FillCall
<1>2. /\ n \in Nat \ {0} /\ plan.first \in Nat /\ plan.final \in Nat
      /\ plan.first < plan.final /\ k + 1 \in 0 .. n /\ k + 1 \in Nat
      /\ (IF k + 1 = plan.panelCount THEN 0 ELSE k + 1) \in 0 .. plan.panelCount - 1
      /\ l \in 0 .. Layers /\ l + 1 \in 0 .. Layers /\ 0 \in 0 .. plan.panelCount - 1
  BY LedgerFacts DEF LayerSet
<1>3. InRange(plan.first, 0, 0, k + 1, 0, 0, l, IF k + 1 = plan.panelCount THEN 0 ELSE k + 1)
  BY <1>2 DEF InRange
<1>4. Moved(l, plan.first, 0, 0, k + 1, 0, 0, l, IF k + 1 = plan.panelCount THEN 0 ELSE k + 1)
  BY <1>1, <1>3, MovedRow
<1>5. Current(l)'
  BY <1>1, <1>2, <1>4 DEF Current, AtPanel, FillingAt, Moved
<1>6. OutputEnd(l) = plan.first /\ OutputEnd(l)' = plan.first
  <2>1. OutputEnd(l) = plan.first
    BY <1>1, OutputOfRow
  <2> QED BY <1>1, <1>4, <2>1 DEF Moved, Counters, OutputEnd, LayerWide, WholeCore, AtomicTactics
<1> QED BY <1>1, <1>2, <1>4, <1>5, <1>6, MoveStep

\* The core brings the whole prompt into the state of the layer.
LEMMA CallPromptCoreStep ==
  ASSUME LedgerInv, CallPromptCore
  PROVE  LedgerInv' /\ [Dataflow!Next]_(Dataflow!vars)
<1> DEFINE n == plan.panelCount
<1> SUFFICES ASSUME ~Refuses
             PROVE  LedgerInv' /\ [Dataflow!Next]_(Dataflow!vars)
  BY RefusedStep
<1>1. PICK l \in LayerSet :
        /\ plan.tactic = WholeCore /\ progress.end[l] = plan.first /\ progress.mlp[l] = 0
        /\ Moves(l, plan.final, 0, 0, plan.panelCount, 1, 0, l, 0)
  BY PromptCoreCall
<1>2. /\ n \in Nat \ {0} /\ plan.first \in Nat /\ plan.final \in Nat
      /\ plan.first < plan.final
      /\ l \in 0 .. Layers /\ l + 1 \in 0 .. Layers /\ 0 \in 0 .. plan.panelCount - 1
  BY LedgerFacts DEF LayerSet
<1>3. InRange(plan.final, 0, 0, plan.panelCount, 1, 0, l, 0)
  BY <1>2 DEF InRange
<1>4. Moved(l, plan.final, 0, 0, plan.panelCount, 1, 0, l, 0)
  BY <1>1, <1>3, MovedRow
<1>5. Current(l)'
  BY <1>1, <1>2, <1>4 DEF Current, AtPanel, DrainingAt, Moved
<1>6. OutputEnd(l) = plan.first /\ OutputEnd(l)' = plan.first
  <2>1. OutputEnd(l) = plan.first
    BY <1>1, OutputOfRow
  <2> QED BY <1>1, <1>4, <2>1 DEF Moved, Counters, OutputEnd, LayerWide, WholeCore, AtomicTactics
<1> QED BY <1>1, <1>2, <1>4, <1>5, <1>6, MoveStep

\* A drain panel changes neither state nor output of the layer.
LEMMA CallDrainStep ==
  ASSUME LedgerInv, CallDrain
  PROVE  LedgerInv' /\ [Dataflow!Next]_(Dataflow!vars)
<1> DEFINE n == plan.panelCount
<1> SUFFICES ASSUME ~Refuses
             PROVE  LedgerInv' /\ [Dataflow!Next]_(Dataflow!vars)
  BY RefusedStep
<1>1. PICK l \in LayerSet, k \in 0 .. n - 1 :
        /\ plan.tactic = WholeCore /\ progress.end[l] = plan.final /\ progress.mlp[l] = 0
        /\ Moves(l, plan.final, k + 1, 0, plan.panelCount, 1, k + 1, l, IF k + 1 = plan.panelCount THEN 0 ELSE k + 1)
  BY DrainCall
<1>2. /\ n \in Nat \ {0} /\ plan.first \in Nat /\ plan.final \in Nat
      /\ plan.first < plan.final /\ k + 1 \in 0 .. n /\ k + 1 \in Nat
      /\ (IF k + 1 = plan.panelCount THEN 0 ELSE k + 1) \in 0 .. plan.panelCount - 1
      /\ l \in 0 .. Layers /\ l + 1 \in 0 .. Layers /\ 0 \in 0 .. plan.panelCount - 1
  BY LedgerFacts DEF LayerSet
<1>3. InRange(plan.final, k + 1, 0, plan.panelCount, 1, k + 1, l, IF k + 1 = plan.panelCount THEN 0 ELSE k + 1)
  BY <1>2 DEF InRange
<1>4. Moved(l, plan.final, k + 1, 0, plan.panelCount, 1, k + 1, l, IF k + 1 = plan.panelCount THEN 0 ELSE k + 1)
  BY <1>1, <1>3, MovedRow
<1>5. Current(l)'
  BY <1>1, <1>2, <1>4 DEF Current, AtPanel, DrainingAt, Moved
<1>6. OutputEnd(l) = plan.first /\ OutputEnd(l)' = plan.first
  <2>1. OutputEnd(l) = plan.first
    BY <1>1, OutputOfRow
  <2> QED BY <1>1, <1>4, <2>1 DEF Moved, Counters, OutputEnd, LayerWide, WholeCore, AtomicTactics
<1> QED BY <1>1, <1>2, <1>4, <1>5, <1>6, MoveStep

\* The persistent MLP finishes a layer of the whole-core schedule.
LEMMA CallPersistentMlpStep ==
  ASSUME LedgerInv, CallPersistentMlp
  PROVE  LedgerInv' /\ [Dataflow!Next]_(Dataflow!vars)
<1> DEFINE n == plan.panelCount
<1> SUFFICES ASSUME ~Refuses
             PROVE  LedgerInv' /\ [Dataflow!Next]_(Dataflow!vars)
  BY RefusedStep
<1>1. PICK l \in LayerSet :
        /\ plan.tactic = WholeCore /\ progress.end[l] = plan.final /\ progress.mlp[l] = 0
        /\ Moves(l, plan.final, plan.panelCount, 1, plan.panelCount, 1, plan.panelCount, l + 1, 0)
  BY PersistentMlpCall
<1>2. /\ n \in Nat \ {0} /\ plan.first \in Nat /\ plan.final \in Nat
      /\ plan.first < plan.final
      /\ l \in 0 .. Layers /\ l + 1 \in 0 .. Layers /\ 0 \in 0 .. plan.panelCount - 1
  BY LedgerFacts DEF LayerSet
<1>3. InRange(plan.final, plan.panelCount, 1, plan.panelCount, 1, plan.panelCount, l + 1, 0)
  BY <1>2 DEF InRange
<1>4. Moved(l, plan.final, plan.panelCount, 1, plan.panelCount, 1, plan.panelCount, l + 1, 0)
  BY <1>1, <1>3, MovedRow
<1>5. Finished(l)'
  BY <1>1, <1>2, <1>4 DEF Finished, MlpPhases, Moved
<1>6. OutputEnd(l) = plan.first /\ OutputEnd(l)' = plan.final
  <2>1. OutputEnd(l) = plan.first
    BY <1>1, OutputOfRow
  <2> QED BY <1>1, <1>4, <2>1 DEF Moved, Counters, OutputEnd, LayerWide, WholeCore, AtomicTactics
<1> QED BY <1>1, <1>2, <1>4, <1>5, <1>6, MoveStep

\* A layer published at once is finished at once.
LEMMA CallAtomicStep ==
  ASSUME LedgerInv, CallProjectionReset \/ CallPacked \/ CallPackedV2 \/ CallParity
  PROVE  LedgerInv' /\ [Dataflow!Next]_(Dataflow!vars)
<1> DEFINE n == plan.panelCount
<1> SUFFICES ASSUME ~Refuses
             PROVE  LedgerInv' /\ [Dataflow!Next]_(Dataflow!vars)
  BY RefusedStep
<1>1. PICK l \in LayerSet :
        /\ plan.tactic \in AtomicTactics /\ progress.end[l] = plan.first /\ progress.mlp[l] = 0
        /\ Moves(l, plan.final, plan.panelCount, 1, 0, 0, 0, l + 1, 0)
  BY AtomicCall
<1>2. /\ n \in Nat \ {0} /\ plan.first \in Nat /\ plan.final \in Nat
      /\ plan.first < plan.final
      /\ l \in 0 .. Layers /\ l + 1 \in 0 .. Layers /\ 0 \in 0 .. plan.panelCount - 1
  BY LedgerFacts DEF LayerSet
<1>3. InRange(plan.final, plan.panelCount, 1, 0, 0, 0, l + 1, 0)
  BY <1>2 DEF InRange
<1>4. Moved(l, plan.final, plan.panelCount, 1, 0, 0, 0, l + 1, 0)
  BY <1>1, <1>3, MovedRow
<1>5. Finished(l)'
  BY <1>1, <1>2, <1>4 DEF Finished, MlpPhases, WholeCore, AtomicTactics, Moved
<1>6. OutputEnd(l) = plan.first /\ OutputEnd(l)' = plan.final
  <2>1. OutputEnd(l) = plan.first
    BY <1>1, OutputOfRow
  <2> QED BY <1>1, <1>4, <2>1 DEF Moved, Counters, OutputEnd, LayerWide, WholeCore, AtomicTactics
<1> QED BY <1>1, <1>2, <1>4, <1>5, <1>6, MoveStep

\* Marking the final hidden state ready is invisible to the decoder.
LEMMA CallMarkStep ==
  ASSUME LedgerInv, CallMark
  PROVE  LedgerInv' /\ [Dataflow!Next]_(Dataflow!vars)
<1>1. /\ plan' = plan
      /\ \/ progress' = progress
         \/ progress' = [progress EXCEPT !.ready = TRUE]
      /\ error' \in {"incomplete", "already-committed", "none"}
  BY DEF CallMark, Call, MarkFinalHiddenReady, Refused, Recorded
<1>2. LedgerType'
  BY <1>1 DEF LedgerInv, LedgerType
<1>3. CASE progress' = progress
  BY <1>1, <1>2, <1>3, RefusedStep DEF Refuses
<1>4. CASE progress' = [progress EXCEPT !.ready = TRUE]
  <2>1. /\ UNCHANGED <<progress.end, progress.panels, progress.mlp, progress.fill,
                       progress.core, progress.drain>>
        /\ UNCHANGED <<progress.layer, progress.panel, progress.committed>>
    BY <1>4 DEF LedgerInv, LedgerType
  <2>2. LedgerInv'
    BY <1>1, <1>2, <2>1, FlagStep DEF Row
  <2>3. UNCHANGED Dataflow!vars
    BY <1>1, <2>1 DEF Dataflow!vars, OutputEnd
  <2> QED BY <2>2, <2>3
<1> QED BY <1>1, <1>3, <1>4

\* Publishing commits the request, and only when every layer is finished.
LEMMA CallPublishStep ==
  ASSUME LedgerInv, CallPublish
  PROVE  LedgerInv' /\ [Dataflow!Next]_(Dataflow!vars)
<1>1. /\ plan' = plan
      /\ \/ progress' = progress
         \/ /\ ~progress.committed /\ ExecutionComplete(plan, progress)
            /\ progress' = [progress EXCEPT !.committed = TRUE]
      /\ error' \in {"not-ready", "already-committed", "none"}
  BY DEF CallPublish, Call, PublishCommitted, FinalCommitReady, Refused, Recorded
<1>2. LedgerType'
  BY <1>1 DEF LedgerInv, LedgerType
<1>3. CASE progress' = progress
  BY <1>1, <1>2, <1>3, RefusedStep DEF Refuses
<1>4. CASE /\ ~progress.committed /\ ExecutionComplete(plan, progress)
           /\ progress' = [progress EXCEPT !.committed = TRUE]
  <2>1. /\ UNCHANGED <<progress.end, progress.panels, progress.mlp, progress.fill,
                       progress.core, progress.drain>>
        /\ UNCHANGED <<progress.layer, progress.panel>>
        /\ progress'.committed = TRUE
    BY <1>4 DEF LedgerInv, LedgerType
  <2>2. LedgerInv'
    BY <1>1, <1>2, <2>1, FlagStep DEF Row
  <2>3. \A l \in LayerSet : OutputEnd(l) = plan.final
    <3>1. progress.layer = Layers
      BY <1>4 DEF ExecutionComplete
    <3>2. \A l \in LayerSet : Finished(l)
      BY <3>1, LedgerFacts DEF LedgerInv, LayerSet
    <3> QED BY <3>2, FinishedOutput
  <2>4. \A l \in LayerSet : OutputEnd(l)' = OutputEnd(l)
    BY <1>1, <2>1 DEF OutputEnd
  <2>5. Dataflow!Commit
    BY <1>1, <1>4, <2>1, <2>3, <2>4 DEF Dataflow!Commit, Dataflow!LayerSet, LayerSet
  <2> QED BY <2>2, <2>5 DEF Dataflow!Next
<1> QED BY <1>1, <1>3, <1>4

\* Whatever is called, and also when nothing is.
LEMMA LedgerStep ==
  ASSUME LedgerInv, [NextCall]_ledgerVars
  PROVE  LedgerInv' /\ [Dataflow!Next]_(Dataflow!vars)
<1>1. CASE UNCHANGED ledgerVars
  <2>1. plan' = plan /\ progress' = progress /\ error' = error
    BY <1>1 DEF ledgerVars
  <2>2. LedgerType'
    BY <2>1 DEF LedgerInv, LedgerType
  <2> QED BY <2>1, <2>2, RefusedStep DEF Refuses
<1> QED
  BY <1>1, CallPanelStep, CallLayerWideMlpStep, CallFillStep, CallPromptCoreStep,
     CallDrainStep, CallPersistentMlpStep, CallAtomicStep, CallMarkStep, CallPublishStep
  DEF NextCall

\* A new ledger has recorded nothing.
LEMMA LedgerStarts ==
  ASSUME InitLedger
  PROVE  LedgerInv /\ Dataflow!Init
<1>1. plan \in Plans /\ progress = NewProgress(plan) /\ error = "none"
  BY DEF InitLedger
<1>2. GoodPlan(plan)
  BY <1>1, PlansAreGood
<1>3. /\ plan.tactic \in Tactics /\ plan.panelCount \in Nat \ {0}
      /\ plan.first \in Nat /\ plan.final \in Nat /\ plan.first < plan.final
      /\ plan.panels[0].first = plan.first
  BY <1>2 DEF GoodPlan, PanelsCover
<1>4. /\ progress.layer = 0 /\ progress.panel = 0
      /\ ~progress.ready /\ ~progress.committed
      /\ progress.ready \in BOOLEAN /\ progress.committed \in BOOLEAN
      /\ progress.end = [l \in LayerSet |-> plan.first]
      /\ progress.mlp = [l \in LayerSet |-> 0]
  BY <1>1 DEF NewProgress
<1>5. \A l \in LayerSet : Fresh(l)
  BY <1>1 DEF NewProgress, Fresh, Counters
<1>6. LedgerType
  BY <1>1, <1>3, GeometryAssumption DEF LedgerType, NewProgress, Counter
<1>7. LedgerInv
  <2>1. \A l \in LayerSet : Current(l)
    <3> SUFFICES ASSUME NEW l \in LayerSet PROVE Current(l)
      OBVIOUS
    <3>1. AtPanel(0) /\ CutAt(0) = plan.first /\ 0 \in 0 .. plan.panelCount
          /\ 0 < plan.panelCount
      BY <1>3, <1>4 DEF AtPanel, CutAt
    <3>2. PerPanelAt(l, 0) /\ LayerWideAt(l, 0) /\ FillingAt(l, 0)
      BY <1>5, <3>1 DEF Fresh, PerPanelAt, LayerWideAt, FillingAt
    <3> QED BY <1>3, <1>5, <3>1, <3>2 DEF Current, Tactics, FixedGeometry
  <2>2. \A l \in LayerSet : ~ l < progress.layer
    BY <1>4, GeometryAssumption DEF LayerSet
  <2> QED BY <1>1, <1>4, <1>5, <1>6, <2>1, <2>2 DEF LedgerInv
<1>8. Dataflow!Init
  <2>1. \A l \in LayerSet : OutputEnd(l) = plan.first
    BY <1>4 DEF OutputEnd
  <2> QED BY <1>3, <1>4, <2>1 DEF Dataflow!Init, Dataflow!LayerSet, LayerSet
<1> QED BY <1>7, <1>8

(***************************************************************************)
(* The results                                                             *)
(***************************************************************************)
\* The counters of every layer are always those of a legal point of the
\* schedule of the plan's tactic, whatever the caller of the ledger does.
THEOREM Ledger == LedgerSpec => []LedgerInv
<1>1. InitLedger => LedgerInv
  BY LedgerStarts
<1>2. LedgerInv /\ [NextCall]_ledgerVars => LedgerInv'
  BY LedgerStep
<1> QED BY <1>1, <1>2, PTL DEF LedgerSpec

\* The plans of build_unbound_layer_major_prefill_execution_plan cover every
\* prompt of every geometry with panels the kernels can run, and no sequence of
\* calls makes the cursor of the ledger disagree with its counters.
THEOREM LedgerSound == LedgerSpec => []LedgerIsSound
<1>1. LedgerInv => LedgerIsSound
  BY LedgerInvSuffices
<1> QED BY <1>1, Ledger, PTL

\* What the ledger records is a schedule of the decoder: a layer's state never
\* runs ahead of its input, an output never ahead of the state, and
\* publish_prefill_state_committed commits only a prompt that left every layer.
THEOREM LedgerRefinesDataflow == LedgerSpec => RespectsDataflow
<1>1. InitLedger => Dataflow!Init
  BY LedgerStarts
<1>2. LedgerInv /\ [NextCall]_ledgerVars => [Dataflow!Next]_(Dataflow!vars)
  BY LedgerStep
<1> QED BY <1>1, <1>2, Ledger, PTL DEF LedgerSpec, RespectsDataflow, Dataflow!Spec

-----------------------------------------------------------------------------
(***************************************************************************)
(* The submission window                                                   *)
(***************************************************************************)
(***************************************************************************)
(* The inductive invariant: the host and the device                        *)
(***************************************************************************)
Ended == {"failing", "returned"}

RequestType ==
  /\ GoodPlan(plan)
  /\ bounded \in BOOLEAN /\ broken \in BOOLEAN /\ cancel \in BOOLEAN
  /\ poisoned \in BOOLEAN /\ faulted \in BOOLEAN
  /\ pc \in {"enter", "enqueue", "record", "drain", "norm", "sync", "replay",
             "merge", "failing", "returned"}
  /\ stage \in {"idle", "executing", "awaiting-logits"}
  /\ item \in Nat /\ retired \in Nat /\ inFlight \in 0 .. Slots
  /\ oldest \in 0 .. Slots - 1 /\ next \in 0 .. Slots - 1
  /\ submitted \in Nat /\ finished \in 0 .. submitted
  /\ event \in [0 .. Slots - 1 -> Nat] /\ slotItem \in [0 .. Slots - 1 -> Nat]
  /\ cancelledAt \in Nat

\* What has been submitted at each point of the function.
Position ==
  /\ item =< Total /\ item =< submitted /\ submitted =< item + 1
  /\ pc \in {"enter", "enqueue"} => submitted = item /\ item < Total
  /\ pc = "record" => /\ submitted = item + 1 /\ item < Total
                      /\ bounded => inFlight < Slots
  /\ pc \in {"drain", "norm"} => item = Total /\ submitted = Total
  /\ pc \in {"sync", "replay", "merge"} => item = Total /\ submitted = Total + 1
  /\ pc \in {"norm", "sync", "replay", "merge"} => inFlight = 0
  /\ pc \in {"replay", "merge"} => finished = submitted
  /\ pc = "returned" => finished = submitted \/ broken

\* The outstanding slots are the events of the submissions after the retired.
Ring ==
  /\ ~bounded => inFlight = 0 /\ retired = 0
  /\ bounded =>
       /\ item = retired + inFlight
       /\ retired =< finished /\ submitted =< retired + Slots
       /\ next = (oldest + inFlight) % Slots
       /\ \A k \in 0 .. inFlight - 1 :
            /\ slotItem[(oldest + k) % Slots] = retired + k
            /\ event[(oldest + k) % Slots] = retired + k + 1

\* From the cancellation on nothing is retired before the host has seen it.
Cancellation ==
  bounded /\ cancel =>
    /\ submitted =< cancelledAt + Slots
    /\ pc \notin Ended => retired =< cancelledAt
    /\ result = "staged" => cancelledAt >= Total

Outcome ==
  /\ result \in {"none", "staged", "cancelled", "error"}
  /\ pc \notin Ended => result = "none"
  /\ result = "error" => faulted \/ broken
  /\ result = "staged" => pc = "returned" /\ submitted = Total + 1 /\ finished = Total + 1

WindowInv == RequestType /\ Position /\ Ring /\ Cancellation /\ Outcome

-----------------------------------------------------------------------------
\* A request has at least one quantum.
LEMMA TotalFacts ==
  ASSUME GoodPlan(plan)
  PROVE  /\ PerLayer(plan) \in Nat \ {0} /\ Total \in Nat \ {0}
         /\ Slots \in Nat \ {0} /\ Layers \in Nat \ {0}
<1>1. PerLayer(plan) \in Nat \ {0}
  BY DEF GoodPlan, PerLayer
<1>2. Layers \in Nat \ {0} /\ Slots \in Nat \ {0}
  BY GeometryAssumption, SlotsAssumption
<1>3. \A a, b \in Nat \ {0} : a * b \in Nat \ {0}
  OBVIOUS
<1> QED BY <1>1, <1>2, <1>3 DEF Total

\* A position of the ring: one wrap at most.
LEMMA RingSlot ==
  ASSUME NEW s \in Nat \ {0}, NEW o \in 0 .. s - 1, NEW k \in 0 .. s
  PROVE  /\ (o + k) % s = IF o + k < s THEN o + k ELSE o + k - s
         /\ (o + k) % s \in 0 .. s - 1
OBVIOUS

\* The client cancels: no more than a window was submitted since.
LEMMA ClientCancelsKeeps ==
  ASSUME WindowInv, ClientCancels
  PROVE  WindowInv'
<1>1. /\ ~cancel
      /\ pc # "returned"
      /\ cancel' \in BOOLEAN /\ cancel'
      /\ cancelledAt' = submitted
      /\ UNCHANGED <<plan, bounded, pc, item, inFlight, oldest, next,
                     slotItem, retired, submitted, finished, event, broken,
                     progress, replayed, stage, poisoned, result, faulted>>
  BY DEF ClientCancels, window, device, ledger, history
<1>2. Total' = Total /\ Total \in Nat \ {0} /\ Slots \in Nat \ {0}
  BY <1>1, TotalFacts DEF WindowInv, RequestType, Total, PerLayer
<1>3. RequestType'
  BY <1>1, <1>2 DEF WindowInv, RequestType, Position, Ring
<1>4. Position'
  BY <1>1, <1>2 DEF WindowInv, RequestType, Position, Ring
<1>5. Ring'
  BY <1>1, <1>2 DEF WindowInv, RequestType, Position, Ring
<1>6. Cancellation'
  BY <1>1, <1>2 DEF WindowInv, RequestType, Position, Ring, Cancellation, Outcome, Ended
<1>7. Outcome'
  BY <1>1, <1>2 DEF WindowInv, RequestType, Position, Ring, Outcome, Ended
<1> QED BY <1>3, <1>4, <1>5, <1>6, <1>7 DEF WindowInv

\* The device finishes the next quantum.
LEMMA DeviceFinishesKeeps ==
  ASSUME WindowInv, DeviceFinishes
  PROVE  WindowInv'
<1>1. /\ finished < submitted
      /\ finished' = finished + 1
      /\ ~broken
      /\ UNCHANGED <<plan, bounded, pc, item, inFlight, oldest, next,
                     slotItem, retired, submitted, event, broken, cancel,
                     progress, replayed, stage, poisoned, result,
                     cancelledAt, faulted>>
  BY DEF DeviceFinishes, window, device, ledger, history
<1>2. Total' = Total /\ Total \in Nat \ {0} /\ Slots \in Nat \ {0}
  BY <1>1, TotalFacts DEF WindowInv, RequestType, Total, PerLayer
<1>3. RequestType'
  BY <1>1, <1>2 DEF WindowInv, RequestType, Position, Ring
<1>4. Position'
  BY <1>1, <1>2 DEF WindowInv, RequestType, Position, Ring
<1>5. Ring'
  BY <1>1, <1>2 DEF WindowInv, RequestType, Position, Ring
<1>6. Cancellation'
  BY <1>1, <1>2 DEF WindowInv, RequestType, Position, Ring, Cancellation, Outcome, Ended
<1>7. Outcome'
  BY <1>1, <1>2 DEF WindowInv, RequestType, Position, Ring, Outcome, Ended
<1> QED BY <1>3, <1>4, <1>5, <1>6, <1>7 DEF WindowInv

\* The device breaks down with work left.
LEMMA DeviceBreaksKeeps ==
  ASSUME WindowInv, DeviceBreaks
  PROVE  WindowInv'
<1>1. /\ finished < submitted
      /\ broken' \in BOOLEAN /\ broken' /\ ~broken
      /\ UNCHANGED <<plan, bounded, pc, item, inFlight, oldest, next,
                     slotItem, retired, submitted, finished, event, cancel,
                     progress, replayed, stage, poisoned, result,
                     cancelledAt, faulted>>
  BY DEF DeviceBreaks, window, device, ledger, history
<1>2. Total' = Total /\ Total \in Nat \ {0} /\ Slots \in Nat \ {0}
  BY <1>1, TotalFacts DEF WindowInv, RequestType, Total, PerLayer
<1>3. RequestType'
  BY <1>1, <1>2 DEF WindowInv, RequestType, Position, Ring
<1>4. Position'
  BY <1>1, <1>2 DEF WindowInv, RequestType, Position, Ring
<1>5. Ring'
  BY <1>1, <1>2 DEF WindowInv, RequestType, Position, Ring
<1>6. Cancellation'
  BY <1>1, <1>2 DEF WindowInv, RequestType, Position, Ring, Cancellation, Outcome, Ended
<1>7. Outcome'
  BY <1>1, <1>2 DEF WindowInv, RequestType, Position, Ring, Outcome, Ended
<1> QED BY <1>3, <1>4, <1>5, <1>6, <1>7 DEF WindowInv

\* A launch, a record or a check fails, perhaps after it submitted work.
LEMMA CallFailsKeeps ==
  ASSUME WindowInv, CallFails
  PROVE  WindowInv'
<1>1. /\ pc \in {"enter", "enqueue", "record", "norm", "merge"}
      /\ pc' = "failing" /\ result' = "error"
      /\ faulted' \in BOOLEAN /\ faulted'
      /\ \/ submitted' = submitted
         \/ submitted' = submitted + 1 /\ pc = "enqueue" /\ ~MustRetire
      /\ UNCHANGED <<plan, bounded, item, inFlight, oldest, next, slotItem,
                     retired, finished, event, broken, cancel, progress,
                     replayed, stage, poisoned, cancelledAt>>
  BY DEF CallFails, Failing, window, device, ledger, history
<1>2. Total' = Total /\ Total \in Nat \ {0} /\ Slots \in Nat \ {0}
  BY <1>1, TotalFacts DEF WindowInv, RequestType, Total, PerLayer
<1>3. RequestType'
  BY <1>1, <1>2 DEF WindowInv, MustRetire, RequestType, Position, Ring
<1>4. Position'
  BY <1>1, <1>2 DEF WindowInv, MustRetire, RequestType, Position, Ring
<1>5. Ring'
  BY <1>1, <1>2 DEF WindowInv, MustRetire, RequestType, Position, Ring
<1>6. Cancellation'
  BY <1>1, <1>2 DEF WindowInv, MustRetire, RequestType, Position, Ring, Cancellation, Outcome, Ended
<1>7. Outcome'
  BY <1>1, <1>2 DEF WindowInv, MustRetire, RequestType, Position, Ring, Outcome, Ended
<1> QED BY <1>3, <1>4, <1>5, <1>6, <1>7 DEF WindowInv

\* The first poll.
LEMMA EnterKeeps ==
  ASSUME WindowInv, Enter
  PROVE  WindowInv'
<1>1. /\ pc = "enter"
      /\ \/ /\ pc' = "failing" /\ result' = "cancelled" /\ stage' = stage
         \/ /\ pc' = "enqueue" /\ result' = result /\ stage' = "executing"
      /\ UNCHANGED <<plan, bounded, item, inFlight, oldest, next, slotItem,
                     retired, submitted, finished, event, broken, cancel,
                     progress, replayed, poisoned, cancelledAt, faulted>>
  BY DEF Enter, Failing, window, device, ledger, history
<1>2. Total' = Total /\ Total \in Nat \ {0} /\ Slots \in Nat \ {0}
  BY <1>1, TotalFacts DEF WindowInv, RequestType, Total, PerLayer
<1>3. RequestType'
  BY <1>1, <1>2 DEF WindowInv, RequestType, Position, Ring
<1>4. Position'
  BY <1>1, <1>2 DEF WindowInv, RequestType, Position, Ring
<1>5. Ring'
  BY <1>1, <1>2 DEF WindowInv, RequestType, Position, Ring
<1>6. Cancellation'
  BY <1>1, <1>2 DEF WindowInv, RequestType, Position, Ring, Cancellation, Outcome, Ended
<1>7. Outcome'
  BY <1>1, <1>2 DEF WindowInv, RequestType, Position, Ring, Outcome, Ended
<1> QED BY <1>3, <1>4, <1>5, <1>6, <1>7 DEF WindowInv

\* The oldest submission is retired, and the probe is asked.
LEMMA RetireOldestKeeps ==
  ASSUME WindowInv, RetireOldest
  PROVE  WindowInv'
<1>1. /\ Retiring /\ EventReached(oldest)
      /\ oldest' = (oldest + 1) % Slots
      /\ inFlight' = inFlight - 1
      /\ retired' = retired + 1
      /\ \/ Polled /\ pc' = "failing" /\ result' = "cancelled"
         \/ ~Polled /\ pc' = pc /\ result' = result
      /\ UNCHANGED <<plan, bounded, item, next, slotItem, submitted,
                     finished, event, broken, cancel, progress, replayed,
                     stage, poisoned, cancelledAt, faulted>>
  BY DEF RetireOldest, Failing, window, device, ledger, history
<1>2. Total' = Total /\ Total \in Nat \ {0} /\ Slots \in Nat \ {0}
  BY <1>1, TotalFacts DEF WindowInv, RequestType, Total, PerLayer
<1>3. RequestType'
  <2>1. /\ oldest \in 0 .. Slots - 1 /\ inFlight \in 0 .. Slots /\ inFlight # 0
        /\ retired \in Nat
    BY <1>1, <1>2 DEF WindowInv, RequestType, Retiring, MustRetire
  <2>2. oldest' \in 0 .. Slots - 1
    <3>1. 1 \in 0 .. Slots
      BY <1>2
    <3> QED BY <1>1, <1>2, <2>1, <3>1, RingSlot
  <2>3. inFlight' \in 0 .. Slots /\ retired' \in Nat
    BY <1>1, <1>2, <2>1
  <2>4. pc' \in {"enter", "enqueue", "record", "drain", "norm", "sync", "replay",
                "merge", "failing", "returned"}
    BY <1>1 DEF WindowInv, RequestType
  <2> QED BY <1>1, <2>2, <2>3, <2>4 DEF WindowInv, RequestType
<1>4. Position'
  BY <1>1, <1>2 DEF WindowInv, Retiring, MustRetire, Polled, EventReached, RequestType, Position, Ring
<1>5. Ring'
  <2>1. /\ bounded /\ inFlight \in 1 .. Slots /\ oldest \in 0 .. Slots - 1
        /\ retired \in Nat /\ finished \in Nat /\ event[oldest] =< finished
        /\ next = (oldest + inFlight) % Slots
        /\ item = retired + inFlight /\ submitted =< retired + Slots /\ submitted \in Nat
    BY <1>1, <1>2
    DEF WindowInv, RequestType, Ring, Retiring, MustRetire, EventReached
  <2>2. \A k \in 0 .. inFlight - 1 :
          /\ slotItem[(oldest + k) % Slots] = retired + k
          /\ event[(oldest + k) % Slots] = retired + k + 1
    BY <2>1 DEF WindowInv, Ring
  <2>3. oldest' \in 0 .. Slots - 1
    BY <1>1, <1>2, <2>1, RingSlot
  <2>4. \A k \in 0 .. inFlight - 1 : (oldest' + k) % Slots = (oldest + (k + 1)) % Slots
    <3> SUFFICES ASSUME NEW k \in 0 .. inFlight - 1
                 PROVE  (oldest' + k) % Slots = (oldest + (k + 1)) % Slots
      OBVIOUS
    <3>1. k \in 0 .. Slots /\ k + 1 \in 0 .. Slots /\ k =< Slots - 1 /\ 1 \in 0 .. Slots
      BY <1>2, <2>1
    <3>2. oldest' = IF oldest + 1 < Slots THEN oldest + 1 ELSE oldest + 1 - Slots
      BY <1>1, <1>2, <2>1, <3>1, RingSlot
    <3>3. (oldest' + k) % Slots = IF oldest' + k < Slots THEN oldest' + k
                                                         ELSE oldest' + k - Slots
      BY <1>2, <2>3, <3>1, RingSlot
    <3>4. (oldest + (k + 1)) % Slots
            = IF oldest + (k + 1) < Slots THEN oldest + (k + 1)
                                          ELSE oldest + (k + 1) - Slots
      BY <1>2, <2>1, <3>1, RingSlot
    <3> QED BY <1>2, <2>1, <3>1, <3>2, <3>3, <3>4
  <2>5. next' = (oldest' + inFlight') % Slots
    <3>1. inFlight - 1 \in 0 .. inFlight - 1 /\ (inFlight - 1) + 1 = inFlight
      BY <1>2, <2>1
    <3> QED BY <1>1, <2>1, <2>4, <3>1
  <2>6. retired + 1 =< finished
    <3>1. 0 \in 0 .. inFlight - 1 /\ (oldest + 0) % Slots = oldest
      BY <1>2, <2>1
    <3>2. event[oldest] = retired + 0 + 1
      BY <2>2, <3>1
    <3> QED BY <2>1, <3>2
  <2>7. ASSUME NEW k \in 0 .. inFlight' - 1
        PROVE  /\ slotItem'[(oldest' + k) % Slots] = retired' + k
               /\ event'[(oldest' + k) % Slots] = retired' + k + 1
    <3>1. k \in 0 .. inFlight - 1 /\ k + 1 \in 0 .. inFlight - 1
      BY <1>1, <2>1
    <3>2. /\ slotItem[(oldest + (k + 1)) % Slots] = retired + (k + 1)
          /\ event[(oldest + (k + 1)) % Slots] = retired + (k + 1) + 1
      BY <2>2, <3>1
    <3>3. (oldest' + k) % Slots = (oldest + (k + 1)) % Slots
      BY <2>4, <3>1
    <3>4. retired' + k = retired + (k + 1)
      BY <1>1, <2>1, <3>1
    <3>5. slotItem' = slotItem /\ event' = event
      BY <1>1
    <3> QED BY <3>2, <3>3, <3>4, <3>5
  <2>8. /\ bounded' = bounded /\ item' = retired' + inFlight' /\ retired' =< finished'
        /\ submitted' =< retired' + Slots
    BY <1>1, <1>2, <2>1, <2>6
  <2> QED BY <2>1, <2>5, <2>7, <2>8 DEF Ring
<1>6. Cancellation'
  BY <1>1, <1>2 DEF WindowInv, Retiring, MustRetire, Polled, EventReached, RequestType, Position, Ring, Cancellation, Outcome, Ended
<1>7. Outcome'
  BY <1>1, <1>2 DEF WindowInv, Retiring, MustRetire, Polled, EventReached, RequestType, Position, Ring, Outcome, Ended
<1> QED BY <1>3, <1>4, <1>5, <1>6, <1>7 DEF WindowInv

\* The wait for an event or for the stream fails.
LEMMA WaitFailsKeeps ==
  ASSUME WindowInv, WaitFails
  PROVE  WindowInv'
<1>1. /\ Retiring \/ pc = "sync"
      /\ broken
      /\ pc' = "failing" /\ result' = "error"
      /\ faulted' \in BOOLEAN /\ faulted'
      /\ UNCHANGED <<plan, bounded, item, inFlight, oldest, next, slotItem,
                     retired, submitted, finished, event, broken, cancel,
                     progress, replayed, stage, poisoned, cancelledAt>>
  BY DEF WaitFails, Failing, window, device, ledger, history
<1>2. Total' = Total /\ Total \in Nat \ {0} /\ Slots \in Nat \ {0}
  BY <1>1, TotalFacts DEF WindowInv, RequestType, Total, PerLayer
<1>3. RequestType'
  BY <1>1, <1>2 DEF WindowInv, Retiring, MustRetire, RequestType, Position, Ring
<1>4. Position'
  BY <1>1, <1>2 DEF WindowInv, Retiring, MustRetire, RequestType, Position, Ring
<1>5. Ring'
  BY <1>1, <1>2 DEF WindowInv, Retiring, MustRetire, RequestType, Position, Ring
<1>6. Cancellation'
  BY <1>1, <1>2 DEF WindowInv, Retiring, MustRetire, RequestType, Position, Ring, Cancellation, Outcome, Ended
<1>7. Outcome'
  BY <1>1, <1>2 DEF WindowInv, Retiring, MustRetire, RequestType, Position, Ring, Outcome, Ended
<1> QED BY <1>3, <1>4, <1>5, <1>6, <1>7 DEF WindowInv

\* A quantum is submitted when the window has room.
LEMMA EnqueueKeeps ==
  ASSUME WindowInv, Enqueue
  PROVE  WindowInv'
<1>1. /\ pc = "enqueue" /\ pc' = "record"
      /\ ~MustRetire
      /\ submitted' = submitted + 1
      /\ UNCHANGED <<plan, bounded, item, inFlight, oldest, next, slotItem,
                     retired, finished, event, broken, cancel, progress,
                     replayed, stage, poisoned, result, cancelledAt, faulted>>
  BY DEF Enqueue, Host, window, device, ledger, history
<1>2. Total' = Total /\ Total \in Nat \ {0} /\ Slots \in Nat \ {0}
  BY <1>1, TotalFacts DEF WindowInv, RequestType, Total, PerLayer
<1>3. RequestType'
  BY <1>1, <1>2 DEF WindowInv, MustRetire, RequestType, Position, Ring
<1>4. Position'
  BY <1>1, <1>2 DEF WindowInv, MustRetire, RequestType, Position, Ring
<1>5. Ring'
  BY <1>1, <1>2 DEF WindowInv, MustRetire, RequestType, Position, Ring
<1>6. Cancellation'
  BY <1>1, <1>2 DEF WindowInv, MustRetire, RequestType, Position, Ring, Cancellation, Outcome, Ended
<1>7. Outcome'
  BY <1>1, <1>2 DEF WindowInv, MustRetire, RequestType, Position, Ring, Outcome, Ended
<1> QED BY <1>3, <1>4, <1>5, <1>6, <1>7 DEF WindowInv

\* Its event is recorded in the next slot of the ring.
LEMMA RecordKeeps ==
  ASSUME WindowInv, Record
  PROVE  WindowInv'
<1>1. /\ pc = "record"
      /\ item' = item + 1
      /\ pc' = IF item + 1 = Total THEN "drain" ELSE "enqueue"
      /\ bounded => /\ event' = [event EXCEPT ![next] = submitted]
                    /\ slotItem' = [slotItem EXCEPT ![next] = item]
                    /\ oldest' = IF inFlight = 0 THEN next ELSE oldest
                    /\ next' = (next + 1) % Slots
                    /\ inFlight' = inFlight + 1
      /\ ~bounded => UNCHANGED <<event, slotItem, oldest, next, inFlight>>
      /\ UNCHANGED <<plan, bounded, retired, submitted, finished, broken,
                     cancel, progress, replayed, stage, poisoned, result,
                     cancelledAt, faulted>>
  BY DEF Record, NextSlot, window, device, ledger, history
<1>2. Total' = Total /\ Total \in Nat \ {0} /\ Slots \in Nat \ {0}
  BY <1>1, TotalFacts DEF WindowInv, RequestType, Total, PerLayer
<1>3. RequestType'
  <2>1. /\ next \in 0 .. Slots - 1 /\ item \in Nat /\ submitted \in Nat
        /\ bounded => inFlight + 1 \in 0 .. Slots
    BY <1>1, <1>2 DEF WindowInv, RequestType, Position
  <2>2. (next + 1) % Slots \in 0 .. Slots - 1
    BY <1>2, <2>1
  <2>3. CASE bounded
    <3>1. /\ event' = [event EXCEPT ![next] = submitted]
          /\ slotItem' = [slotItem EXCEPT ![next] = item]
          /\ oldest' = IF inFlight = 0 THEN next ELSE oldest
          /\ next' = (next + 1) % Slots /\ inFlight' = inFlight + 1
      BY <1>1, <2>3
    <3>2. /\ event' \in [0 .. Slots - 1 -> Nat]
          /\ slotItem' \in [0 .. Slots - 1 -> Nat]
      BY <2>1, <3>1 DEF WindowInv, RequestType
    <3>3. next' \in 0 .. Slots - 1
      BY <2>2, <3>1
    <3>4. oldest' \in 0 .. Slots - 1
      <4>1. oldest \in 0 .. Slots - 1
        BY DEF WindowInv, RequestType
      <4> QED BY <2>1, <3>1, <4>1
    <3>5. inFlight' \in 0 .. Slots /\ item' \in Nat
      BY <1>1, <2>1, <2>3, <3>1
    <3>6. pc' \in {"enter", "enqueue", "record", "drain", "norm", "sync", "replay",
                  "merge", "failing", "returned"}
      BY <1>1
    <3> QED
      BY <1>1, <3>2, <3>3, <3>4, <3>5, <3>6 DEF WindowInv, RequestType
  <2>4. CASE ~bounded
    BY <1>1, <2>1, <2>4 DEF WindowInv, RequestType
  <2> QED BY <2>3, <2>4
<1>4. Position'
  BY <1>1, <1>2 DEF WindowInv, RequestType, Position, Ring
<1>5. Ring'
  <2>1. CASE ~bounded
    BY <1>1, <1>2, <2>1 DEF WindowInv, RequestType, Position, Ring
  <2>2. CASE bounded
    <3>1. /\ inFlight \in 0 .. Slots - 1 /\ oldest \in 0 .. Slots - 1
          /\ next \in 0 .. Slots - 1 /\ next = (oldest + inFlight) % Slots
          /\ retired \in Nat /\ finished \in Nat /\ retired =< finished
          /\ item = retired + inFlight /\ submitted = item + 1
          /\ event \in [0 .. Slots - 1 -> Nat] /\ slotItem \in [0 .. Slots - 1 -> Nat]
      <4>1. /\ inFlight \in 0 .. Slots /\ oldest \in 0 .. Slots - 1
            /\ next \in 0 .. Slots - 1 /\ retired \in Nat
            /\ submitted \in Nat /\ finished \in 0 .. submitted
            /\ event \in [0 .. Slots - 1 -> Nat] /\ slotItem \in [0 .. Slots - 1 -> Nat]
        BY DEF WindowInv, RequestType
      <4>2. inFlight # Slots /\ submitted = item + 1
        BY <1>1, <1>2, <2>2, <4>1 DEF WindowInv, RequestType, Position
      <4>3. /\ next = (oldest + inFlight) % Slots /\ retired =< finished
            /\ item = retired + inFlight
        BY <2>2 DEF WindowInv, Ring
      <4>4. inFlight \in 0 .. Slots - 1 /\ finished \in Nat
        BY <1>2, <4>1, <4>2
      <4> QED BY <4>1, <4>2, <4>3, <4>4
    <3>2. \A k \in 0 .. inFlight - 1 :
            /\ slotItem[(oldest + k) % Slots] = retired + k
            /\ event[(oldest + k) % Slots] = retired + k + 1
      BY <2>2 DEF WindowInv, Ring
    <3>3. next = IF oldest + inFlight < Slots THEN oldest + inFlight
                                              ELSE oldest + inFlight - Slots
      <4>1. inFlight \in 0 .. Slots /\ oldest \in 0 .. Slots - 1
        BY <1>2, <3>1
      <4> QED BY <1>2, <3>1, <4>1, RingSlot
    <3>4. oldest' = oldest
      <4>1. CASE inFlight = 0
        <5>1. oldest + inFlight = oldest /\ oldest + inFlight < Slots
          BY <1>2, <3>1, <4>1
        <5>2. next = oldest
          BY <3>3, <5>1
        <5>3. oldest' = next
          BY <1>1, <2>2, <4>1
        <5> QED BY <5>2, <5>3
      <4> QED BY <1>1, <2>2, <4>1
    <3>5. next' = (oldest + (inFlight + 1)) % Slots
      <4>1. next = IF oldest + inFlight < Slots THEN oldest + inFlight
                                                ELSE oldest + inFlight - Slots
        BY <3>3
      <4>2. /\ 1 \in 0 .. Slots /\ inFlight + 1 \in 0 .. Slots /\ inFlight \in Nat
            /\ oldest \in 0 .. Slots - 1 /\ next \in 0 .. Slots - 1
            /\ next' = (next + 1) % Slots
        BY <1>1, <1>2, <2>2, <3>1
      <4>3. (next + 1) % Slots = IF next + 1 < Slots THEN next + 1 ELSE next + 1 - Slots
        BY <1>2, <3>1, <4>2, RingSlot
      <4>4. (oldest + (inFlight + 1)) % Slots
              = IF oldest + (inFlight + 1) < Slots THEN oldest + (inFlight + 1)
                                                   ELSE oldest + (inFlight + 1) - Slots
        BY <1>2, <3>1, <4>2, RingSlot
      <4> QED BY <1>2, <4>1, <4>2, <4>3, <4>4
    <3>6. ASSUME NEW k \in 0 .. inFlight - 1
          PROVE  (oldest + k) % Slots \in 0 .. Slots - 1 /\ (oldest + k) % Slots # next
      <4>1. k \in 0 .. Slots /\ inFlight \in 0 .. Slots
        BY <1>2, <3>1
      <4>2. (oldest + k) % Slots = IF oldest + k < Slots THEN oldest + k
                                                         ELSE oldest + k - Slots
        BY <1>2, <3>1, <4>1, RingSlot
      <4>3. /\ inFlight \in 0 .. Slots - 1 /\ oldest \in 0 .. Slots - 1
            /\ next \in 0 .. Slots - 1
        BY <3>1
      <4> QED BY <1>2, <4>2, <4>3, <3>3
    <3>7. /\ event'[next] = submitted /\ slotItem'[next] = item
          /\ \A j \in 0 .. Slots - 1 :
               j # next => event'[j] = event[j] /\ slotItem'[j] = slotItem[j]
      BY <1>1, <2>2, <3>1
    <3>8. ASSUME NEW k \in 0 .. inFlight
          PROVE  /\ slotItem'[(oldest + k) % Slots] = retired + k
                 /\ event'[(oldest + k) % Slots] = retired + k + 1
      <4>1. CASE k = inFlight
        BY <3>1, <3>7, <4>1
      <4>2. CASE k # inFlight
        <5>1. k \in 0 .. inFlight - 1
          BY <3>1, <4>2
        <5> QED BY <3>2, <3>6, <3>7, <5>1
      <4> QED BY <4>1, <4>2
    <3>9. inFlight' = inFlight + 1 /\ inFlight' - 1 = inFlight
      BY <1>1, <2>2, <3>1
    <3>10. /\ retired' = retired /\ finished' = finished /\ submitted' = submitted
           /\ item' = item + 1
      BY <1>1
    <3>11. next' = (oldest' + inFlight') % Slots
      BY <3>4, <3>5, <3>9
    <3>12. \A k \in 0 .. inFlight' - 1 :
             /\ slotItem'[(oldest' + k) % Slots] = retired' + k
             /\ event'[(oldest' + k) % Slots] = retired' + k + 1
      BY <3>4, <3>8, <3>9, <3>10
    <3>13. /\ bounded' = bounded /\ item' = retired' + inFlight' /\ retired' =< finished'
           /\ submitted' =< retired' + Slots
      BY <1>1, <1>2, <3>1, <3>9, <3>10
    <3> QED BY <2>2, <3>11, <3>12, <3>13 DEF Ring
  <2> QED BY <2>1, <2>2
<1>6. Cancellation'
  BY <1>1, <1>2 DEF WindowInv, RequestType, Position, Ring, Cancellation, Outcome, Ended
<1>7. Outcome'
  BY <1>1, <1>2 DEF WindowInv, RequestType, Position, Ring, Outcome, Ended
<1> QED BY <1>3, <1>4, <1>5, <1>6, <1>7 DEF WindowInv

\* Nothing is outstanding.
LEMMA DrainedWindowKeeps ==
  ASSUME WindowInv, DrainedWindow
  PROVE  WindowInv'
<1>1. /\ pc = "drain" /\ pc' = "norm"
      /\ inFlight = 0
      /\ UNCHANGED <<plan, bounded, item, inFlight, oldest, next, slotItem,
                     retired, submitted, finished, event, broken, cancel,
                     progress, replayed, stage, poisoned, result,
                     cancelledAt, faulted>>
  BY DEF DrainedWindow, Host, window, device, ledger, history
<1>2. Total' = Total /\ Total \in Nat \ {0} /\ Slots \in Nat \ {0}
  BY <1>1, TotalFacts DEF WindowInv, RequestType, Total, PerLayer
<1>3. RequestType'
  BY <1>1, <1>2 DEF WindowInv, RequestType, Position, Ring
<1>4. Position'
  BY <1>1, <1>2 DEF WindowInv, RequestType, Position, Ring
<1>5. Ring'
  BY <1>1, <1>2 DEF WindowInv, RequestType, Position, Ring
<1>6. Cancellation'
  BY <1>1, <1>2 DEF WindowInv, RequestType, Position, Ring, Cancellation, Outcome, Ended
<1>7. Outcome'
  BY <1>1, <1>2 DEF WindowInv, RequestType, Position, Ring, Outcome, Ended
<1> QED BY <1>3, <1>4, <1>5, <1>6, <1>7 DEF WindowInv

\* The last quantum.
LEMMA FinalNormKeeps ==
  ASSUME WindowInv, FinalNorm
  PROVE  WindowInv'
<1>1. /\ pc = "norm" /\ pc' = "sync"
      /\ submitted' = submitted + 1
      /\ UNCHANGED <<plan, bounded, item, inFlight, oldest, next, slotItem,
                     retired, finished, event, broken, cancel, progress,
                     replayed, stage, poisoned, result, cancelledAt, faulted>>
  BY DEF FinalNorm, Host, window, device, ledger, history
<1>2. Total' = Total /\ Total \in Nat \ {0} /\ Slots \in Nat \ {0}
  BY <1>1, TotalFacts DEF WindowInv, RequestType, Total, PerLayer
<1>3. RequestType'
  BY <1>1, <1>2 DEF WindowInv, RequestType, Position, Ring
<1>4. Position'
  BY <1>1, <1>2 DEF WindowInv, RequestType, Position, Ring
<1>5. Ring'
  BY <1>1, <1>2 DEF WindowInv, RequestType, Position, Ring
<1>6. Cancellation'
  BY <1>1, <1>2 DEF WindowInv, RequestType, Position, Ring, Cancellation, Outcome, Ended
<1>7. Outcome'
  BY <1>1, <1>2 DEF WindowInv, RequestType, Position, Ring, Outcome, Ended
<1> QED BY <1>3, <1>4, <1>5, <1>6, <1>7 DEF WindowInv

\* The whole stream is finished.
LEMMA SynchronizeKeeps ==
  ASSUME WindowInv, Synchronize
  PROVE  WindowInv'
<1>1. /\ pc = "sync" /\ finished = submitted
      /\ \/ pc' = "failing" /\ result' = "cancelled"
         \/ pc' = "replay" /\ result' = result
      /\ UNCHANGED <<plan, bounded, item, inFlight, oldest, next, slotItem,
                     retired, submitted, finished, event, broken, cancel,
                     progress, replayed, stage, poisoned, cancelledAt,
                     faulted>>
  BY DEF Synchronize, Failing, StreamDrained, window, device, ledger, history
<1>2. Total' = Total /\ Total \in Nat \ {0} /\ Slots \in Nat \ {0}
  BY <1>1, TotalFacts DEF WindowInv, RequestType, Total, PerLayer
<1>3. RequestType'
  BY <1>1, <1>2 DEF WindowInv, RequestType, Position, Ring
<1>4. Position'
  BY <1>1, <1>2 DEF WindowInv, RequestType, Position, Ring
<1>5. Ring'
  BY <1>1, <1>2 DEF WindowInv, RequestType, Position, Ring
<1>6. Cancellation'
  BY <1>1, <1>2 DEF WindowInv, RequestType, Position, Ring, Cancellation, Outcome, Ended
<1>7. Outcome'
  BY <1>1, <1>2 DEF WindowInv, RequestType, Position, Ring, Outcome, Ended
<1> QED BY <1>3, <1>4, <1>5, <1>6, <1>7 DEF WindowInv

\* The streams are drained before a failed call returns.
LEMMA FailWholeRequestKeeps ==
  ASSUME WindowInv, FailWholeRequest
  PROVE  WindowInv'
<1>1. /\ pc = "failing" /\ pc' = "returned"
      /\ finished = submitted \/ broken
      /\ result' = IF broken THEN "error" ELSE result
      /\ poisoned' \in BOOLEAN
      /\ stage' = "idle"
      /\ UNCHANGED <<plan, bounded, item, inFlight, oldest, next, slotItem,
                     retired, submitted, finished, event, broken, cancel,
                     progress, replayed, cancelledAt, faulted>>
  BY DEF FailWholeRequest, Host, StreamDrained, window, device, ledger, history
<1>2. Total' = Total /\ Total \in Nat \ {0} /\ Slots \in Nat \ {0}
  BY <1>1, TotalFacts DEF WindowInv, RequestType, Total, PerLayer
<1>3. RequestType'
  BY <1>1, <1>2 DEF WindowInv, RequestType, Position, Ring
<1>4. Position'
  BY <1>1, <1>2 DEF WindowInv, RequestType, Position, Ring
<1>5. Ring'
  BY <1>1, <1>2 DEF WindowInv, RequestType, Position, Ring
<1>6. Cancellation'
  BY <1>1, <1>2 DEF WindowInv, RequestType, Position, Ring, Cancellation, Outcome, Ended
<1>7. Outcome'
  BY <1>1, <1>2 DEF WindowInv, RequestType, Position, Ring, Outcome, Ended
<1> QED BY <1>3, <1>4, <1>5, <1>6, <1>7 DEF WindowInv

(***************************************************************************)
(* The ledger as the replay leaves it                                      *)
(***************************************************************************)
\* A column of the ledger: the layers done, the layer at hand, the others.
Column(l, done, here, fresh) ==
  [j \in LayerSet |-> IF j < l THEN done ELSE IF j = l THEN here ELSE fresh]

OfWholeCore(x) == IF plan.tactic = WholeCore THEN x ELSE 0

LedgerRecord ==
  [end : Counter, panels : Counter, mlp : Counter, fill : Counter, core : Counter,
   drain : Counter, layer : Nat, panel : Nat, ready : BOOLEAN, committed : BOOLEAN]

IsLedger(p, l, end, panels, mlp, fill, core, drain, panel) ==
  /\ p \in LedgerRecord
  /\ p.end = Column(l, plan.final, end, plan.first)
  /\ p.panels = Column(l, plan.panelCount, panels, 0)
  /\ p.mlp = Column(l, MlpPhases(plan), mlp, 0)
  /\ p.fill = Column(l, OfWholeCore(plan.panelCount), fill, 0)
  /\ p.core = Column(l, OfWholeCore(1), core, 0)
  /\ p.drain = Column(l, OfWholeCore(plan.panelCount), drain, 0)
  /\ p.layer = l /\ p.panel = panel /\ ~p.ready /\ ~p.committed

\* How far the first k panels reach, and the panel cursor after them.
Wrapped(k) == IF k = plan.panelCount THEN 0 ELSE k

\* The ledger when the quanta before phase k of layer l have been replayed.
Draining(p, l, d) ==
  IsLedger(p, l, plan.final, d, 0, plan.panelCount, 1, d, Wrapped(d))

LedgerAt(p, l, k) ==
  /\ plan.tactic = "per-panel" => IsLedger(p, l, CutAt(k), k, k, 0, 0, 0, k)
  /\ plan.tactic = LayerWide => IsLedger(p, l, CutAt(k), k, 0, 0, 0, 0, Wrapped(k))
  /\ plan.tactic = WholeCore =>
       IF k =< plan.panelCount
         THEN IsLedger(p, l, plan.first, 0, 0, k, 0, 0, Wrapped(k))
         ELSE Draining(p, l, k - plan.panelCount - 1)
  /\ plan.tactic \in AtomicTactics => IsLedger(p, l, plan.first, 0, 0, 0, 0, 0, 0)

Replayed(l, k) ==
  /\ l \in 0 .. Layers /\ k \in 0 .. PerLayer(plan) - 1
  /\ l = Layers => k = 0
  /\ replayed = l * PerLayer(plan) + k
  /\ LedgerAt(progress, l, k)

ReplayInv ==
  /\ replayed \in 0 .. Total
  /\ pc \notin Ended \cup {"merge"} => \E l, k \in Nat : Replayed(l, k)
  /\ pc = "merge" \/ result = "staged" => FinalCommitReady(plan, progress)

-----------------------------------------------------------------------------
LEMMA ColumnAt ==
  ASSUME NEW l \in LayerSet, NEW done, NEW here, NEW fresh
  PROVE  Column(l, done, here, fresh)[l] = here
<1>1. ~ (l < l)
  BY GeometryAssumption DEF LayerSet
<1> QED BY <1>1 DEF Column

LEMMA ColumnPut ==
  ASSUME NEW l \in LayerSet, NEW done, NEW here, NEW fresh, NEW v
  PROVE  [Column(l, done, here, fresh) EXCEPT ![l] = v] = Column(l, done, v, fresh)
<1>1. ~ (l < l)
  BY GeometryAssumption DEF LayerSet
<1> QED BY <1>1 DEF Column

LEMMA ColumnNext ==
  ASSUME NEW l \in LayerSet, NEW done, NEW fresh
  PROVE  Column(l, done, done, fresh) = Column(l + 1, done, fresh, fresh)
<1>1. \A j \in LayerSet : (j < l \/ j = l <=> j < l + 1) /\ j \in Int /\ l \in Int
  BY GeometryAssumption DEF LayerSet
<1> QED BY <1>1 DEF Column

LEMMA ColumnStart ==
  ASSUME NEW done, NEW fresh
  PROVE  Column(0, done, fresh, fresh) = [j \in LayerSet |-> fresh]
<1>1. \A j \in LayerSet : ~ (j < 0)
  BY GeometryAssumption DEF LayerSet
<1> QED BY <1>1 DEF Column

\* The panels in terms of the cuts between them.
LEMMA CutFacts ==
  ASSUME GoodPlan(plan)
  PROVE  /\ plan.panelCount \in Nat \ {0} /\ plan.tactic \in Tactics
         /\ plan.first \in Nat /\ plan.final \in Nat
         /\ CutAt(0) = plan.first /\ CutAt(plan.panelCount) = plan.final
         /\ \A k \in 0 .. plan.panelCount : CutAt(k) \in Nat
         /\ \A k \in 0 .. plan.panelCount - 1 :
              /\ plan.panels[k].first = CutAt(k)
              /\ plan.panels[k].end = CutAt(k + 1)
<1> DEFINE n == plan.panelCount
<1>1. /\ n \in Nat \ {0} /\ plan.tactic \in Tactics /\ PanelsCover(plan)
      /\ plan.first \in Nat /\ plan.final \in Nat
  BY DEF GoodPlan
<1>2. CutAt(0) = plan.first /\ CutAt(plan.panelCount) = plan.final
  BY <1>1 DEF CutAt, PanelsCover
<1>3. ASSUME NEW k \in 0 .. n - 1
      PROVE  plan.panels[k].first = CutAt(k) /\ plan.panels[k].end = CutAt(k + 1)
  <2>1. plan.panels[k].first = CutAt(k)
    BY <1>1 DEF CutAt
  <2>2. CASE k = n - 1
    <3>1. k + 1 = n
      BY <1>1, <2>2
    <3> QED BY <1>1, <2>1, <2>2, <3>1 DEF CutAt, PanelsCover
  <2>3. CASE k # n - 1
    <3>1. k + 1 \in 0 .. n - 1 /\ k + 1 > 0 /\ (k + 1) - 1 = k /\ k + 1 # n
      BY <1>1, <2>3
    <3>2. plan.panels[k + 1].first = plan.panels[k].end
      BY <1>1, <3>1 DEF PanelsCover
    <3> QED BY <2>1, <3>1, <3>2 DEF CutAt
  <2> QED BY <2>2, <2>3
<1>4. \A k \in 0 .. n : CutAt(k) \in Nat
  BY <1>1 DEF CutAt, PanelsCover
<1> QED BY <1>1, <1>2, <1>3, <1>4

\* What the ledger holds of the layer at hand.
LEMMA RowFacts ==
  ASSUME NEW p, NEW l \in LayerSet, NEW end, NEW panels, NEW mlp, NEW fill,
         NEW core, NEW drain, NEW panel,
         IsLedger(p, l, end, panels, mlp, fill, core, drain, panel)
  PROVE  /\ Open(p, l) /\ p.panel = panel
         /\ p.end[l] = end /\ p.panels[l] = panels /\ p.mlp[l] = mlp
         /\ p.fill[l] = fill /\ p.core[l] = core /\ p.drain[l] = drain
BY ColumnAt DEF IsLedger, Open

\* q is p with the row of layer l written and the cursor moved.
Written(q, p, l, end, panels, mlp, fill, core, drain, layer, panel) ==
  /\ q = [p EXCEPT !.end = [p.end EXCEPT ![l] = end],
                   !.panels = [p.panels EXCEPT ![l] = panels],
                   !.mlp = [p.mlp EXCEPT ![l] = mlp],
                   !.fill = [p.fill EXCEPT ![l] = fill],
                   !.core = [p.core EXCEPT ![l] = core],
                   !.drain = [p.drain EXCEPT ![l] = drain],
                   !.layer = layer, !.panel = panel]

Naturals(end, panels, mlp, fill, core, drain, panel) ==
  {end, panels, mlp, fill, core, drain, panel} \subseteq Nat

LEMMA WriteRow ==
  ASSUME NEW p, NEW l \in LayerSet, NEW end0, NEW panels0, NEW mlp0, NEW fill0,
         NEW core0, NEW drain0, NEW panel0,
         IsLedger(p, l, end0, panels0, mlp0, fill0, core0, drain0, panel0),
         NEW end, NEW panels, NEW mlp, NEW fill, NEW core, NEW drain, NEW panel,
         Naturals(end, panels, mlp, fill, core, drain, panel), NEW q
  PROVE  /\ Written(q, p, l, end, panels, mlp, fill, core, drain, l, panel) =>
              IsLedger(q, l, end, panels, mlp, fill, core, drain, panel)
         /\ /\ Written(q, p, l, end, panels, mlp, fill, core, drain, l + 1, 0)
            /\ end = plan.final /\ panels = plan.panelCount /\ mlp = MlpPhases(plan)
            /\ fill = OfWholeCore(plan.panelCount) /\ core = OfWholeCore(1)
            /\ drain = OfWholeCore(plan.panelCount)
            => IsLedger(q, l + 1, plan.first, 0, 0, 0, 0, 0, 0)
<1> DEFINE e == [p.end EXCEPT ![l] = end]
           a == [p.panels EXCEPT ![l] = panels]
           m == [p.mlp EXCEPT ![l] = mlp]
           f == [p.fill EXCEPT ![l] = fill]
           c == [p.core EXCEPT ![l] = core]
           d == [p.drain EXCEPT ![l] = drain]
<1>1. p \in LedgerRecord /\ l \in Nat /\ l + 1 \in Nat
  BY GeometryAssumption DEF IsLedger, LayerSet
<1>2. /\ e \in Counter /\ a \in Counter /\ m \in Counter
      /\ f \in Counter /\ c \in Counter /\ d \in Counter /\ panel \in Nat
  BY <1>1 DEF LedgerRecord, Counter, Naturals
<1>3. /\ e = Column(l, plan.final, end, plan.first)
      /\ a = Column(l, plan.panelCount, panels, 0)
      /\ m = Column(l, MlpPhases(plan), mlp, 0)
      /\ f = Column(l, OfWholeCore(plan.panelCount), fill, 0)
      /\ c = Column(l, OfWholeCore(1), core, 0)
      /\ d = Column(l, OfWholeCore(plan.panelCount), drain, 0)
  BY ColumnPut DEF IsLedger
<1>4. ASSUME NEW y \in Nat, NEW x \in Nat,
             Written(q, p, l, end, panels, mlp, fill, core, drain, y, x)
      PROVE  /\ q \in LedgerRecord
             /\ q.end = e /\ q.panels = a /\ q.mlp = m /\ q.fill = f /\ q.core = c
             /\ q.drain = d /\ q.panel = x /\ q.layer = y
             /\ q.ready = p.ready /\ q.committed = p.committed
  <2>1. q = [p EXCEPT !.end = e, !.panels = a, !.mlp = m, !.fill = f, !.core = c,
                      !.drain = d, !.layer = y, !.panel = x]
    BY <1>4 DEF Written
  <2> HIDE DEF e, a, m, f, c, d
  <2> QED BY <1>1, <1>2, <1>4, <2>1 DEF LedgerRecord
<1> HIDE DEF e, a, m, f, c, d
<1>5. Written(q, p, l, end, panels, mlp, fill, core, drain, l, panel) =>
        IsLedger(q, l, end, panels, mlp, fill, core, drain, panel)
  BY <1>1, <1>2, <1>3, <1>4 DEF IsLedger
<1>6. /\ Written(q, p, l, end, panels, mlp, fill, core, drain, l + 1, 0)
      /\ end = plan.final /\ panels = plan.panelCount /\ mlp = MlpPhases(plan)
      /\ fill = OfWholeCore(plan.panelCount) /\ core = OfWholeCore(1)
      /\ drain = OfWholeCore(plan.panelCount)
      => IsLedger(q, l + 1, plan.first, 0, 0, 0, 0, 0, 0)
  BY <1>1, <1>2, <1>3, <1>4, ColumnNext DEF IsLedger
<1> QED BY <1>5, <1>6

\* A panel of the layer-wide tactic.
LEMMA LayerWidePanelEntry ==
  ASSUME GoodPlan(plan), plan.tactic = LayerWide, NEW l \in LayerSet, NEW p,
         NEW k \in 0 .. plan.panelCount - 1,
         IsLedger(p, l, CutAt(k), k, 0, 0, 0, 0, k),
         NEW entry, entry = AdvancePanel(plan, p, l, k)
  PROVE  /\ entry.error = "none"
         /\ IsLedger(entry.progress, l, CutAt(k + 1), k + 1, 0, 0, 0, 0, Wrapped(k + 1))
<1> DEFINE q == entry.progress
<1>1. /\ p \in LedgerRecord /\ Open(p, l) /\ p.panel = k /\ p.layer = l
      /\ p.end[l] = CutAt(k) /\ p.panels[l] = k /\ p.mlp[l] = 0
      /\ p.fill[l] = 0 /\ p.core[l] = 0 /\ p.drain[l] = 0
  BY RowFacts DEF IsLedger
<1>2. /\ plan.panels[k].first = CutAt(k) /\ plan.panels[k].end = CutAt(k + 1)
      /\ (k + 1) % plan.panelCount = Wrapped(k + 1) /\ ~ (k >= plan.panelCount)
      /\ k + 1 \in Nat /\ Wrapped(k + 1) \in Nat /\ CutAt(k + 1) \in Nat
  BY CutFacts, NextModulo DEF Wrapped
<1>3. Naturals(CutAt(k + 1), k + 1, 0, 0, 0, 0, Wrapped(k + 1))
  BY <1>2 DEF Naturals
<1>4. /\ [p.mlp EXCEPT ![l] = 0] = p.mlp
      /\ [p.fill EXCEPT ![l] = 0] = p.fill
      /\ [p.core EXCEPT ![l] = 0] = p.core
      /\ [p.drain EXCEPT ![l] = 0] = p.drain
  BY <1>1 DEF LedgerRecord, Counter
<1> DEFINE e == [p.end EXCEPT ![l] = plan.panels[k].end]
           a == [p.panels EXCEPT ![l] = p.panels[l] + 1]
           m == [p.mlp EXCEPT ![l] = p.mlp[l] + 0]
           x == NextPanel(plan, p)
           y == IF NextPanel(plan, p) = 0 THEN p.layer + 0 ELSE p.layer
<1>5. /\ entry.error = "none"
      /\ q = [p EXCEPT !.end = e, !.panels = a, !.mlp = m, !.panel = x, !.layer = y]
  BY <1>1, <1>2 DEF AdvancePanel, LayerWide, FixedGeometry, WholeCore, AtomicTactics, Recorded
<1>6. /\ e = [p.end EXCEPT ![l] = CutAt(k + 1)]
      /\ a = [p.panels EXCEPT ![l] = k + 1]
      /\ m = [p.mlp EXCEPT ![l] = 0]
      /\ x = Wrapped(k + 1)
      /\ y = l
  BY <1>1, <1>2, GeometryAssumption DEF NextPanel, LayerSet
<1> HIDE DEF q, e, a, m, x, y
<1>7. Written(q, p, l, CutAt(k + 1), k + 1, 0, 0, 0, 0, l, Wrapped(k + 1))
  <2> DEFINE f == [p.fill EXCEPT ![l] = 0]
             c == [p.core EXCEPT ![l] = 0]
             d == [p.drain EXCEPT ![l] = 0]
  <2>1. f = p.fill /\ c = p.core /\ d = p.drain
    BY <1>4
  <2> HIDE DEF f, c, d
  <2>2. q = [p EXCEPT !.end = e, !.panels = a, !.mlp = m, !.fill = f, !.core = c,
                      !.drain = d, !.layer = y, !.panel = x]
    BY <1>1, <1>5, <2>1 DEF LedgerRecord
  <2> QED BY <1>6, <2>2 DEF Written, f, c, d
<1> QED BY <1>3, <1>5, <1>7, WriteRow DEF q

\* A panel of the per-panel tactic that is not the last of its layer.
LEMMA PanelEntry ==
  ASSUME GoodPlan(plan), plan.tactic = "per-panel", NEW l \in LayerSet, NEW p,
         NEW k \in 0 .. plan.panelCount - 2,
         IsLedger(p, l, CutAt(k), k, k, 0, 0, 0, k),
         NEW entry, entry = AdvancePanel(plan, p, l, k)
  PROVE  /\ entry.error = "none"
         /\ IsLedger(entry.progress, l, CutAt(k + 1), k + 1, k + 1, 0, 0, 0, k + 1)
<1> DEFINE q == entry.progress
<1>1. /\ p \in LedgerRecord /\ Open(p, l) /\ p.panel = k /\ p.layer = l
      /\ p.end[l] = CutAt(k) /\ p.panels[l] = k /\ p.mlp[l] = k
      /\ p.fill[l] = 0 /\ p.core[l] = 0 /\ p.drain[l] = 0
  BY RowFacts DEF IsLedger
<1>2. /\ plan.panels[k].first = CutAt(k) /\ plan.panels[k].end = CutAt(k + 1)
      /\ (k + 1) % plan.panelCount = k + 1 /\ k + 1 # 0 /\ ~ (k >= plan.panelCount)
      /\ k + 1 \in Nat /\ CutAt(k + 1) \in Nat
  BY CutFacts, NextModulo
<1>3. Naturals(CutAt(k + 1), k + 1, k + 1, 0, 0, 0, k + 1)
  BY <1>2 DEF Naturals
<1>4. /\ [p.fill EXCEPT ![l] = 0] = p.fill
      /\ [p.core EXCEPT ![l] = 0] = p.core
      /\ [p.drain EXCEPT ![l] = 0] = p.drain
  BY <1>1 DEF LedgerRecord, Counter
<1> DEFINE e == [p.end EXCEPT ![l] = plan.panels[k].end]
           a == [p.panels EXCEPT ![l] = p.panels[l] + 1]
           m == [p.mlp EXCEPT ![l] = p.mlp[l] + 1]
           x == NextPanel(plan, p)
           y == IF NextPanel(plan, p) = 0 THEN p.layer + 1 ELSE p.layer
<1>5. /\ entry.error = "none"
      /\ q = [p EXCEPT !.end = e, !.panels = a, !.mlp = m, !.panel = x, !.layer = y]
  BY <1>1, <1>2 DEF AdvancePanel, LayerWide, FixedGeometry, WholeCore, AtomicTactics, Recorded
<1>6. /\ e = [p.end EXCEPT ![l] = CutAt(k + 1)]
      /\ a = [p.panels EXCEPT ![l] = k + 1]
      /\ m = [p.mlp EXCEPT ![l] = k + 1]
      /\ x = k + 1
      /\ y = l
  BY <1>1, <1>2, GeometryAssumption DEF NextPanel, LayerSet
<1> HIDE DEF q, e, a, m, x, y
<1>7. Written(q, p, l, CutAt(k + 1), k + 1, k + 1, 0, 0, 0, l, k + 1)
  <2> DEFINE f == [p.fill EXCEPT ![l] = 0]
             c == [p.core EXCEPT ![l] = 0]
             d == [p.drain EXCEPT ![l] = 0]
  <2>1. f = p.fill /\ c = p.core /\ d = p.drain
    BY <1>4
  <2> HIDE DEF f, c, d
  <2>2. q = [p EXCEPT !.end = e, !.panels = a, !.mlp = m, !.fill = f, !.core = c,
                      !.drain = d, !.layer = y, !.panel = x]
    BY <1>1, <1>5, <2>1 DEF LedgerRecord
  <2> QED BY <1>6, <2>2 DEF Written, f, c, d
<1> QED BY <1>3, <1>5, <1>7, WriteRow DEF q

\* The last panel of a layer.
LEMMA LastPanelEntry ==
  ASSUME GoodPlan(plan), plan.tactic = "per-panel", NEW l \in LayerSet, NEW p,
         NEW k \in {plan.panelCount - 1},
         IsLedger(p, l, CutAt(k), k, k, 0, 0, 0, k),
         NEW entry, entry = AdvancePanel(plan, p, l, k)
  PROVE  /\ entry.error = "none"
         /\ IsLedger(entry.progress, l + 1, plan.first, 0, 0, 0, 0, 0, 0)
<1> DEFINE q == entry.progress
<1>1. /\ p \in LedgerRecord /\ Open(p, l) /\ p.panel = k /\ p.layer = l
      /\ p.end[l] = CutAt(k) /\ p.panels[l] = k /\ p.mlp[l] = k
      /\ p.fill[l] = 0 /\ p.core[l] = 0 /\ p.drain[l] = 0
  BY RowFacts DEF IsLedger
<1>2. /\ plan.panels[k].first = CutAt(k) /\ plan.panels[k].end = plan.final
      /\ k + 1 = plan.panelCount /\ (k + 1) % plan.panelCount = 0
      /\ ~ (k >= plan.panelCount) /\ plan.panelCount \in Nat /\ plan.final \in Nat
      /\ k \in Nat
  BY CutFacts, NextModulo
<1>3. Naturals(plan.final, plan.panelCount, plan.panelCount, 0, 0, 0, 0)
  BY <1>2 DEF Naturals
<1>4. /\ [p.fill EXCEPT ![l] = 0] = p.fill
      /\ [p.core EXCEPT ![l] = 0] = p.core
      /\ [p.drain EXCEPT ![l] = 0] = p.drain
  BY <1>1 DEF LedgerRecord, Counter
<1> DEFINE e == [p.end EXCEPT ![l] = plan.panels[k].end]
           a == [p.panels EXCEPT ![l] = p.panels[l] + 1]
           m == [p.mlp EXCEPT ![l] = p.mlp[l] + 1]
           x == NextPanel(plan, p)
           y == IF NextPanel(plan, p) = 0 THEN p.layer + 1 ELSE p.layer
<1>5. /\ entry.error = "none"
      /\ q = [p EXCEPT !.end = e, !.panels = a, !.mlp = m, !.panel = x, !.layer = y]
  BY <1>1, <1>2 DEF AdvancePanel, LayerWide, FixedGeometry, WholeCore, AtomicTactics, Recorded
<1>6. /\ e = [p.end EXCEPT ![l] = plan.final]
      /\ a = [p.panels EXCEPT ![l] = plan.panelCount]
      /\ m = [p.mlp EXCEPT ![l] = plan.panelCount]
      /\ x = 0
      /\ y = l + 1
  BY <1>1, <1>2, GeometryAssumption DEF NextPanel, LayerSet
<1> HIDE DEF q, e, a, m, x, y
<1>7. Written(q, p, l, plan.final, plan.panelCount, plan.panelCount, 0, 0, 0, l + 1, 0)
  <2> DEFINE f == [p.fill EXCEPT ![l] = 0]
             c == [p.core EXCEPT ![l] = 0]
             d == [p.drain EXCEPT ![l] = 0]
  <2>1. f = p.fill /\ c = p.core /\ d = p.drain
    BY <1>4
  <2> HIDE DEF f, c, d
  <2>2. q = [p EXCEPT !.end = e, !.panels = a, !.mlp = m, !.fill = f, !.core = c,
                      !.drain = d, !.layer = y, !.panel = x]
    BY <1>1, <1>5, <2>1 DEF LedgerRecord
  <2> QED BY <1>6, <2>2 DEF Written, f, c, d
<1> QED BY <1>2, <1>3, <1>5, <1>7, WriteRow DEF q, MlpPhases, OfWholeCore, WholeCore

\* The MLP phase of the layer-wide tactic.
LEMMA LayerWideMlpEntry ==
  ASSUME GoodPlan(plan), plan.tactic = LayerWide, NEW l \in LayerSet, NEW p,
         IsLedger(p, l, plan.final, plan.panelCount, 0, 0, 0, 0, 0),
         NEW entry, entry = AdvanceLayerWideMlp(plan, p, l)
  PROVE  /\ entry.error = "none"
         /\ IsLedger(entry.progress, l + 1, plan.first, 0, 0, 0, 0, 0, 0)
<1> DEFINE q == entry.progress
<1>1. /\ p \in LedgerRecord /\ Open(p, l) /\ p.panel = 0 /\ p.layer = l
      /\ p.end[l] = plan.final /\ p.panels[l] = plan.panelCount /\ p.mlp[l] = 0
      /\ p.fill[l] = 0 /\ p.core[l] = 0 /\ p.drain[l] = 0
  BY RowFacts DEF IsLedger
<1>2. /\ plan.panelCount \in Nat \ {0} /\ plan.first \in Nat /\ plan.final \in Nat
  BY CutFacts
<1>3. Naturals(plan.final, plan.panelCount, 1, 0, 0, 0, 0)
  BY <1>2 DEF Naturals
<1>4. /\ [p.end EXCEPT ![l] = plan.final] = p.end
      /\ [p.panels EXCEPT ![l] = plan.panelCount] = p.panels
      /\ [p.fill EXCEPT ![l] = 0] = p.fill
      /\ [p.core EXCEPT ![l] = 0] = p.core
      /\ [p.drain EXCEPT ![l] = 0] = p.drain
  BY <1>1 DEF LedgerRecord, Counter
<1> DEFINE m == [p.mlp EXCEPT ![l] = 1]
           y == p.layer + 1
<1>5. /\ entry.error = "none"
      /\ q = [p EXCEPT !.mlp = m, !.layer = y]
  BY <1>1, <1>2 DEF AdvanceLayerWideMlp, Recorded
<1>6. /\ m = [p.mlp EXCEPT ![l] = 1]
      /\ y = l + 1
  BY <1>1, <1>2
<1> HIDE DEF q, m, y
<1>7. Written(q, p, l, plan.final, plan.panelCount, 1, 0, 0, 0, l + 1, 0)
  <2> DEFINE e == [p.end EXCEPT ![l] = plan.final]
             a == [p.panels EXCEPT ![l] = plan.panelCount]
             f == [p.fill EXCEPT ![l] = 0]
             c == [p.core EXCEPT ![l] = 0]
             d == [p.drain EXCEPT ![l] = 0]
  <2>1. e = p.end /\ a = p.panels /\ f = p.fill /\ c = p.core /\ d = p.drain
    BY <1>4
  <2> HIDE DEF e, a, f, c, d
  <2>2. q = [p EXCEPT !.end = e, !.panels = a, !.mlp = m, !.fill = f, !.core = c,
                      !.drain = d, !.layer = y, !.panel = 0]
    BY <1>1, <1>5, <2>1 DEF LedgerRecord
  <2> QED BY <1>6, <2>2 DEF Written, e, a, f, c, d
<1> QED BY <1>2, <1>3, <1>5, <1>7, WriteRow DEF q, MlpPhases, OfWholeCore, WholeCore, LayerWide

\* A fill panel of the whole-core tactic.
LEMMA FillEntry ==
  ASSUME GoodPlan(plan), plan.tactic = WholeCore, NEW l \in LayerSet, NEW p,
         NEW k \in 0 .. plan.panelCount - 1,
         IsLedger(p, l, plan.first, 0, 0, k, 0, 0, k),
         NEW entry, entry = AdvanceFill(plan, p, l, k)
  PROVE  /\ entry.error = "none"
         /\ IsLedger(entry.progress, l, plan.first, 0, 0, k + 1, 0, 0, Wrapped(k + 1))
<1> DEFINE q == entry.progress
<1>1. /\ p \in LedgerRecord /\ Open(p, l) /\ p.panel = k /\ p.layer = l
      /\ p.end[l] = plan.first /\ p.panels[l] = 0 /\ p.mlp[l] = 0
      /\ p.fill[l] = k /\ p.core[l] = 0 /\ p.drain[l] = 0
  BY RowFacts DEF IsLedger
<1>2. /\ (k + 1) % plan.panelCount = Wrapped(k + 1) /\ ~ (k >= plan.panelCount)
      /\ k + 1 \in Nat /\ Wrapped(k + 1) \in Nat
      /\ plan.panelCount \in Nat \ {0} /\ plan.first \in Nat /\ plan.final \in Nat
  BY CutFacts, NextModulo DEF Wrapped
<1>3. Naturals(plan.first, 0, 0, k + 1, 0, 0, Wrapped(k + 1))
  BY <1>2 DEF Naturals
<1>4. /\ [p.end EXCEPT ![l] = plan.first] = p.end
      /\ [p.panels EXCEPT ![l] = 0] = p.panels
      /\ [p.mlp EXCEPT ![l] = 0] = p.mlp
      /\ [p.core EXCEPT ![l] = 0] = p.core
      /\ [p.drain EXCEPT ![l] = 0] = p.drain
  BY <1>1 DEF LedgerRecord, Counter
<1> DEFINE f == [p.fill EXCEPT ![l] = p.fill[l] + 1]
           x == NextPanel(plan, p)
<1>5. /\ entry.error = "none"
      /\ q = [p EXCEPT !.fill = f, !.panel = x]
  BY <1>1, <1>2 DEF AdvanceFill, WholeCoreAt, Recorded
<1>6. /\ f = [p.fill EXCEPT ![l] = k + 1]
      /\ x = Wrapped(k + 1)
  BY <1>1, <1>2 DEF NextPanel
<1> HIDE DEF q, f, x
<1>7. Written(q, p, l, plan.first, 0, 0, k + 1, 0, 0, l, Wrapped(k + 1))
  <2> DEFINE e == [p.end EXCEPT ![l] = plan.first]
             a == [p.panels EXCEPT ![l] = 0]
             m == [p.mlp EXCEPT ![l] = 0]
             c == [p.core EXCEPT ![l] = 0]
             d == [p.drain EXCEPT ![l] = 0]
  <2>1. e = p.end /\ a = p.panels /\ m = p.mlp /\ c = p.core /\ d = p.drain
    BY <1>4
  <2> HIDE DEF e, a, m, c, d
  <2>2. q = [p EXCEPT !.end = e, !.panels = a, !.mlp = m, !.fill = f, !.core = c,
                      !.drain = d, !.layer = l, !.panel = x]
    BY <1>1, <1>5, <2>1 DEF LedgerRecord
  <2> QED BY <1>6, <2>2 DEF Written, e, a, m, c, d
<1> QED BY <1>3, <1>5, <1>7, WriteRow DEF q

\* The core over the whole prompt.
LEMMA PromptCoreEntry ==
  ASSUME GoodPlan(plan), plan.tactic = WholeCore, NEW l \in LayerSet, NEW p,
         IsLedger(p, l, plan.first, 0, 0, plan.panelCount, 0, 0, 0),
         NEW entry, entry = AdvancePromptCore(plan, p, l)
  PROVE  /\ entry.error = "none"
         /\ IsLedger(entry.progress, l, plan.final, 0, 0, plan.panelCount, 1, 0, 0)
<1> DEFINE q == entry.progress
<1>1. /\ p \in LedgerRecord /\ Open(p, l) /\ p.panel = 0 /\ p.layer = l
      /\ p.end[l] = plan.first /\ p.panels[l] = 0 /\ p.mlp[l] = 0
      /\ p.fill[l] = plan.panelCount /\ p.core[l] = 0 /\ p.drain[l] = 0
  BY RowFacts DEF IsLedger
<1>2. /\ plan.panelCount \in Nat \ {0} /\ plan.first \in Nat /\ plan.final \in Nat
  BY CutFacts
<1>3. Naturals(plan.final, 0, 0, plan.panelCount, 1, 0, 0)
  BY <1>2 DEF Naturals
<1>4. /\ [p.panels EXCEPT ![l] = 0] = p.panels
      /\ [p.mlp EXCEPT ![l] = 0] = p.mlp
      /\ [p.fill EXCEPT ![l] = plan.panelCount] = p.fill
      /\ [p.drain EXCEPT ![l] = 0] = p.drain
  BY <1>1 DEF LedgerRecord, Counter
<1> DEFINE e == [p.end EXCEPT ![l] = plan.final]
           c == [p.core EXCEPT ![l] = 1]
<1>5. /\ entry.error = "none"
      /\ q = [p EXCEPT !.end = e, !.core = c]
  BY <1>1, <1>2 DEF AdvancePromptCore, WholeCoreAt, Recorded
<1>6. /\ e = [p.end EXCEPT ![l] = plan.final]
      /\ c = [p.core EXCEPT ![l] = 1]
  BY <1>1, <1>2
<1> HIDE DEF q, e, c
<1>7. Written(q, p, l, plan.final, 0, 0, plan.panelCount, 1, 0, l, 0)
  <2> DEFINE a == [p.panels EXCEPT ![l] = 0]
             m == [p.mlp EXCEPT ![l] = 0]
             f == [p.fill EXCEPT ![l] = plan.panelCount]
             d == [p.drain EXCEPT ![l] = 0]
  <2>1. a = p.panels /\ m = p.mlp /\ f = p.fill /\ d = p.drain
    BY <1>4
  <2> HIDE DEF a, m, f, d
  <2>2. q = [p EXCEPT !.end = e, !.panels = a, !.mlp = m, !.fill = f, !.core = c,
                      !.drain = d, !.layer = l, !.panel = 0]
    BY <1>1, <1>5, <2>1 DEF LedgerRecord
  <2> QED BY <1>6, <2>2 DEF Written, a, m, f, d
<1> QED BY <1>3, <1>5, <1>7, WriteRow DEF q

\* A drain panel.
LEMMA DrainEntry ==
  ASSUME GoodPlan(plan), plan.tactic = WholeCore, NEW l \in LayerSet, NEW p,
         NEW k \in 0 .. plan.panelCount - 1,
         IsLedger(p, l, plan.final, k, 0, plan.panelCount, 1, k, k),
         NEW entry, entry = AdvanceDrain(plan, p, l, k)
  PROVE  /\ entry.error = "none"
         /\ IsLedger(entry.progress, l, plan.final, k + 1, 0, plan.panelCount, 1, k + 1, Wrapped(k + 1))
<1> DEFINE q == entry.progress
<1>1. /\ p \in LedgerRecord /\ Open(p, l) /\ p.panel = k /\ p.layer = l
      /\ p.end[l] = plan.final /\ p.panels[l] = k /\ p.mlp[l] = 0
      /\ p.fill[l] = plan.panelCount /\ p.core[l] = 1 /\ p.drain[l] = k
  BY RowFacts DEF IsLedger
<1>2. /\ (k + 1) % plan.panelCount = Wrapped(k + 1) /\ ~ (k >= plan.panelCount)
      /\ k + 1 \in Nat /\ Wrapped(k + 1) \in Nat
      /\ plan.panelCount \in Nat \ {0} /\ plan.first \in Nat /\ plan.final \in Nat
  BY CutFacts, NextModulo DEF Wrapped
<1>3. Naturals(plan.final, k + 1, 0, plan.panelCount, 1, k + 1, Wrapped(k + 1))
  BY <1>2 DEF Naturals
<1>4. /\ [p.end EXCEPT ![l] = plan.final] = p.end
      /\ [p.mlp EXCEPT ![l] = 0] = p.mlp
      /\ [p.fill EXCEPT ![l] = plan.panelCount] = p.fill
      /\ [p.core EXCEPT ![l] = 1] = p.core
  BY <1>1 DEF LedgerRecord, Counter
<1> DEFINE d == [p.drain EXCEPT ![l] = p.drain[l] + 1]
           a == [p.panels EXCEPT ![l] = p.panels[l] + 1]
           x == NextPanel(plan, p)
<1>5. /\ entry.error = "none"
      /\ q = [p EXCEPT !.drain = d, !.panels = a, !.panel = x]
  BY <1>1, <1>2 DEF AdvanceDrain, WholeCoreAt, Recorded
<1>6. /\ d = [p.drain EXCEPT ![l] = k + 1]
      /\ a = [p.panels EXCEPT ![l] = k + 1]
      /\ x = Wrapped(k + 1)
  BY <1>1, <1>2 DEF NextPanel
<1> HIDE DEF q, d, a, x
<1>7. Written(q, p, l, plan.final, k + 1, 0, plan.panelCount, 1, k + 1, l, Wrapped(k + 1))
  <2> DEFINE e == [p.end EXCEPT ![l] = plan.final]
             m == [p.mlp EXCEPT ![l] = 0]
             f == [p.fill EXCEPT ![l] = plan.panelCount]
             c == [p.core EXCEPT ![l] = 1]
  <2>1. e = p.end /\ m = p.mlp /\ f = p.fill /\ c = p.core
    BY <1>4
  <2> HIDE DEF e, m, f, c
  <2>2. q = [p EXCEPT !.end = e, !.panels = a, !.mlp = m, !.fill = f, !.core = c,
                      !.drain = d, !.layer = l, !.panel = x]
    BY <1>1, <1>5, <2>1 DEF LedgerRecord
  <2> QED BY <1>6, <2>2 DEF Written, e, m, f, c
<1> QED BY <1>3, <1>5, <1>7, WriteRow DEF q

\* The persistent MLP, which ends a layer.
LEMMA PersistentMlpEntry ==
  ASSUME GoodPlan(plan), plan.tactic = WholeCore, NEW l \in LayerSet, NEW p,
         IsLedger(p, l, plan.final, plan.panelCount, 0, plan.panelCount, 1, plan.panelCount, 0),
         NEW entry, entry = AdvancePersistentMlp(plan, p, l)
  PROVE  /\ entry.error = "none"
         /\ IsLedger(entry.progress, l + 1, plan.first, 0, 0, 0, 0, 0, 0)
<1> DEFINE q == entry.progress
<1>1. /\ p \in LedgerRecord /\ Open(p, l) /\ p.panel = 0 /\ p.layer = l
      /\ p.end[l] = plan.final /\ p.panels[l] = plan.panelCount /\ p.mlp[l] = 0
      /\ p.fill[l] = plan.panelCount /\ p.core[l] = 1 /\ p.drain[l] = plan.panelCount
  BY RowFacts DEF IsLedger
<1>2. /\ plan.panelCount \in Nat \ {0} /\ plan.first \in Nat /\ plan.final \in Nat
  BY CutFacts
<1>3. Naturals(plan.final, plan.panelCount, 1, plan.panelCount, 1, plan.panelCount, 0)
  BY <1>2 DEF Naturals
<1>4. /\ [p.end EXCEPT ![l] = plan.final] = p.end
      /\ [p.panels EXCEPT ![l] = plan.panelCount] = p.panels
      /\ [p.fill EXCEPT ![l] = plan.panelCount] = p.fill
      /\ [p.core EXCEPT ![l] = 1] = p.core
      /\ [p.drain EXCEPT ![l] = plan.panelCount] = p.drain
  BY <1>1 DEF LedgerRecord, Counter
<1> DEFINE m == [p.mlp EXCEPT ![l] = 1]
           y == p.layer + 1
<1>5. /\ entry.error = "none"
      /\ q = [p EXCEPT !.mlp = m, !.layer = y]
  BY <1>1, <1>2 DEF AdvancePersistentMlp, WholeCoreAt, Recorded
<1>6. /\ m = [p.mlp EXCEPT ![l] = 1]
      /\ y = l + 1
  BY <1>1, <1>2
<1> HIDE DEF q, m, y
<1>7. Written(q, p, l, plan.final, plan.panelCount, 1, plan.panelCount, 1, plan.panelCount, l + 1, 0)
  <2> DEFINE e == [p.end EXCEPT ![l] = plan.final]
             a == [p.panels EXCEPT ![l] = plan.panelCount]
             f == [p.fill EXCEPT ![l] = plan.panelCount]
             c == [p.core EXCEPT ![l] = 1]
             d == [p.drain EXCEPT ![l] = plan.panelCount]
  <2>1. e = p.end /\ a = p.panels /\ f = p.fill /\ c = p.core /\ d = p.drain
    BY <1>4
  <2> HIDE DEF e, a, f, c, d
  <2>2. q = [p EXCEPT !.end = e, !.panels = a, !.mlp = m, !.fill = f, !.core = c,
                      !.drain = d, !.layer = y, !.panel = 0]
    BY <1>1, <1>5, <2>1 DEF LedgerRecord
  <2> QED BY <1>6, <2>2 DEF Written, e, a, f, c, d
<1> QED BY <1>2, <1>3, <1>5, <1>7, WriteRow DEF q, MlpPhases, OfWholeCore, WholeCore

\* A layer of the tactics that publish it at once.
LEMMA AtomicEntry ==
  ASSUME GoodPlan(plan), plan.tactic \in AtomicTactics, NEW l \in LayerSet, NEW p,
         IsLedger(p, l, plan.first, 0, 0, 0, 0, 0, 0),
         NEW entry, entry = AtomicLayer(plan.tactic, plan, p, l, TRUE)
  PROVE  /\ entry.error = "none"
         /\ IsLedger(entry.progress, l + 1, plan.first, 0, 0, 0, 0, 0, 0)
<1> DEFINE q == entry.progress
<1>1. /\ p \in LedgerRecord /\ Open(p, l) /\ p.panel = 0 /\ p.layer = l
      /\ p.end[l] = plan.first /\ p.panels[l] = 0 /\ p.mlp[l] = 0
      /\ p.fill[l] = 0 /\ p.core[l] = 0 /\ p.drain[l] = 0
  BY RowFacts DEF IsLedger
<1>2. /\ plan.panelCount \in Nat \ {0} /\ plan.first \in Nat /\ plan.final \in Nat
  BY CutFacts
<1>3. Naturals(plan.final, plan.panelCount, 1, 0, 0, 0, 0)
  BY <1>2 DEF Naturals
<1>4. /\ [p.fill EXCEPT ![l] = 0] = p.fill
      /\ [p.core EXCEPT ![l] = 0] = p.core
      /\ [p.drain EXCEPT ![l] = 0] = p.drain
  BY <1>1 DEF LedgerRecord, Counter
<1> DEFINE e == [p.end EXCEPT ![l] = plan.final]
           a == [p.panels EXCEPT ![l] = plan.panelCount]
           m == [p.mlp EXCEPT ![l] = 1]
           y == p.layer + 1
<1>5. /\ entry.error = "none"
      /\ q = [p EXCEPT !.end = e, !.panels = a, !.mlp = m, !.layer = y]
  BY <1>1, <1>2 DEF AtomicLayer, WholeCoreAt, Recorded
<1>6. /\ e = [p.end EXCEPT ![l] = plan.final]
      /\ a = [p.panels EXCEPT ![l] = plan.panelCount]
      /\ m = [p.mlp EXCEPT ![l] = 1]
      /\ y = l + 1
  BY <1>1, <1>2
<1> HIDE DEF q, e, a, m, y
<1>7. Written(q, p, l, plan.final, plan.panelCount, 1, 0, 0, 0, l + 1, 0)
  <2> DEFINE f == [p.fill EXCEPT ![l] = 0]
             c == [p.core EXCEPT ![l] = 0]
             d == [p.drain EXCEPT ![l] = 0]
  <2>1. f = p.fill /\ c = p.core /\ d = p.drain
    BY <1>4
  <2> HIDE DEF f, c, d
  <2>2. q = [p EXCEPT !.end = e, !.panels = a, !.mlp = m, !.fill = f, !.core = c,
                      !.drain = d, !.layer = y, !.panel = 0]
    BY <1>1, <1>5, <2>1 DEF LedgerRecord
  <2> QED BY <1>6, <2>2 DEF Written, f, c, d
<1> QED BY <1>2, <1>3, <1>5, <1>7, WriteRow DEF q, MlpPhases, OfWholeCore, WholeCore, AtomicTactics

\* The ledger accepts the entry of the next quantum.
LEMMA NextEntry ==
  ASSUME GoodPlan(plan), NEW l \in LayerSet, NEW k \in 0 .. PerLayer(plan) - 1,
         LedgerAt(progress, l, k),
         NEW i, LayerOf(i) = l, PhaseOf(i) = k, NEW entry, entry = LedgerEntry(i)
  PROVE  /\ entry.error = "none"
         /\ IF k + 1 = PerLayer(plan) THEN LedgerAt(entry.progress, l + 1, 0)
                                      ELSE LedgerAt(entry.progress, l, k + 1)
<1> DEFINE n == plan.panelCount
           P == PerLayer(plan)
<1>1. /\ n \in Nat \ {0} /\ plan.tactic \in Tactics /\ CutAt(0) = plan.first
      /\ CutAt(n) = plan.final /\ Wrapped(0) = 0 /\ Wrapped(n) = 0
      /\ \A j \in 0 .. n - 1 : Wrapped(j) = j
  BY CutFacts DEF Wrapped
<1>2. CASE plan.tactic = "per-panel"
  <2>1. /\ P = n /\ plan.tactic # LayerWide /\ plan.tactic # WholeCore
        /\ plan.tactic \notin AtomicTactics
    BY <1>2 DEF PerLayer, LayerWide, WholeCore, AtomicTactics
  <2>2. entry = AdvancePanel(plan, progress, l, k)
    BY <1>2, <2>1 DEF LedgerEntry
  <2>3. IsLedger(progress, l, CutAt(k), k, k, 0, 0, 0, k)
    BY <1>2 DEF LedgerAt
  <2>4. CASE k = n - 1
    <3>1. k \in {plan.panelCount - 1} /\ k + 1 = P
      BY <1>1, <2>1, <2>4
    <3>2. /\ entry.error = "none"
          /\ IsLedger(entry.progress, l + 1, plan.first, 0, 0, 0, 0, 0, 0)
      BY <1>2, <2>2, <2>3, <3>1, LastPanelEntry
    <3> QED BY <1>1, <2>1, <3>1, <3>2 DEF LedgerAt
  <2>5. CASE k # n - 1
    <3>1. k \in 0 .. plan.panelCount - 2 /\ k + 1 # P
      BY <1>1, <2>1, <2>5
    <3>2. /\ entry.error = "none"
          /\ IsLedger(entry.progress, l, CutAt(k + 1), k + 1, k + 1, 0, 0, 0, k + 1)
      BY <1>2, <2>2, <2>3, <3>1, PanelEntry
    <3> QED BY <2>1, <3>1, <3>2 DEF LedgerAt
  <2> QED BY <2>4, <2>5
<1>3. CASE plan.tactic = LayerWide
  <2>1. /\ P = n + 1 /\ plan.tactic # "per-panel" /\ plan.tactic # WholeCore
        /\ plan.tactic \notin AtomicTactics
    BY <1>3 DEF PerLayer, LayerWide, WholeCore, AtomicTactics
  <2>2. IsLedger(progress, l, CutAt(k), k, 0, 0, 0, 0, Wrapped(k))
    BY <1>3 DEF LedgerAt
  <2>3. CASE k = n
    <3>1. entry = AdvanceLayerWideMlp(plan, progress, l) /\ k + 1 = P
      BY <1>1, <1>3, <2>1, <2>3 DEF LedgerEntry
    <3>2. IsLedger(progress, l, plan.final, plan.panelCount, 0, 0, 0, 0, 0)
      BY <1>1, <2>2, <2>3
    <3>3. /\ entry.error = "none"
          /\ IsLedger(entry.progress, l + 1, plan.first, 0, 0, 0, 0, 0, 0)
      BY <1>3, <3>1, <3>2, LayerWideMlpEntry
    <3> QED BY <1>1, <2>1, <3>1, <3>3 DEF LedgerAt
  <2>4. CASE k # n
    <3>1. k \in 0 .. plan.panelCount - 1 /\ k < n /\ k + 1 # P
      BY <1>1, <2>1, <2>4
    <3>2. entry = AdvancePanel(plan, progress, l, k)
      BY <1>3, <2>1, <3>1 DEF LedgerEntry
    <3>3. IsLedger(progress, l, CutAt(k), k, 0, 0, 0, 0, k)
      BY <1>1, <2>2, <3>1
    <3>4. /\ entry.error = "none"
          /\ IsLedger(entry.progress, l, CutAt(k + 1), k + 1, 0, 0, 0, 0, Wrapped(k + 1))
      BY <1>3, <3>1, <3>2, <3>3, LayerWidePanelEntry
    <3> QED BY <2>1, <3>1, <3>4 DEF LedgerAt
  <2> QED BY <2>3, <2>4
<1>4. CASE plan.tactic = WholeCore
  <2>1. /\ P = 2 * n + 2 /\ plan.tactic # "per-panel" /\ plan.tactic # LayerWide
        /\ plan.tactic \notin AtomicTactics
    BY <1>4 DEF PerLayer, LayerWide, WholeCore, AtomicTactics
  <2>2. CASE k < n
    <3>1. k \in 0 .. plan.panelCount - 1 /\ k =< n /\ k + 1 =< n /\ k + 1 # P
          /\ k # n /\ ~ (k > n /\ k < 2 * n + 1)
      BY <1>1, <2>1, <2>2
    <3>2. entry = AdvanceFill(plan, progress, l, k)
      BY <1>4, <2>1, <2>2, <3>1 DEF LedgerEntry
    <3>3. IsLedger(progress, l, plan.first, 0, 0, k, 0, 0, k)
      BY <1>1, <1>4, <3>1 DEF LedgerAt, Draining
    <3>4. /\ entry.error = "none"
          /\ IsLedger(entry.progress, l, plan.first, 0, 0, k + 1, 0, 0, Wrapped(k + 1))
      BY <1>4, <3>1, <3>2, <3>3, FillEntry
    <3> QED BY <2>1, <3>1, <3>4 DEF LedgerAt, Draining
  <2>3. CASE k = n
    <3>1. ~ (k < n) /\ k =< n /\ ~ (k + 1 =< n) /\ k + 1 # P /\ k + 1 - n - 1 = 0
      BY <1>1, <2>1, <2>3
    <3>2. entry = AdvancePromptCore(plan, progress, l)
      BY <1>4, <2>1, <2>3, <3>1 DEF LedgerEntry
    <3>3. IsLedger(progress, l, plan.first, 0, 0, plan.panelCount, 0, 0, 0)
      BY <1>1, <1>4, <2>3, <3>1 DEF LedgerAt, Draining
    <3>4. /\ entry.error = "none"
          /\ IsLedger(entry.progress, l, plan.final, 0, 0, plan.panelCount, 1, 0, 0)
      BY <1>4, <3>2, <3>3, PromptCoreEntry
    <3> QED BY <1>1, <2>1, <3>1, <3>4 DEF LedgerAt, Draining
  <2>4. CASE k > n /\ k < 2 * n + 1
    <3> DEFINE d == k - n - 1
    <3>1. /\ d \in 0 .. plan.panelCount - 1 /\ ~ (k < n) /\ k # n /\ ~ (k =< n)
          /\ ~ (k + 1 =< n) /\ k + 1 # P /\ k + 1 - n - 1 = d + 1
      BY <1>1, <2>1, <2>4
    <3>2. entry = AdvanceDrain(plan, progress, l, d)
      BY <1>4, <2>1, <2>4, <3>1 DEF LedgerEntry
    <3>3. IsLedger(progress, l, plan.final, d, 0, plan.panelCount, 1, d, d)
      BY <1>1, <1>4, <3>1 DEF LedgerAt, Draining
    <3> HIDE DEF d
    <3>4. /\ entry.error = "none"
          /\ IsLedger(entry.progress, l, plan.final, d + 1, 0, plan.panelCount, 1,
                      d + 1, Wrapped(d + 1))
      BY <1>4, <3>1, <3>2, <3>3, DrainEntry
    <3> DEFINE x == k + 1
    <3>5. x - plan.panelCount - 1 = d + 1 /\ ~ (x =< plan.panelCount)
      BY <1>1, <2>1, <3>1
    <3> HIDE DEF x
    <3>6. Draining(entry.progress, l, x - plan.panelCount - 1)
      BY <3>4, <3>5, Zenon DEF Draining
    <3>7. LedgerAt(entry.progress, l, x)
      BY <2>1, <3>5, <3>6, Zenon DEF LedgerAt
    <3> QED BY <3>1, <3>4, <3>7 DEF x
  <2>5. CASE k = 2 * n + 1
    <3>1. /\ ~ (k < n) /\ k # n /\ ~ (k =< n) /\ k + 1 = P /\ k - n - 1 = n
          /\ ~ (k > n /\ k < 2 * n + 1) /\ 0 =< n
      BY <1>1, <2>1, <2>5
    <3>2. entry = AdvancePersistentMlp(plan, progress, l)
      BY <1>4, <2>1, <3>1 DEF LedgerEntry
    <3>3. IsLedger(progress, l, plan.final, plan.panelCount, 0, plan.panelCount, 1,
                   plan.panelCount, 0)
      BY <1>1, <1>4, <3>1 DEF LedgerAt, Draining
    <3>4. /\ entry.error = "none"
          /\ IsLedger(entry.progress, l + 1, plan.first, 0, 0, 0, 0, 0, 0)
      BY <1>4, <3>2, <3>3, PersistentMlpEntry
    <3> QED BY <1>1, <2>1, <3>1, <3>4 DEF LedgerAt, Draining
  <2>6. k < n \/ k = n \/ (k > n /\ k < 2 * n + 1) \/ k = 2 * n + 1
    BY <1>1, <2>1
  <2> QED BY <2>2, <2>3, <2>4, <2>5, <2>6
<1>5. CASE plan.tactic \in AtomicTactics
  <2>1. /\ P = 2 * n + 2 /\ plan.tactic # "per-panel" /\ plan.tactic # LayerWide
        /\ plan.tactic # WholeCore
    BY <1>5 DEF PerLayer, LayerWide, WholeCore, AtomicTactics
  <2>2. IsLedger(progress, l, plan.first, 0, 0, 0, 0, 0, 0)
    BY <1>5 DEF LedgerAt
  <2>3. CASE k = 2 * n + 1
    <3>1. k + 1 = P
      BY <1>1, <2>1, <2>3
    <3>2. entry = AtomicLayer(plan.tactic, plan, progress, l, TRUE)
      BY <2>1, <2>3 DEF LedgerEntry
    <3>3. /\ entry.error = "none"
          /\ IsLedger(entry.progress, l + 1, plan.first, 0, 0, 0, 0, 0, 0)
      BY <1>5, <2>2, <3>2, AtomicEntry
    <3> QED BY <2>1, <3>1, <3>3 DEF LedgerAt
  <2>4. CASE k # 2 * n + 1
    <3>1. k + 1 # P
      BY <1>1, <2>1, <2>4
    <3>2. entry.error = "none" /\ entry.progress = progress
      BY <2>1, <2>4 DEF LedgerEntry, Recorded
    <3> QED BY <2>1, <2>2, <3>1, <3>2 DEF LedgerAt
  <2> QED BY <2>3, <2>4
<1> QED BY <1>1, <1>2, <1>3, <1>4, <1>5 DEF Tactics, FixedGeometry

\* The ledger of a replayed request is complete and lets it be committed.
LEMMA ReplayedIsComplete ==
  ASSUME GoodPlan(plan), NEW p, LedgerAt(p, Layers, 0)
  PROVE  ExecutionComplete(plan, p) /\ ~p.committed /\ p \in LedgerRecord
<1>1. Wrapped(0) = 0 /\ 0 =< plan.panelCount /\ plan.tactic \in Tactics
      /\ CutAt(0) = plan.first
  BY CutFacts DEF Wrapped
<1>2. IsLedger(p, Layers, plan.first, 0, 0, 0, 0, 0, 0)
  BY <1>1 DEF LedgerAt, Tactics, FixedGeometry
<1>3. \A l \in LayerSet : l < Layers
  BY GeometryAssumption DEF LayerSet
<1> QED BY <1>2, <1>3 DEF IsLedger, ExecutionComplete, Column, OfWholeCore

\* The replay of a quantum is never refused.
LEMMA ReplayAdvances ==
  ASSUME WindowInv, ReplayInv, Replay
  PROVE  /\ UNCHANGED <<plan, bounded, pc, item, inFlight, oldest, next, slotItem,
                        retired, submitted, finished, event, broken, cancel, stage,
                        poisoned, result, cancelledAt, faulted>>
         /\ ReplayInv'
<1> DEFINE P == PerLayer(plan)
           entry == LedgerEntry(replayed)
<1>1. /\ pc = "replay" /\ replayed < Total /\ replayed' = replayed + 1
      /\ progress' = entry.progress
      /\ IF entry.error = "none" THEN UNCHANGED <<pc, result>> ELSE Failing("refused")
      /\ UNCHANGED <<plan, bounded, item, inFlight, oldest, next, slotItem,
                     retired, submitted, finished, event, broken, cancel, stage,
                     poisoned, cancelledAt, faulted>>
  BY DEF Replay, window, device, history
<1>2. GoodPlan(plan) /\ P \in Nat \ {0} /\ Layers \in Nat \ {0} /\ Total = Layers * P
  BY TotalFacts DEF WindowInv, RequestType, Total
<1>3. PICK l, k \in Nat : Replayed(l, k)
  BY <1>1 DEF ReplayInv, Ended
<1>4. /\ l \in 0 .. Layers /\ k \in 0 .. P - 1 /\ (l = Layers => k = 0)
      /\ replayed = l * P + k /\ LedgerAt(progress, l, k)
  BY <1>3 DEF Replayed
<1> HIDE DEF P, entry
<1>5. l \in LayerSet
  <2>1. l # Layers
    BY <1>1, <1>2, <1>4
  <2> QED BY <1>2, <1>4, <2>1 DEF LayerSet
<1>6. LayerOf(replayed) = l /\ PhaseOf(replayed) = k
  BY <1>2, <1>4, DivMod DEF LayerOf, PhaseOf, P
<1>7. /\ entry.error = "none"
      /\ IF k + 1 = P THEN LedgerAt(entry.progress, l + 1, 0)
                      ELSE LedgerAt(entry.progress, l, k + 1)
  BY <1>2, <1>4, <1>5, <1>6, NextEntry DEF P, entry
<1>8. UNCHANGED <<plan, pc, result>> /\ PerLayer(plan)' = P /\ Total' = Total
  BY <1>1, <1>7 DEF PerLayer, P, Total
<1>9. ASSUME NEW x \in 0 .. Layers, NEW y \in 0 .. P - 1, x = Layers => y = 0,
             replayed + 1 = x * P + y, LedgerAt(entry.progress, x, y)
      PROVE  ReplayInv'
  <2>1. LedgerAt(progress, x, y)'
    BY <1>1, <1>9 DEF LedgerAt, IsLedger, Draining, CutAt, Wrapped, OfWholeCore, MlpPhases
  <2>2. Replayed(x, y)'
    BY <1>1, <1>8, <1>9, <2>1 DEF Replayed
  <2>3. x \in Nat /\ y \in Nat /\ replayed + 1 \in 0 .. Total
    BY <1>1, <1>2, <1>9 DEF ReplayInv
  <2>4. pc' # "merge" /\ result' # "staged"
    BY <1>1, <1>8 DEF WindowInv, Outcome, Ended
  <2> QED BY <1>1, <1>8, <2>2, <2>3, <2>4 DEF ReplayInv
<1>10. CASE k + 1 = P
  <2>1. /\ l + 1 \in 0 .. Layers /\ 0 \in 0 .. P - 1
        /\ replayed + 1 = (l + 1) * P + 0
    BY <1>2, <1>4, <1>5, <1>10 DEF LayerSet
  <2>2. ReplayInv'
    BY <1>7, <1>9, <1>10, <2>1
  <2> QED BY <1>1, <1>8, <2>2
<1>11. CASE k + 1 # P
  <2>1. /\ k + 1 \in 0 .. P - 1 /\ l # Layers
        /\ replayed + 1 = l * P + (k + 1)
    BY <1>2, <1>4, <1>5, <1>11 DEF LayerSet
  <2>2. ReplayInv'
    BY <1>4, <1>7, <1>9, <1>11, <2>1
  <2> QED BY <1>1, <1>8, <2>2
<1> QED BY <1>10, <1>11

LEMMA ReplayKeeps ==
  ASSUME WindowInv, ReplayInv, Replay
  PROVE  WindowInv' /\ ReplayInv'
<1>1. /\ UNCHANGED <<plan, bounded, pc, item, inFlight, oldest, next, slotItem,
                     retired, submitted, finished, event, broken, cancel, stage,
                     poisoned, result, cancelledAt, faulted>>
      /\ ReplayInv'
  BY ReplayAdvances
<1>2. Total' = Total
  BY <1>1 DEF Total, PerLayer
<1>3. RequestType' /\ Position'
  BY <1>1, <1>2 DEF WindowInv, RequestType, Position
<1>4. Ring' /\ Cancellation' /\ Outcome'
  BY <1>1, <1>2 DEF WindowInv, Ring, Cancellation, Outcome
<1> QED BY <1>1, <1>3, <1>4 DEF WindowInv

\* The replayed ledger is complete: the final hidden state is marked ready.
LEMMA ReplayDoneKeeps ==
  ASSUME WindowInv, ReplayInv, ReplayDone
  PROVE  WindowInv' /\ ReplayInv'
<1> DEFINE P == PerLayer(plan)
<1>1. /\ pc = "replay" /\ replayed = Total
      /\ progress' = MarkFinalHiddenReady(plan, progress).progress
      /\ IF /\ MarkFinalHiddenReady(plan, progress).error = "none"
            /\ FinalCommitReady(plan, progress')
           THEN pc' = "merge" /\ UNCHANGED result ELSE Failing("refused")
      /\ UNCHANGED <<plan, bounded, item, inFlight, oldest, next, slotItem,
                     retired, submitted, finished, event, broken, cancel,
                     replayed, stage, poisoned, cancelledAt, faulted>>
  BY DEF ReplayDone, window, device, history
<1>2. GoodPlan(plan) /\ P \in Nat \ {0} /\ Layers \in Nat \ {0} /\ Total = Layers * P
      /\ Total \in Nat \ {0}
  BY TotalFacts DEF WindowInv, RequestType, Total
<1>3. PICK l, k \in Nat : Replayed(l, k)
  BY <1>1 DEF ReplayInv, Ended
<1>4. /\ l \in 0 .. Layers /\ k \in 0 .. P - 1 /\ (l = Layers => k = 0)
      /\ replayed = l * P + k /\ LedgerAt(progress, l, k)
  BY <1>3 DEF Replayed
<1> HIDE DEF P
<1>5. l = Layers /\ k = 0
  <2>1. (l * P + k) \div P = l
    BY <1>2, <1>4, DivMod
  <2>2. Layers * P = Layers * P + 0 /\ (Layers * P + 0) \div P = Layers
    BY <1>2, DivMod
  <2> QED BY <1>1, <1>2, <1>4, <2>1, <2>2
<1>6. ExecutionComplete(plan, progress) /\ ~progress.committed /\ progress \in LedgerRecord
  BY <1>2, <1>4, <1>5, ReplayedIsComplete
<1>7. /\ MarkFinalHiddenReady(plan, progress).error = "none"
      /\ progress' = [progress EXCEPT !.ready = TRUE]
  BY <1>1, <1>6 DEF MarkFinalHiddenReady, Recorded
<1>8. FinalCommitReady(plan, progress')
  <2>1. /\ progress'.ready = TRUE /\ progress'.committed = progress.committed
        /\ progress'.end = progress.end /\ progress'.panels = progress.panels
        /\ progress'.mlp = progress.mlp /\ progress'.fill = progress.fill
        /\ progress'.core = progress.core /\ progress'.drain = progress.drain
        /\ progress'.layer = progress.layer /\ progress'.panel = progress.panel
    BY <1>6, <1>7 DEF LedgerRecord
  <2>2. ExecutionComplete(plan, progress')
    BY <1>6, <2>1 DEF ExecutionComplete
  <2> QED BY <1>6, <2>1, <2>2 DEF FinalCommitReady
<1>9. pc' = "merge" /\ UNCHANGED result
  BY <1>1, <1>7, <1>8
<1>10. Total' = Total
  BY <1>1 DEF Total, PerLayer
<1>11. RequestType' /\ Position'
  BY <1>1, <1>9, <1>10 DEF WindowInv, RequestType, Position
<1>12. Ring' /\ Cancellation' /\ Outcome'
  BY <1>1, <1>9, <1>10 DEF WindowInv, Ring, Cancellation, Outcome, Ended
<1>13. ReplayInv'
  <2>1. FinalCommitReady(plan, progress)'
    BY <1>1, <1>8
  <2> QED BY <1>1, <1>2, <1>9, <1>10, <2>1 DEF ReplayInv
<1> QED BY <1>11, <1>12, <1>13 DEF WindowInv

\* The adapter's count of the retirements is the number of quanta.
LEMMA ReturnKeeps ==
  ASSUME WindowInv, ReplayInv, Return
  PROVE  WindowInv' /\ ReplayInv'
<1>1. /\ pc = "merge" /\ pc' = "returned" /\ stage' = "awaiting-logits"
      /\ IF retired = ExpectedRetirements THEN result' = "staged"
                                          ELSE result' = "contract"
      /\ UNCHANGED <<plan, bounded, item, inFlight, oldest, next, slotItem,
                     retired, submitted, finished, event, broken, cancel, progress,
                     replayed, poisoned, cancelledAt, faulted>>
  BY DEF Return, Host, window, device, ledger, history
<1>2. Total' = Total /\ Total \in Nat \ {0} /\ Slots \in Nat \ {0}
  BY <1>1, TotalFacts DEF WindowInv, RequestType, Total, PerLayer
<1>3. (bounded => retired = Total) /\ (~bounded => retired = 0)
  BY <1>1, <1>2 DEF WindowInv, RequestType, Position, Ring
<1>4. result' = "staged"
  BY <1>1, <1>3 DEF ExpectedRetirements, Total
<1>5. RequestType' /\ Position'
  BY <1>1, <1>2 DEF WindowInv, RequestType, Position
<1>6. Ring'
  BY <1>1, <1>2 DEF WindowInv, Ring
<1>7. Cancellation'
  BY <1>1, <1>2, <1>3, <1>4 DEF WindowInv, RequestType, Cancellation, Ended
<1>8. Outcome'
  BY <1>1, <1>2, <1>4 DEF WindowInv, Position, Outcome, Ended
<1>9. ReplayInv'
  <2>1. FinalCommitReady(plan, progress)'
    BY <1>1 DEF ReplayInv, FinalCommitReady, ExecutionComplete, MlpPhases
  <2> QED BY <1>1, <1>2, <2>1 DEF ReplayInv, Ended
<1> QED BY <1>5, <1>6, <1>7, <1>8, <1>9 DEF WindowInv

\* Everything else leaves the ledger alone.
LEMMA LedgerFrame ==
  ASSUME ReplayInv, UNCHANGED <<plan, progress, replayed>>,
         pc' \notin Ended \cup {"merge"} => pc \notin Ended \cup {"merge"},
         pc' = "merge" \/ result' = "staged" => pc = "merge" \/ result = "staged"
  PROVE  ReplayInv'
<1>1. Total' = Total
  BY DEF Total, PerLayer
<1>2. \A l, k \in Nat : Replayed(l, k) => Replayed(l, k)'
  BY DEF Replayed, PerLayer, LedgerAt, IsLedger, Draining, CutAt, Wrapped, OfWholeCore,
         MlpPhases
<1>3. FinalCommitReady(plan, progress) => FinalCommitReady(plan, progress)'
  BY DEF FinalCommitReady, ExecutionComplete, MlpPhases
<1> QED BY <1>1, <1>2, <1>3 DEF ReplayInv

LEMMA LedgerIsLeftAlone ==
  ASSUME WindowInv, ReplayInv,
         \/ ClientCancels \/ DeviceFinishes \/ DeviceBreaks \/ CallFails \/ Enter
         \/ RetireOldest \/ WaitFails \/ Enqueue \/ Record \/ DrainedWindow
         \/ FinalNorm \/ Synchronize \/ FailWholeRequest
  PROVE  ReplayInv'
<1>1. UNCHANGED <<plan, progress, replayed>>
  BY DEF ClientCancels, DeviceFinishes, DeviceBreaks, CallFails, Enter, RetireOldest,
         WaitFails, Enqueue, Record, DrainedWindow, FinalNorm, Synchronize,
         FailWholeRequest, ledger
<1>2. /\ pc' \notin Ended \cup {"merge"} => pc \notin Ended \cup {"merge"}
      /\ pc' = "merge" \/ result' = "staged" => pc = "merge" \/ result = "staged"
  BY DEF ClientCancels, DeviceFinishes, DeviceBreaks, CallFails, Enter, RetireOldest,
         WaitFails, Enqueue, Record, DrainedWindow, FinalNorm, Synchronize,
         FailWholeRequest, Host, Failing, Retiring, Ended
<1> QED BY <1>1, <1>2, LedgerFrame

LEMMA WindowStep ==
  ASSUME WindowInv, ReplayInv, [Next]_vars
  PROVE  WindowInv' /\ ReplayInv'
<1>1. CASE UNCHANGED vars
  <2>1. UNCHANGED <<plan, bounded, pc, item, inFlight, oldest, next, slotItem,
                    retired, submitted, finished, event, broken, cancel, progress,
                    replayed, stage, poisoned, result, cancelledAt, faulted>>
    BY <1>1 DEF vars, window, device, ledger, history
  <2>2. Total' = Total
    BY <2>1 DEF Total, PerLayer
  <2>3. RequestType' /\ Position'
    BY <2>1, <2>2 DEF WindowInv, RequestType, Position
  <2>4. Ring' /\ Cancellation' /\ Outcome'
    BY <2>1, <2>2 DEF WindowInv, Ring, Cancellation, Outcome
  <2> QED BY <2>1, <2>3, <2>4, LedgerFrame DEF WindowInv
<1>2. CASE \/ ClientCancels \/ DeviceFinishes \/ DeviceBreaks \/ CallFails \/ Enter
           \/ RetireOldest \/ WaitFails \/ Enqueue \/ Record \/ DrainedWindow
           \/ FinalNorm \/ Synchronize \/ FailWholeRequest
  <2>1. ReplayInv'
    BY <1>2, LedgerIsLeftAlone
  <2>2. WindowInv'
    BY <1>2, ClientCancelsKeeps, DeviceFinishesKeeps, DeviceBreaksKeeps,
       CallFailsKeeps, EnterKeeps, RetireOldestKeeps, WaitFailsKeeps, EnqueueKeeps,
       RecordKeeps, DrainedWindowKeeps, FinalNormKeeps, SynchronizeKeeps,
       FailWholeRequestKeeps
  <2> QED BY <2>1, <2>2
<1>3. CASE Replay \/ ReplayDone \/ Return
  BY <1>3, ReplayKeeps, ReplayDoneKeeps, ReturnKeeps
<1> QED BY <1>1, <1>2, <1>3 DEF Next, HostStep

LEMMA WindowInit ==
  ASSUME Init
  PROVE  WindowInv /\ ReplayInv
<1>1. PICK y \in PlanTactics \X PlanCounts :
        Admits(y[1], 0, y[2]) /\ plan = Plan(y[1], 0, y[2])
  BY DEF Init
<1>2. y[1] \in Tactics /\ y[2] \in Nat \ {0}
  <2>1. y[1] \in Supported /\ y[2] > 0 /\ y[2] \in PlanCounts
    BY <1>1 DEF Admits
  <2>2. y[1] \in Tactics
    BY <2>1, SupportedAssumption
  <2>3. y[2] \in Nat
    BY <2>1, CountsAssumption
  <2> QED BY <2>1, <2>2, <2>3
<1>3. GoodPlan(plan)
  BY <1>1, <1>2, PlanIsGood
<1>4. Total \in Nat \ {0} /\ PerLayer(plan) \in Nat \ {0} /\ Slots \in Nat \ {0}
      /\ Layers \in Nat \ {0}
  BY <1>3, TotalFacts
<1>5. /\ bounded \in BOOLEAN /\ pc = "enter" /\ item = 0 /\ inFlight = 0 /\ oldest = 0
      /\ next = 0 /\ retired = 0 /\ submitted = 0 /\ finished = 0
      /\ slotItem = [s \in 0 .. Slots - 1 |-> 0] /\ event = [s \in 0 .. Slots - 1 |-> 0]
      /\ stage = "idle" /\ result = "none" /\ cancelledAt = 0
  BY BoundedAssumption DEF Init
<1>6. /\ broken \in BOOLEAN /\ cancel \in BOOLEAN /\ poisoned \in BOOLEAN
      /\ faulted \in BOOLEAN /\ ~cancel
  BY DEF Init
<1>7. RequestType
  BY <1>3, <1>4, <1>5, <1>6 DEF RequestType
<1>8. Position /\ Cancellation /\ Outcome
  BY <1>4, <1>5, <1>6 DEF Position, Cancellation, Outcome, Ended
<1>9. Ring
  <2>1. (0 + 0) % Slots = 0
    BY <1>4
  <2> QED BY <1>4, <1>5, <2>1 DEF Ring
<1>10. ReplayInv
  <2>1. progress = NewProgress(plan) /\ replayed = 0
    BY DEF Init
  <2>2. IsLedger(progress, 0, plan.first, 0, 0, 0, 0, 0, 0)
    <3>1. /\ progress.end = [l \in LayerSet |-> plan.first]
          /\ progress.panels = [l \in LayerSet |-> 0] /\ progress.mlp = [l \in LayerSet |-> 0]
          /\ progress.fill = [l \in LayerSet |-> 0] /\ progress.core = [l \in LayerSet |-> 0]
          /\ progress.drain = [l \in LayerSet |-> 0]
          /\ progress.layer = 0 /\ progress.panel = 0
          /\ ~progress.ready /\ ~progress.committed
      BY <2>1 DEF NewProgress
    <3>2. progress \in LedgerRecord
      <4>1. plan.first \in Nat
        BY <1>3 DEF GoodPlan
      <4> QED BY <2>1, <4>1 DEF NewProgress, LedgerRecord, Counter
    <3> QED BY <3>1, <3>2, ColumnStart DEF IsLedger
  <2>3. LedgerAt(progress, 0, 0)
    <3>1. CutAt(0) = plan.first /\ Wrapped(0) = 0 /\ 0 =< plan.panelCount
      BY <1>3, CutFacts DEF Wrapped
    <3> QED BY <2>2, <3>1 DEF LedgerAt
  <2>4. Replayed(0, 0)
    BY <1>4, <2>1, <2>3 DEF Replayed
  <2> QED BY <1>4, <1>5, <2>1, <2>4 DEF ReplayInv
<1> QED BY <1>7, <1>8, <1>9, <1>10 DEF WindowInv

(***************************************************************************)
(* The results                                                             *)
(***************************************************************************)
\* The strengthening all the results rest on.
THEOREM WindowInvariant == Spec => [](WindowInv /\ ReplayInv)
<1>1. Init => WindowInv /\ ReplayInv
  BY WindowInit
<1>2. WindowInv /\ ReplayInv /\ [Next]_vars => (WindowInv /\ ReplayInv)'
  BY WindowStep
<1> QED BY <1>1, <1>2, PTL DEF Spec

\* record_submission, make_submission_room and retire_oldest_submission: for a
\* ring of any size the outstanding slots are the submissions after the retired
\* ones, in order, and never more than the ring holds is left to the device.
THEOREM Window == Spec => []WindowIsSound
<1>1. WindowInv /\ ReplayInv => WindowIsSound
  <2> SUFFICES ASSUME WindowInv, ReplayInv PROVE WindowIsSound
    OBVIOUS
  <2>1. Total \in Nat \ {0} /\ Slots \in Nat \ {0}
    BY TotalFacts DEF WindowInv, RequestType
  <2>2. retired \in 0 .. Total
    BY <2>1 DEF WindowInv, RequestType, Position, Ring
  <2>3. TypeOK
    BY <2>1, <2>2 DEF WindowInv, ReplayInv, RequestType, Position, Outcome, TypeOK
  <2>4. WindowBounded
    BY <2>1 DEF WindowInv, RequestType, Ring, WindowBounded
  <2>5. RetiresInOrder
    BY DEF WindowInv, Ring, RetiresInOrder
  <2> QED BY <2>3, <2>4, <2>5 DEF WindowIsSound
<1> QED BY <1>1, WindowInvariant, PTL

\* prefill_whole_request_layer_major_core: whenever the client cancels, at most
\* one window more is submitted, and a request that still had quanta to submit is
\* not staged.
THEOREM Cancel == Spec => []CancelIsObserved
<1>1. WindowInv /\ ReplayInv => CancelIsObserved
  <2> SUFFICES ASSUME WindowInv, ReplayInv PROVE CancelIsObserved
    OBVIOUS
  <2>1. Slots \in Nat \ {0}
    BY SlotsAssumption
  <2> QED BY <2>1 DEF WindowInv, RequestType, Cancellation, CancelIsObserved,
                      CancelIsPrompt, CancelIsHonoured
<1> QED BY <1>1, WindowInvariant, PTL

\* The ledger accepts the replay of every plan of every tactic, the adapter's
\* count of retirements never disagrees, an error has a cause, and no exit of
\* the call leaves the device working.
THEOREM ReturnIsTrue == Spec => []OutcomeIsSound
<1>1. WindowInv /\ ReplayInv => OutcomeIsSound
  BY DEF WindowInv, ReplayInv, Position, Outcome, OutcomeIsSound, ReturnsDrained,
         StagedIsComplete
<1> QED BY <1>1, WindowInvariant, PTL
=============================================================================
