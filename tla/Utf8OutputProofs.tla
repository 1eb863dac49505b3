-------------------------- MODULE Utf8OutputProofs --------------------------
(***************************************************************************)
(* The rendering of a streamed answer, for all bytes, all lengths and all  *)
(* ways to cut the bytes into tokens: what render_utf8_output and the      *)
(* carry of observe_gateway_token send is the standard's rendering.        *)
(*                                                                         *)
(* The code tests ranges of a first byte and of the byte after it; the     *)
(* reference is a table.  The two agree at every prefix (StartsIs), so     *)
(* both cut the same pieces off, and a piece is settled by its own bytes   *)
(* and the byte after it (PieceIsLocal).  What the two recursions compute  *)
(* is established by least counterexample, from the end of the text.       *)
(* The key to the stream is what a rendering that is not final leaves      *)
(* behind: a carry that begins a character, is none, and so is consumed as *)
(* a whole or not at all by the next rendering (CarryIsWhole).             *)
(***************************************************************************)
EXTENDS Utf8Output, SequenceTheorems, WellFoundedInduction, TLAPS

-----------------------------------------------------------------------------
(* Numbers and recursion.                                                   *)

\* The least number principle, for a set.
LEMMA LeastNumber ==
  ASSUME NEW T, T \subseteq Nat, T # {}
  PROVE  \E x \in T : \A y \in T : x =< y
<1>1. \E x \in T : \A y \in T : <<y, x>> \notin OpToRel(<, Nat)
  BY NatLessThanWellFounded, WFMin
<1>2. \A x, y \in Nat : <<y, x>> \notin OpToRel(<, Nat) => x =< y
  BY DEF OpToRel
<1> QED BY <1>1, <1>2

\* The two extremes of a set of numbers.
LEMMA MaxIs ==
  ASSUME NEW m \in Nat, NEW S, S \subseteq 1 .. m, S # {}
  PROVE  Max(S) \in S /\ \A y \in S : y =< Max(S)
<1> DEFINE T == {d \in 0 .. m : m - d \in S}
<1>1. PICK d \in T : \A e \in T : d =< e
  <2>1. PICK x \in S : TRUE
    OBVIOUS
  <2>2. m - x \in T
    BY <2>1
  <2>3. T \subseteq Nat
    OBVIOUS
  <2> HIDE DEF T
  <2> QED BY <2>2, <2>3, LeastNumber
<1>2. m - d \in S
  BY <1>1
<1>3. ASSUME NEW y \in S PROVE m - d >= y
  <2>1. y \in 1 .. m
    OBVIOUS
  <2>2. m - y \in 0 .. m /\ m - (m - y) = y
    BY <2>1
  <2>3. m - y \in T
    BY <2>2
  <2>4. d =< m - y
    BY <1>1, <2>3
  <2> QED BY <2>1, <2>4
<1>4. \E x \in S : \A y \in S : x >= y
  BY <1>2, <1>3
<1>5. Max(S) \in S /\ \A y \in S : Max(S) >= y
  <2> DEFINE P(x) == \A y \in S : x >= y
  <2>1. \E x \in S : P(x)
    BY <1>4
  <2> HIDE DEF P
  <2>2. (CHOOSE x \in S : P(x)) \in S /\ P(CHOOSE x \in S : P(x))
    BY <2>1
  <2> QED BY <2>2 DEF P, Max
<1> QED BY <1>5

\* The smaller of two numbers.
LEMMA MinOfTwo ==
  ASSUME NEW a \in Int, NEW b \in Int
  PROVE  Min({a, b}) = IF a =< b THEN a ELSE b
BY DEF Min

\* A recursion that starts at n + 1 and steps down: f[i] is made of f[J[i]].
Solves(f, n, b, J, T) ==
  f[n + 1] = b /\ \A i \in 1 .. n : f[i] = T[i][f[J[i]]]

Descends(n, J) ==
  J \in [1 .. n -> 1 .. n + 1] /\ \A i \in 1 .. n : J[i] > i

\* A recursion that only refers to later arguments has a solution.
LEMMA RecursionExists ==
  ASSUME NEW n \in Nat, NEW V, NEW b \in V, NEW J, Descends(n, J),
         NEW T \in [1 .. n -> [V -> V]]
  PROVE  \E f \in [1 .. n + 1 -> V] : Solves(f, n, b, J, T)
<1> DEFINE From(f, k) ==
      /\ f \in [n + 1 - k .. n + 1 -> V] /\ f[n + 1] = b
      /\ \A i \in n + 1 - k .. n : f[i] = T[i][f[J[i]]]
    Bad == {k \in 0 .. n : ~ \E f : From(f, k)}
<1>1. Bad = {}
  <2> SUFFICES ASSUME Bad # {} PROVE FALSE
    OBVIOUS
  <2>1. PICK k \in Bad : \A y \in Bad : k =< y
    <3>1. Bad \subseteq Nat
      OBVIOUS
    <3> HIDE DEF Bad
    <3> QED BY <3>1, LeastNumber
  <2>2. k \in 0 .. n /\ ~ \E f : From(f, k)
    BY <2>1
  <2>3. k # 0
    <3> SUFFICES ASSUME k = 0 PROVE FALSE
      OBVIOUS
    <3>1. From([i \in n + 1 .. n + 1 |-> b], 0)
      OBVIOUS
    <3> QED BY <2>2, <3>1
  <2>4. k - 1 \in 0 .. n /\ k - 1 \notin Bad
    <3>1. k - 1 \in 0 .. n /\ ~ (k =< k - 1)
      BY <2>2, <2>3
    <3> HIDE DEF Bad
    <3> QED BY <2>1, <3>1
  <2>5. PICK g : From(g, k - 1)
    BY <2>4
  <2> DEFINE i0 == n + 1 - k
             h == [i \in i0 .. n + 1 |-> IF i = i0 THEN T[i0][g[J[i0]]] ELSE g[i]]
  <2>6. i0 \in 1 .. n /\ J[i0] \in i0 + 1 .. n + 1 /\ i0 + 1 = n + 1 - (k - 1)
    BY <2>2, <2>3 DEF Descends
  <2>7. g \in [i0 + 1 .. n + 1 -> V] /\ g[n + 1] = b
        /\ \A i \in i0 + 1 .. n : g[i] = T[i][g[J[i]]]
    BY <2>5, <2>6
  <2>8. i0 # n + 1 /\ n + 1 \in i0 .. n + 1
    BY <2>6
  <2> HIDE DEF i0
  <2>9. T[i0][g[J[i0]]] \in V
    BY <2>6, <2>7
  <2>10. h \in [i0 .. n + 1 -> V] /\ h[n + 1] = b
    BY <2>6, <2>7, <2>8, <2>9
  <2>11. ASSUME NEW i \in i0 .. n PROVE h[i] = T[i][h[J[i]]]
    <3>1. i \in 1 .. n /\ J[i] \in i0 + 1 .. n + 1
      BY <2>6 DEF Descends
    <3>2. h[J[i]] = g[J[i]]
      BY <3>1, <2>6
    <3>3. CASE i = i0
      BY <3>2, <3>3, <2>6
    <3>4. CASE i # i0
      <4>1. i \in i0 + 1 .. n /\ h[i] = g[i]
        BY <2>6, <3>4
      <4> QED BY <2>7, <3>2, <4>1
    <3> QED BY <3>3, <3>4
  <2>12. From(h, k)
    <3> HIDE DEF h
    <3> QED BY <2>10, <2>11 DEF i0
  <2> QED BY <2>2, <2>12
<1>2. PICK f : From(f, n)
  <2>1. n \in 0 .. n
    OBVIOUS
  <2>2. n \notin Bad
    <3> HIDE DEF Bad
    <3> QED BY <1>1
  <2> QED BY <2>1, <2>2
<1>3. n + 1 - n = 1
  OBVIOUS
<1> QED BY <1>2, <1>3 DEF Solves

\* It has no other one.
LEMMA RecursionUnique ==
  ASSUME NEW n \in Nat, NEW b, NEW J, Descends(n, J), NEW T,
         NEW f, NEW g, Solves(f, n, b, J, T), Solves(g, n, b, J, T)
  PROVE  \A i \in 1 .. n + 1 : f[i] = g[i]
<1> DEFINE Bad == {k \in 0 .. n : f[n + 1 - k] # g[n + 1 - k]}
<1>1. Bad = {}
  <2> SUFFICES ASSUME Bad # {} PROVE FALSE
    OBVIOUS
  <2>1. PICK k \in Bad : \A y \in Bad : k =< y
    <3>1. Bad \subseteq Nat
      OBVIOUS
    <3> HIDE DEF Bad
    <3> QED BY <3>1, LeastNumber
  <2>2. k \in 0 .. n /\ f[n + 1 - k] # g[n + 1 - k]
    BY <2>1
  <2>3. k # 0
    BY <2>2 DEF Solves
  <2> DEFINE i == n + 1 - k
             l == n + 1 - J[i]
  <2>4. i \in 1 .. n /\ J[i] \in i + 1 .. n + 1
    BY <2>2, <2>3 DEF Descends
  <2>5. l \in 0 .. n /\ l < k /\ n + 1 - l = J[i]
    <3>1. i = n + 1 - k
      OBVIOUS
    <3> HIDE DEF i
    <3> QED BY <2>2, <2>4, <3>1
  <2>6. l \notin Bad
    <3> HIDE DEF Bad, l
    <3> QED BY <2>1, <2>2, <2>5
  <2>7. f[J[i]] = g[J[i]]
    BY <2>5, <2>6
  <2>8. f[i] = g[i]
    <3> HIDE DEF i
    <3> QED BY <2>4, <2>7 DEF Solves
  <2> QED BY <2>2, <2>8
<1>2. ASSUME NEW i \in 1 .. n + 1 PROVE f[i] = g[i]
  <2>1. n + 1 - i \in 0 .. n /\ n + 1 - (n + 1 - i) = i
    OBVIOUS
  <2> QED BY <1>1, <2>1
<1> QED BY <1>2

-----------------------------------------------------------------------------
(* Bytes: the ranges of the code are those of the standard's table.          *)

Byte == 0 .. 255
Str == Seq(Byte)

\* The first n bytes from i on are accepted.
Acc(s, i, n) == \A k \in 1 .. n - 1 : Accepts(s[i], k, s[i + k])

\* The length by the first byte, class by class.
LEMMA LengthIs ==
  ASSUME NEW c \in Byte
  PROVE  /\ Length(c) \in 0 .. 4
         /\ Length(c) = 0 <=> c \in 128 .. 193 \cup 245 .. 255
         /\ Length(c) = 1 <=> c \in 0 .. 127
         /\ Length(c) = 2 <=> c \in 194 .. 223
         /\ Length(c) = 3 <=> c \in 224 .. 239
         /\ Length(c) = 4 <=> c \in 240 .. 244
BY DEF Byte, Length

\* The second byte of a sequence, by its first.
Second(c) ==
  CASE c = 224 -> 160 .. 191
    [] c = 237 -> 128 .. 159
    [] c = 240 -> 144 .. 191
    [] c = 244 -> 128 .. 143
    [] OTHER -> Tail8

\* What the code accepts after a first byte, as ranges.
LEMMA AcceptsIs ==
  ASSUME NEW c \in Byte, NEW d \in Byte
  PROVE  /\ Accepts(c, 1, d) <=> d \in Second(c)
         /\ \A k \in 2 .. 3 : Accepts(c, k, d) <=> d \in Tail8
BY DEF Byte, Accepts, Second, Tail8

\* A row of the table and the first byte of a sequence agree.
Row(c) ==
  CASE Length(c) = 1 -> <<0 .. 127>>
    [] Length(c) = 2 -> <<194 .. 223, Tail8>>
    [] c = 224 -> <<{224}, 160 .. 191, Tail8>>
    [] c \in 225 .. 236 -> <<225 .. 236, Tail8, Tail8>>
    [] c = 237 -> <<{237}, 128 .. 159, Tail8>>
    [] c \in 238 .. 239 -> <<238 .. 239, Tail8, Tail8>>
    [] c = 240 -> <<{240}, 144 .. 191, Tail8, Tail8>>
    [] c \in 241 .. 243 -> <<241 .. 243, Tail8, Tail8, Tail8>>
    [] c = 244 -> <<{244}, 128 .. 143, Tail8, Tail8>>

\* Row(c) is a row of the table, for sequences that start with c.
LEMMA RowIs ==
  ASSUME NEW c \in Byte, Length(c) # 0
  PROVE  /\ Row(c) \in WellFormedRanges /\ Len(Row(c)) = Length(c)
         /\ c \in Row(c)[1]
         /\ Length(c) > 1 => Row(c)[2] = Second(c)
         /\ Length(c) > 2 => Row(c)[3] = Tail8
         /\ Length(c) > 3 => Row(c)[4] = Tail8
<1>1. CASE Length(c) = 1
  BY <1>1, LengthIs DEF Row, WellFormedRanges
<1>2. CASE Length(c) = 2
  <2>1. c \in 194 .. 223
    BY <1>2, LengthIs
  <2>2. Row(c) = <<194 .. 223, Tail8>> /\ Second(c) = Tail8
    BY <1>2, <2>1 DEF Row, Second
  <2> QED BY <1>2, <2>1, <2>2 DEF WellFormedRanges
<1>3. CASE Length(c) = 3
  <2>1. c \in 224 .. 239
    BY <1>3, LengthIs
  <2>2. CASE c = 224
    <3>1. Row(c) = <<{224}, 160 .. 191, Tail8>> /\ Second(c) = 160 .. 191
      BY <1>3, <2>2 DEF Row, Second
    <3> QED BY <1>3, <2>2, <3>1 DEF WellFormedRanges
  <2>3. CASE c \in 225 .. 236
    <3>1. Row(c) = <<225 .. 236, Tail8, Tail8>> /\ Second(c) = Tail8
      BY <1>3, <2>3 DEF Row, Second
    <3> QED BY <1>3, <2>3, <3>1 DEF WellFormedRanges
  <2>4. CASE c = 237
    <3>1. Row(c) = <<{237}, 128 .. 159, Tail8>> /\ Second(c) = 128 .. 159
      BY <1>3, <2>4 DEF Row, Second
    <3> QED BY <1>3, <2>4, <3>1 DEF WellFormedRanges
  <2>5. CASE c \in 238 .. 239
    <3>1. Row(c) = <<238 .. 239, Tail8, Tail8>> /\ Second(c) = Tail8
      BY <1>3, <2>5 DEF Row, Second
    <3> QED BY <1>3, <2>5, <3>1 DEF WellFormedRanges
  <2> QED BY <2>1, <2>2, <2>3, <2>4, <2>5
<1>4. CASE Length(c) = 4
  <2>1. c \in 240 .. 244
    BY <1>4, LengthIs
  <2>2. CASE c = 240
    <3>1. Row(c) = <<{240}, 144 .. 191, Tail8, Tail8>> /\ Second(c) = 144 .. 191
      BY <1>4, <2>2 DEF Row, Second
    <3>2. Row(c) \in WellFormedRanges
      BY <3>1 DEF WellFormedRanges
    <3>3. /\ Len(Row(c)) = 4 /\ Row(c)[1] = {240} /\ Row(c)[2] = 144 .. 191
          /\ Row(c)[3] = Tail8 /\ Row(c)[4] = Tail8
      BY <3>1
    <3> QED BY <1>4, <2>2, <3>1, <3>2, <3>3
  <2>3. CASE c \in 241 .. 243
    <3>1. Row(c) = <<241 .. 243, Tail8, Tail8, Tail8>> /\ Second(c) = Tail8
      BY <1>4, <2>3 DEF Row, Second
    <3>2. Row(c) \in WellFormedRanges
      BY <3>1 DEF WellFormedRanges
    <3>3. /\ Len(Row(c)) = 4 /\ Row(c)[1] = 241 .. 243 /\ Row(c)[2] = Tail8
          /\ Row(c)[3] = Tail8 /\ Row(c)[4] = Tail8
      BY <3>1
    <3> QED BY <1>4, <2>3, <3>1, <3>2, <3>3
  <2>4. CASE c = 244
    <3>1. Row(c) = <<{244}, 128 .. 143, Tail8, Tail8>> /\ Second(c) = 128 .. 143
      BY <1>4, <2>4 DEF Row, Second
    <3>2. Row(c) \in WellFormedRanges
      BY <3>1 DEF WellFormedRanges
    <3>3. /\ Len(Row(c)) = 4 /\ Row(c)[1] = {244} /\ Row(c)[2] = 128 .. 143
          /\ Row(c)[3] = Tail8 /\ Row(c)[4] = Tail8
      BY <3>1
    <3> QED BY <1>4, <2>4, <3>1, <3>2, <3>3
  <2> QED BY <2>1, <2>2, <2>3, <2>4
<1> QED BY <1>1, <1>2, <1>3, <1>4, LengthIs

\* No other row of the table has that first byte.
LEMMA RowUnique ==
  ASSUME NEW c \in Byte, NEW w \in WellFormedRanges, c \in w[1]
  PROVE  Length(c) # 0 /\ w = Row(c)
<1>1. \/ w = <<0 .. 127>>
      \/ w = <<194 .. 223, Tail8>>
      \/ w = <<{224}, 160 .. 191, Tail8>>
      \/ w = <<225 .. 236, Tail8, Tail8>>
      \/ w = <<{237}, 128 .. 159, Tail8>>
      \/ w = <<238 .. 239, Tail8, Tail8>>
      \/ w = <<{240}, 144 .. 191, Tail8, Tail8>>
      \/ w = <<241 .. 243, Tail8, Tail8, Tail8>>
      \/ w = <<{244}, 128 .. 143, Tail8, Tail8>>
  BY DEF WellFormedRanges
<1>2. CASE w = <<0 .. 127>>
  <2>1. c \in 0 .. 127
    BY <1>2
  <2> QED BY <1>2, <2>1, LengthIs DEF Row
<1>3. CASE w = <<194 .. 223, Tail8>>
  <2>1. c \in 194 .. 223
    BY <1>3
  <2>2. Length(c) = 2
    BY <2>1, LengthIs
  <2> QED BY <1>3, <2>2 DEF Row
<1>4. CASE w = <<{224}, 160 .. 191, Tail8>>
  <2>1. c = 224 /\ Length(c) = 3
    BY <1>4, LengthIs
  <2> QED BY <1>4, <2>1 DEF Row
<1>5. CASE w = <<225 .. 236, Tail8, Tail8>>
  <2>1. c \in 225 .. 236
    BY <1>5
  <2>2. Length(c) = 3 /\ c # 224
    BY <2>1, LengthIs
  <2> QED BY <1>5, <2>1, <2>2 DEF Row
<1>6. CASE w = <<{237}, 128 .. 159, Tail8>>
  <2>1. c = 237 /\ Length(c) = 3
    BY <1>6, LengthIs
  <2> QED BY <1>6, <2>1 DEF Row
<1>7. CASE w = <<238 .. 239, Tail8, Tail8>>
  <2>1. c \in 238 .. 239
    BY <1>7
  <2>2. Length(c) = 3 /\ c # 224 /\ c \notin 225 .. 236 /\ c # 237
    BY <2>1, LengthIs
  <2> QED BY <1>7, <2>1, <2>2 DEF Row
<1>8. CASE w = <<{240}, 144 .. 191, Tail8, Tail8>>
  <2>1. c = 240 /\ Length(c) = 4
    BY <1>8, LengthIs
  <2> QED BY <1>8, <2>1 DEF Row
<1>9. CASE w = <<241 .. 243, Tail8, Tail8, Tail8>>
  <2>1. c \in 241 .. 243
    BY <1>9
  <2>2. Length(c) = 4
    BY <2>1, LengthIs
  <2> QED BY <1>9, <2>1, <2>2 DEF Row
<1>10. CASE w = <<{244}, 128 .. 143, Tail8, Tail8>>
  <2>1. c = 244 /\ Length(c) = 4
    BY <1>10, LengthIs
  <2> QED BY <1>10, <2>1 DEF Row
<1> QED BY <1>1, <1>2, <1>3, <1>4, <1>5, <1>6, <1>7, <1>8, <1>9, <1>10

\* The scan of the code and the table of the standard agree on every prefix.
LEMMA StartsIs ==
  ASSUME NEW s \in Str, NEW i \in 1 .. Len(s), NEW n \in 1 .. Len(s) - i + 1
  PROVE  /\ Starts(s, i, n) <=> n =< Length(s[i]) /\ Acc(s, i, n)
         /\ IsCharacter(s, i, n) <=> n = Length(s[i]) /\ Acc(s, i, n)
<1> DEFINE c == s[i]
<1>1. /\ c \in Byte /\ Length(c) \in 0 .. 4
      /\ \A k \in 0 .. n - 1 : s[i + k] \in Byte
  <2>1. \A k \in 1 .. Len(s) : s[k] \in Byte
    BY DEF Str
  <2>2. ASSUME NEW k \in 0 .. n - 1 PROVE i + k \in 1 .. Len(s)
    <3>1. Len(s) \in Nat
      BY LenProperties DEF Str
    <3> QED BY <3>1
  <2>3. c \in Byte
    BY <2>1
  <2>4. Length(c) \in 0 .. 4
    BY <2>3, LengthIs
  <2> QED BY <2>1, <2>2, <2>3, <2>4
<1>2. ASSUME NEW w \in WellFormedRanges,
             \A k \in 1 .. n : s[i + k - 1] \in w[k]
      PROVE  Length(c) # 0 /\ w = Row(c)
  <2>1. c \in w[1]
    <3>1. 1 \in 1 .. n /\ i + 1 - 1 = i
      OBVIOUS
    <3> QED BY <1>2, <3>1
  <2> HIDE DEF c
  <2> QED BY <1>1, <2>1, RowUnique
<1>3. ASSUME Length(c) # 0, n =< Length(c)
      PROVE  Acc(s, i, n) <=> \A k \in 1 .. n : s[i + k - 1] \in Row(c)[k]
  <2>1. /\ c \in Row(c)[1]
        /\ Length(c) > 1 => Row(c)[2] = Second(c)
        /\ Length(c) > 2 => Row(c)[3] = Tail8
        /\ Length(c) > 3 => Row(c)[4] = Tail8
    BY <1>1, <1>3, RowIs
  <2>2. ASSUME NEW k \in 1 .. n - 1
        PROVE  Accepts(c, k, s[i + k]) <=> s[i + k] \in Row(c)[k + 1]
    <3>1. s[i + k] \in Byte
      <4>1. k \in 0 .. n - 1
        OBVIOUS
      <4> QED BY <1>1, <4>1
    <3>2. k \in 1 .. 3 /\ Length(c) > k
      BY <1>1, <1>3
    <3>3. CASE k = 1
      BY <1>1, <2>1, <3>1, <3>2, <3>3, AcceptsIs
    <3>4. CASE k = 2
      BY <1>1, <2>1, <3>1, <3>2, <3>4, AcceptsIs
    <3>5. CASE k = 3
      BY <1>1, <2>1, <3>1, <3>2, <3>5, AcceptsIs
    <3> QED BY <3>2, <3>3, <3>4, <3>5
  <2>3. ASSUME Acc(s, i, n), NEW k \in 1 .. n PROVE s[i + k - 1] \in Row(c)[k]
    <3>1. CASE k = 1
      BY <2>1, <3>1
    <3>2. CASE k # 1
      <4>1. k - 1 \in 1 .. n - 1 /\ i + (k - 1) = i + k - 1 /\ (k - 1) + 1 = k
        BY <3>2
      <4>2. Accepts(c, k - 1, s[i + (k - 1)])
        BY <2>3, <4>1 DEF Acc
      <4> QED BY <2>2, <4>1, <4>2
    <3> QED BY <3>1, <3>2
  <2>4. ASSUME \A k \in 1 .. n : s[i + k - 1] \in Row(c)[k], NEW k \in 1 .. n - 1
        PROVE  Accepts(c, k, s[i + k])
    <3>1. k + 1 \in 1 .. n /\ i + (k + 1) - 1 = i + k
      OBVIOUS
    <3>2. s[i + (k + 1) - 1] \in Row(c)[k + 1]
      BY <2>4, <3>1
    <3> QED BY <2>2, <3>1, <3>2
  <2> QED BY <2>3, <2>4 DEF Acc
<1>4. Length(c) # 0 => Row(c) \in WellFormedRanges /\ Len(Row(c)) = Length(c)
  BY <1>1, RowIs
<1>5. Starts(s, i, n) <=> /\ Length(c) # 0 /\ n =< Length(c)
                          /\ \A k \in 1 .. n : s[i + k - 1] \in Row(c)[k]
  BY <1>2, <1>4 DEF Starts
<1>6. IsCharacter(s, i, n) <=> /\ Length(c) # 0 /\ n = Length(c)
                               /\ \A k \in 1 .. n : s[i + k - 1] \in Row(c)[k]
  BY <1>2, <1>4 DEF IsCharacter
<1>7. n =< Length(c) => Length(c) # 0
  BY <1>1
<1> HIDE DEF c
<1>8. Starts(s, i, n) <=> n =< Length(c) /\ Acc(s, i, n)
  BY <1>3, <1>5, <1>7
<1>9. IsCharacter(s, i, n) <=> n = Length(c) /\ Acc(s, i, n)
  BY <1>1, <1>3, <1>6, <1>7
<1> QED BY <1>8, <1>9 DEF c

\* What a recursion computes stays in V when its steps do.
LEMMA RecursionTypes ==
  ASSUME NEW n \in Nat, NEW V, NEW b \in V, NEW J, Descends(n, J),
         NEW T \in [1 .. n -> [V -> V]], NEW g, g[n + 1] = b,
         \A i \in 1 .. n : g[J[i]] \in V => g[i] = T[i][g[J[i]]]
  PROVE  (\A i \in 1 .. n + 1 : g[i] \in V) /\ Solves(g, n, b, J, T)
<1> DEFINE Bad == {k \in 0 .. n : g[n + 1 - k] \notin V}
<1>1. Bad = {}
  <2> SUFFICES ASSUME Bad # {} PROVE FALSE
    OBVIOUS
  <2>1. PICK k \in Bad : \A y \in Bad : k =< y
    <3>1. Bad \subseteq Nat
      OBVIOUS
    <3> HIDE DEF Bad
    <3> QED BY <3>1, LeastNumber
  <2>2. k \in 0 .. n /\ g[n + 1 - k] \notin V
    BY <2>1
  <2>3. k # 0
    BY <2>2
  <2> DEFINE i == n + 1 - k
             l == n + 1 - J[i]
  <2>4. i \in 1 .. n /\ J[i] \in i + 1 .. n + 1
    BY <2>2, <2>3 DEF Descends
  <2>5. l \in 0 .. n /\ l < k /\ n + 1 - l = J[i]
    <3>1. i = n + 1 - k
      OBVIOUS
    <3> HIDE DEF i
    <3> QED BY <2>2, <2>4, <3>1
  <2>6. l \notin Bad
    <3> HIDE DEF Bad, l
    <3> QED BY <2>1, <2>2, <2>5
  <2>7. g[J[i]] \in V
    BY <2>5, <2>6
  <2>8. g[i] \in V
    <3> HIDE DEF i
    <3> QED BY <2>4, <2>7
  <2> QED BY <2>2, <2>8
<1>2. ASSUME NEW i \in 1 .. n + 1 PROVE g[i] \in V
  <2>1. n + 1 - i \in 0 .. n /\ n + 1 - (n + 1 - i) = i
    OBVIOUS
  <2> QED BY <1>1, <2>1
<1>3. \A i \in 1 .. n : J[i] \in 1 .. n + 1
  BY DEF Descends
<1> QED BY <1>2, <1>3 DEF Solves

-----------------------------------------------------------------------------
(* The pieces of a byte string.                                             *)

\* A string is a sequence of bytes.
LEMMA StrFacts ==
  ASSUME NEW s \in Str
  PROVE  Len(s) \in Nat /\ \A i \in 1 .. Len(s) : s[i] \in Byte
BY DEF Str

\* The inner loop of the code stops at the longest accepted prefix.
LEMMA ScannedIs ==
  ASSUME NEW s \in Str, NEW i \in 1 .. Len(s), Length(s[i]) # 0
  PROVE  /\ Scanned(s, i) \in 1 .. Len(s) - i + 1
         /\ Scanned(s, i) =< Length(s[i]) /\ Acc(s, i, Scanned(s, i))
         /\ \A m \in 1 .. Len(s) - i + 1 :
              m =< Length(s[i]) /\ Acc(s, i, m) => m =< Scanned(s, i)
<1> DEFINE L == Length(s[i])
           longest == Min({L, Len(s) - i + 1})
           S == {j \in 1 .. longest : \A k \in 1 .. j - 1 : Accepts(s[i], k, s[i + k])}
<1>1. Len(s) \in Nat /\ L \in 1 .. 4
  BY StrFacts, LengthIs
<1>2. longest = IF L =< Len(s) - i + 1 THEN L ELSE Len(s) - i + 1
  <2>1. L \in Int /\ Len(s) - i + 1 \in Int
    BY <1>1
  <2> QED BY <2>1, MinOfTwo
<1>3. Scanned(s, i) = Max(S)
  BY DEF Scanned
<1> HIDE DEF longest
<1>4. longest \in Nat \ {0} /\ longest =< L /\ longest =< Len(s) - i + 1
  BY <1>1, <1>2
<1>5. 1 \in S /\ S \subseteq 1 .. longest
  BY <1>4
<1>6. \A j : j \in S <=> j \in 1 .. longest /\ Acc(s, i, j)
  BY DEF Acc
<1> HIDE DEF S
<1>7. Max(S) \in S /\ \A y \in S : y =< Max(S)
  BY <1>4, <1>5, MaxIs
<1>8. ASSUME NEW m \in 1 .. Len(s) - i + 1, m =< L, Acc(s, i, m)
      PROVE  m =< Scanned(s, i)
  <2>1. m \in 1 .. longest
    BY <1>1, <1>2, <1>8
  <2> QED BY <1>3, <1>6, <1>7, <1>8, <2>1
<1> QED BY <1>1, <1>3, <1>4, <1>6, <1>7, <1>8

\* The maximal subpart of the standard is what the code scans.
LEMMA SubpartIs ==
  ASSUME NEW s \in Str, NEW i \in 1 .. Len(s)
  PROVE  /\ Subpart(s, i) \in 1 .. Len(s) - i + 1
         /\ Length(s[i]) = 0 => Subpart(s, i) = 1
         /\ Length(s[i]) # 0 => Subpart(s, i) = Scanned(s, i)
         /\ IsCharacter(s, i, Subpart(s, i)) <=>
              Length(s[i]) # 0 /\ Subpart(s, i) = Length(s[i])
<1> DEFINE L == Length(s[i])
           most == Min({4, Len(s) - i + 1})
           S == {1} \cup {n \in 1 .. most : Starts(s, i, n)}
<1>1. Len(s) \in Nat /\ L \in 0 .. 4
  BY StrFacts, LengthIs
<1>2. most = IF 4 =< Len(s) - i + 1 THEN 4 ELSE Len(s) - i + 1
  <2>1. Len(s) - i + 1 \in Int
    BY <1>1
  <2> QED BY <2>1, MinOfTwo
<1>3. Subpart(s, i) = Max(S)
  BY DEF Subpart
<1> HIDE DEF most
<1>4. most \in Nat \ {0} /\ most =< 4 /\ most =< Len(s) - i + 1
  BY <1>1, <1>2
<1>5. 1 \in S /\ S \subseteq 1 .. most
  BY <1>4
<1>6. ASSUME NEW n \in 1 .. Len(s) - i + 1
      PROVE  n \in S <=> n = 1 \/ (n =< L /\ Acc(s, i, n))
  <2>1. n \in S <=> n = 1 \/ (n =< most /\ Starts(s, i, n))
    BY <1>1, <1>4
  <2>2. Starts(s, i, n) <=> n =< L /\ Acc(s, i, n)
    BY StartsIs
  <2>3. n =< L => n =< most
    BY <1>1, <1>2
  <2> HIDE DEF S, L
  <2> QED BY <2>1, <2>2, <2>3
<1> HIDE DEF S
<1>7. Max(S) \in S /\ (\A y \in S : y =< Max(S)) /\ Max(S) \in 1 .. Len(s) - i + 1
  <2>1. Max(S) \in S /\ \A y \in S : y =< Max(S)
    BY <1>4, <1>5, MaxIs
  <2>2. Max(S) \in 1 .. most
    BY <1>5, <2>1
  <2>3. Max(S) \in 1 .. Len(s) - i + 1
    BY <1>1, <1>4, <2>2
  <2> QED BY <2>1, <2>3
<1>8. CASE L = 0
  <2>1. Max(S) = 1
    BY <1>6, <1>7, <1>8
  <2>2. ~IsCharacter(s, i, 1)
    <3>1. 1 \in 1 .. Len(s) - i + 1
      BY <1>1
    <3>2. IsCharacter(s, i, 1) => 1 = L
      BY <3>1, StartsIs
    <3> QED BY <1>8, <3>2
  <2> QED BY <1>3, <1>7, <1>8, <2>1, <2>2
<1>9. CASE L # 0
  <2> DEFINE j == Scanned(s, i)
  <2>1. /\ j \in 1 .. Len(s) - i + 1 /\ j =< L /\ Acc(s, i, j)
        /\ \A m \in 1 .. Len(s) - i + 1 : m =< L /\ Acc(s, i, m) => m =< j
    BY <1>9, ScannedIs
  <2> HIDE DEF j
  <2>2. j \in S
    BY <1>6, <2>1
  <2>3. Max(S) =< j
    <3>1. CASE Max(S) = 1
      BY <1>1, <2>1, <3>1
    <3>2. CASE Max(S) # 1
      BY <1>6, <1>7, <2>1, <3>2
    <3> QED BY <3>1, <3>2
  <2>4. Max(S) = j
    BY <1>1, <1>7, <2>1, <2>2, <2>3
  <2>5. IsCharacter(s, i, j) <=> j = L
    <3>1. IsCharacter(s, i, j) <=> j = L /\ Acc(s, i, j)
      BY <2>1, StartsIs
    <3> QED BY <2>1, <3>1
  <2> QED BY <1>3, <1>7, <1>9, <2>4, <2>5 DEF j
<1> QED BY <1>8, <1>9

\* What the text shows for the piece at i.
Piece(s, i) ==
  IF IsCharacter(s, i, Subpart(s, i))
  THEN SubSeq(s, i, i + Subpart(s, i) - 1) ELSE Replacement

\* A piece is a string.
LEMMA PieceType ==
  ASSUME NEW s \in Str, NEW i \in 1 .. Len(s)
  PROVE  Piece(s, i) \in Str
<1>1. Replacement \in Str
  BY DEF Replacement, Str, Byte
<1>2. Len(s) \in Nat /\ Subpart(s, i) \in 1 .. Len(s) - i + 1
  BY StrFacts, SubpartIs
<1>3. SubSeq(s, i, i + Subpart(s, i) - 1) \in Str
  <2>1. i + Subpart(s, i) - 1 \in i .. Len(s)
    BY <1>2
  <2>2. \A k \in i .. i + Subpart(s, i) - 1 : s[k] \in Byte
    BY <1>2, <2>1, StrFacts
  <2> QED BY <2>1, <2>2, SubSeqProperties DEF Str
<1> QED BY <1>1, <1>3 DEF Piece

\* The n bytes from i on.
LEMMA PieceBytes ==
  ASSUME NEW s \in Str, NEW i \in 1 .. Len(s), NEW n \in 1 .. Len(s) - i + 1
  PROVE  /\ SubSeq(s, i, i + n - 1) \in Str /\ Len(SubSeq(s, i, i + n - 1)) = n
         /\ \A k \in 1 .. n : SubSeq(s, i, i + n - 1)[k] = s[i + k - 1]
<1>1. Len(s) \in Nat /\ \A k \in 1 .. Len(s) : s[k] \in Byte
  BY StrFacts
<1> DEFINE e == i + n - 1
<1>2. i \in Int /\ e \in Int /\ i =< e /\ e - i + 1 = n /\ e =< Len(s)
  BY <1>1
<1> HIDE DEF e
<1>3. \A k \in i .. e : s[k] \in Byte
  <2>1. \A k \in i .. e : k \in 1 .. Len(s)
    BY <1>1, <1>2
  <2> QED BY <1>1, <2>1
<1>4. /\ SubSeq(s, i, e) \in Seq(Byte) /\ Len(SubSeq(s, i, e)) = n
      /\ \A k \in 1 .. n : SubSeq(s, i, e)[k] = s[i + k - 1]
  BY <1>2, <1>3, SubSeqProperties
<1> QED BY <1>4 DEF e, Str

\* A piece depends on its own bytes and on what stops it: the end of a complete
\* sequence, the end of the string, or the next byte.
LEMMA PieceIsLocal ==
  ASSUME NEW s \in Str, NEW i \in 1 .. Len(s), NEW t \in Str, NEW j \in 1 .. Len(t),
         j + Subpart(s, i) - 1 =< Len(t),
         \A k \in 0 .. Subpart(s, i) - 1 : t[j + k] = s[i + k],
         \/ Length(s[i]) = 0 \/ Subpart(s, i) = Length(s[i])
         \/ j + Subpart(s, i) - 1 = Len(t)
         \/ i + Subpart(s, i) =< Len(s) /\ t[j + Subpart(s, i)] = s[i + Subpart(s, i)]
  PROVE  Subpart(t, j) = Subpart(s, i) /\ Piece(t, j) = Piece(s, i)
<1> DEFINE n == Subpart(s, i)
           m == Subpart(t, j)
           L == Length(s[i])
<1>1. /\ Len(s) \in Nat /\ Len(t) \in Nat /\ L \in 0 .. 4
      /\ n \in 1 .. Len(s) - i + 1 /\ m \in 1 .. Len(t) - j + 1
  <2>1. n \in 1 .. Len(s) - i + 1 /\ m \in 1 .. Len(t) - j + 1
    BY SubpartIs
  <2>2. Len(s) \in Nat /\ Len(t) \in Nat /\ s[i] \in Byte
    BY StrFacts
  <2>3. L \in 0 .. 4
    BY <2>2, LengthIs
  <2> QED BY <2>1, <2>2, <2>3
<1>2. t[j] = s[i]
  <2>1. 0 \in 0 .. n - 1 /\ j + 0 = j /\ i + 0 = i
    BY <1>1
  <2> QED BY <2>1
<1>3. m = n
  <2>1. CASE L = 0
    BY <1>2, <2>1, SubpartIs
  <2>2. CASE L # 0
    <3>1. /\ n =< L /\ Acc(s, i, n)
          /\ \A q \in 1 .. Len(s) - i + 1 : q =< L /\ Acc(s, i, q) => q =< n
      BY <2>2, SubpartIs, ScannedIs
    <3>2. /\ m =< L /\ Acc(t, j, m)
          /\ \A q \in 1 .. Len(t) - j + 1 : q =< L /\ Acc(t, j, q) => q =< m
      BY <1>2, <2>2, SubpartIs, ScannedIs
    <3> HIDE DEF n, m, L
    <3>3. Acc(t, j, n)
      <4> SUFFICES ASSUME NEW k \in 1 .. n - 1 PROVE Accepts(t[j], k, t[j + k])
        BY DEF Acc
      <4>1. k \in 0 .. n - 1
        OBVIOUS
      <4>2. t[j + k] = s[i + k]
        BY <4>1 DEF n
      <4> QED BY <1>2, <3>1, <4>2 DEF Acc
    <3>4. n =< m
      <4>1. n \in 1 .. Len(t) - j + 1
        BY <1>1 DEF n
      <4> QED BY <3>1, <3>2, <3>3, <4>1
    <3>5. ASSUME n < m PROVE FALSE
      <4>1. n # L /\ j + n - 1 # Len(t)
        BY <1>1, <3>2, <3>5
      <4>2. i + n =< Len(s) /\ t[j + n] = s[i + n]
        BY <2>2, <4>1 DEF n, L
      <4>3. n \in 1 .. m - 1
        BY <1>1, <3>5
      <4>4. Accepts(s[i], n, s[i + n])
        BY <1>2, <3>2, <4>2, <4>3 DEF Acc
      <4>5. Acc(s, i, n + 1)
        <5> SUFFICES ASSUME NEW k \in 1 .. (n + 1) - 1 PROVE Accepts(s[i], k, s[i + k])
          BY DEF Acc
        <5>1. k = n \/ k \in 1 .. n - 1
          BY <1>1
        <5> QED BY <3>1, <4>4, <5>1 DEF Acc
      <4>6. n + 1 \in 1 .. Len(s) - i + 1 /\ n + 1 =< L
        BY <1>1, <3>1, <4>1, <4>2
      <4>7. n + 1 =< n
        BY <3>1, <4>5, <4>6
      <4> QED BY <1>1, <4>7
    <3> QED BY <1>1, <3>4, <3>5
  <2> QED BY <2>1, <2>2
<1>4. IsCharacter(t, j, m) <=> IsCharacter(s, i, n)
  BY <1>2, <1>3, SubpartIs
<1>5. SubSeq(t, j, j + m - 1) = SubSeq(s, i, i + n - 1)
  <2> DEFINE a == SubSeq(t, j, j + m - 1)
             b == SubSeq(s, i, i + n - 1)
  <2>1. /\ b \in Str /\ Len(b) = n /\ \A k \in 1 .. n : b[k] = s[i + k - 1]
    <3>1. n \in 1 .. Len(s) - i + 1
      BY <1>1
    <3> HIDE DEF n
    <3> QED BY <3>1, PieceBytes
  <2>2. /\ a \in Str /\ Len(a) = m /\ \A k \in 1 .. m : a[k] = t[j + k - 1]
    <3>1. m \in 1 .. Len(t) - j + 1
      BY <1>1
    <3> HIDE DEF m
    <3> QED BY <3>1, PieceBytes
  <2>3. ASSUME NEW k \in 1 .. n PROVE a[k] = b[k]
    <3>1. k - 1 \in 0 .. n - 1 /\ j + (k - 1) = j + k - 1 /\ i + (k - 1) = i + k - 1
      BY <1>1
    <3>2. t[j + (k - 1)] = s[i + (k - 1)]
      BY <3>1
    <3> HIDE DEF a, b, n, m
    <3> QED BY <1>3, <2>1, <2>2, <3>1, <3>2
  <2> HIDE DEF a, b, n, m
  <2>4. Len(a) = Len(b) /\ \A k \in 1 .. Len(a) : a[k] = b[k]
    BY <1>3, <2>1, <2>2, <2>3
  <2>5. a \in Seq(Byte) /\ b \in Seq(Byte)
    BY <2>1, <2>2 DEF Str
  <2>6. a = b
    BY <2>4, <2>5, SeqEqual
  <2> QED BY <2>6 DEF a, b
<1> QED BY <1>3, <1>4, <1>5 DEF Piece

\* The same for the first piece of each string.
LEMMA FirstIsLocal ==
  ASSUME NEW s \in Str, NEW t \in Str, 1 \in 1 .. Len(s), 1 \in 1 .. Len(t),
         1 + Subpart(s, 1) - 1 =< Len(t),
         \A k \in 0 .. Subpart(s, 1) - 1 : t[1 + k] = s[1 + k],
         \/ Length(s[1]) = 0 \/ Subpart(s, 1) = Length(s[1])
         \/ 1 + Subpart(s, 1) - 1 = Len(t)
         \/ 1 + Subpart(s, 1) =< Len(s) /\ t[1 + Subpart(s, 1)] = s[1 + Subpart(s, 1)]
  PROVE  Subpart(t, 1) = Subpart(s, 1) /\ Piece(t, 1) = Piece(s, 1)
BY PieceIsLocal, Zenon

-----------------------------------------------------------------------------
(* The recursions of the rendering and of its reference, one piece at a time. *)

Chars == Seq(Str)
Jumps(s) == [i \in 1 .. Len(s) |-> i + Subpart(s, i)]

\* Every piece ends after it begins, and within the string.
LEMMA JumpsDescend ==
  ASSUME NEW s \in Str
  PROVE  /\ Descends(Len(s), Jumps(s))
         /\ \A i \in 1 .. Len(s) : /\ Jumps(s)[i] = i + Subpart(s, i)
                                   /\ Jumps(s)[i] \in 1 .. Len(s) + 1
<1>1. ASSUME NEW i \in 1 .. Len(s)
      PROVE  i + Subpart(s, i) \in 1 .. Len(s) + 1 /\ i + Subpart(s, i) > i
  <2>1. Len(s) \in Nat /\ Subpart(s, i) \in 1 .. Len(s) - i + 1
    BY StrFacts, SubpartIs
  <2> QED BY <2>1
<1> QED BY <1>1 DEF Descends, Jumps

\* One more character in front.
LEMMA PutFirst ==
  ASSUME NEW p \in Str, NEW v \in Chars
  PROVE  <<p>> \o v \in Chars
BY DEF Chars

DecodeSteps(s) ==
  [i \in 1 .. Len(s) |-> [v \in Chars |-> <<Piece(s, i)>> \o v]]

\* What the recursion of the reference computes.
LEMMA DecodedFromIs ==
  ASSUME NEW s \in Str
  PROVE  /\ \A i \in 1 .. Len(s) + 1 : DecodedFrom(s)[i] \in Chars
         /\ Solves(DecodedFrom(s), Len(s), <<>>, Jumps(s), DecodeSteps(s))
<1> DEFINE n == Len(s)
           J == Jumps(s)
           T == DecodeSteps(s)
           Body(f) == [i \in 1 .. Len(s) + 1 |->
             IF i > Len(s) THEN << >>
             ELSE <<IF IsCharacter(s, i, Subpart(s, i))
                    THEN SubSeq(s, i, i + Subpart(s, i) - 1)
                    ELSE Replacement>> \o f[i + Subpart(s, i)]]
           g == DecodedFrom(s)
<1>1. n \in Nat /\ <<>> \in Chars /\ Descends(n, J)
  BY StrFacts, JumpsDescend DEF Chars
<1>2. /\ T \in [1 .. n -> [Chars -> Chars]]
      /\ \A i \in 1 .. n : \A v \in Chars : T[i][v] = <<Piece(s, i)>> \o v
  <2>1. \A i \in 1 .. n : \A v \in Chars : <<Piece(s, i)>> \o v \in Chars
    BY PieceType, PutFirst
  <2>2. \A i \in 1 .. n : [v \in Chars |-> <<Piece(s, i)>> \o v] \in [Chars -> Chars]
    BY <2>1
  <2> QED BY <2>2 DEF DecodeSteps
<1>3. \A f : \A i \in 1 .. n : Body(f)[i] = <<Piece(s, i)>> \o f[J[i]]
  <2> SUFFICES ASSUME NEW f, NEW i \in 1 .. n
               PROVE  Body(f)[i] = <<Piece(s, i)>> \o f[J[i]]
    OBVIOUS
  <2>1. i \in 1 .. Len(s) + 1 /\ ~ (i > Len(s)) /\ J[i] = i + Subpart(s, i)
    BY <1>1, JumpsDescend
  <2> QED BY <2>1 DEF Piece
<1>4. \A f : Body(f)[n + 1] = <<>> /\ Body(f) = [i \in 1 .. n + 1 |-> Body(f)[i]]
  BY <1>1
<1> HIDE DEF T, J
<1>5. PICK f \in [1 .. n + 1 -> Chars] : Solves(f, n, <<>>, J, T)
  <2> HIDE DEF n
  <2> QED BY <1>1, <1>2, RecursionExists
<1>6. f = Body(f)
  <2>1. \A i \in 1 .. n : J[i] \in 1 .. n + 1 /\ f[J[i]] \in Chars
    BY <1>1 DEF Descends
  <2>2. \A i \in 1 .. n : f[i] = Body(f)[i]
    <3> HIDE DEF Body, n
    <3> SUFFICES ASSUME NEW i \in 1 .. n PROVE f[i] = Body(f)[i]
      OBVIOUS
    <3>1. f[i] = T[i][f[J[i]]]
      BY <1>5 DEF Solves
    <3>2. T[i][f[J[i]]] = <<Piece(s, i)>> \o f[J[i]]
      BY <1>2, <2>1
    <3>3. Body(f)[i] = <<Piece(s, i)>> \o f[J[i]]
      BY <1>3
    <3> QED BY <3>1, <3>2, <3>3
  <2>3. f[n + 1] = Body(f)[n + 1]
    <3> HIDE DEF Body
    <3> QED BY <1>4, <1>5 DEF Solves
  <2>4. \A i \in 1 .. n + 1 : i \in 1 .. n \/ i = n + 1
    BY <1>1
  <2>5. f = [i \in 1 .. n + 1 |-> f[i]] /\ \A i \in 1 .. n + 1 : f[i] = Body(f)[i]
    <3> HIDE DEF Body, n
    <3> QED BY <2>2, <2>3, <2>4
  <2> HIDE DEF Body, n
  <2> QED BY <1>4, <2>5
<1>7. g = Body(g)
  BY <1>6 DEF DecodedFrom
<1> HIDE DEF Body, g
<1>8. g[n + 1] = <<>> /\ \A i \in 1 .. n : g[J[i]] \in Chars => g[i] = T[i][g[J[i]]]
  <2>1. g[n + 1] = <<>>
    BY <1>4, <1>7
  <2>2. \A i \in 1 .. n : g[i] = <<Piece(s, i)>> \o g[J[i]]
    BY <1>3, <1>7
  <2> QED BY <1>2, <2>1, <2>2
<1>9. (\A i \in 1 .. n + 1 : g[i] \in Chars) /\ Solves(g, n, <<>>, J, T)
  <2> HIDE DEF n
  <2> QED BY <1>1, <1>2, <1>8, RecursionTypes
<1> QED BY <1>9 DEF g, J, T

Rendering == [out : Chars, used : Int]

\* One more character in front of a rendering.
LEMMA PutOut ==
  ASSUME NEW v \in Rendering, NEW x
  PROVE  [v EXCEPT !.out = x \o @] = [out |-> x \o v.out, used |-> v.used]
<1>1. \A y : [v EXCEPT !.out = y] = [out |-> y, used |-> v.used]
  <2>1. DOMAIN v = {"out", "used"} /\ v = [k \in {"out", "used"} |-> v[k]]
    BY DEF Rendering
  <2> TAKE y
  <2>2. [v EXCEPT !.out = y] = [k \in {"out", "used"} |-> IF k = "out" THEN y ELSE v[k]]
    BY <2>1
  <2> QED BY <2>1, <2>2
<1> QED BY <1>1

\* Where the renderer stops: a sequence the next token may complete.
Withheld(s, i, final) ==
  /\ ~final /\ Length(s[i]) # 0 /\ Subpart(s, i) # Length(s[i])
  /\ i + Subpart(s, i) = Len(s) + 1

RenderSteps(s, final) ==
  [i \in 1 .. Len(s) |-> [v \in Rendering |->
     IF Withheld(s, i, final) THEN [out |-> <<>>, used |-> i - 1]
     ELSE [out |-> <<Piece(s, i)>> \o v.out, used |-> v.used]]]

\* What the loop of the code computes.
LEMMA RenderFromIs ==
  ASSUME NEW s \in Str, NEW final \in BOOLEAN
  PROVE  /\ \A i \in 1 .. Len(s) + 1 : RenderFrom(s, final)[i] \in Rendering
         /\ Solves(RenderFrom(s, final), Len(s), [out |-> <<>>, used |-> Len(s)],
                   Jumps(s), RenderSteps(s, final))
<1> DEFINE n == Len(s)
           J == Jumps(s)
           T == RenderSteps(s, final)
           b == [out |-> <<>>, used |-> Len(s)]
           Body(f) == [i \in 1 .. Len(s) + 1 |->
             IF i > Len(s) THEN [out |-> << >>, used |-> Len(s)]
             ELSE IF Length(s[i]) = 0
               THEN [f[i + 1] EXCEPT !.out = <<Replacement>> \o @]
             ELSE IF Scanned(s, i) = Length(s[i])
               THEN [f[i + Scanned(s, i)] EXCEPT
                       !.out = <<SubSeq(s, i, i + Scanned(s, i) - 1)>> \o @]
             ELSE IF HoldsBack(s, i, Scanned(s, i)) /\ ~final
               THEN [out |-> << >>, used |-> i - 1]
             ELSE [f[i + Scanned(s, i)] EXCEPT !.out = <<Replacement>> \o @]]
           g == RenderFrom(s, final)
<1>1. n \in Nat /\ b \in Rendering /\ Descends(n, J) /\ <<>> \in Chars
  <2>1. n \in Nat /\ <<>> \in Chars /\ Descends(n, J)
    BY StrFacts, JumpsDescend DEF Chars
  <2> QED BY <2>1 DEF Rendering
<1>2. /\ T \in [1 .. n -> [Rendering -> Rendering]]
      /\ \A i \in 1 .. n : \A v \in Rendering :
           T[i][v] = IF Withheld(s, i, final) THEN [out |-> <<>>, used |-> i - 1]
                     ELSE [out |-> <<Piece(s, i)>> \o v.out, used |-> v.used]
  <2>1. ASSUME NEW i \in 1 .. n, NEW v \in Rendering
        PROVE  /\ [out |-> <<>>, used |-> i - 1] \in Rendering
               /\ [out |-> <<Piece(s, i)>> \o v.out, used |-> v.used] \in Rendering
    <3>1. v.out \in Chars /\ v.used \in Int
      BY DEF Rendering
    <3>2. <<Piece(s, i)>> \o v.out \in Chars
      BY <3>1, PieceType, PutFirst
    <3>3. i - 1 \in Int
      BY <1>1
    <3> QED BY <1>1, <3>1, <3>2, <3>3 DEF Rendering
  <2>2. \A i \in 1 .. n :
          [v \in Rendering |->
             IF Withheld(s, i, final) THEN [out |-> <<>>, used |-> i - 1]
             ELSE [out |-> <<Piece(s, i)>> \o v.out, used |-> v.used]]
          \in [Rendering -> Rendering]
    BY <2>1
  <2> QED BY <2>2 DEF RenderSteps
<1>3. ASSUME NEW f, NEW i \in 1 .. n, f[J[i]] \in Rendering
      PROVE  Body(f)[i] = T[i][f[J[i]]]
  <2>1. i \in 1 .. Len(s) + 1 /\ ~ (i > Len(s)) /\ J[i] = i + Subpart(s, i)
    BY <1>1, JumpsDescend
  <2> DEFINE v == f[J[i]]
  <2>2. \A x : [v EXCEPT !.out = x \o @] = [out |-> x \o v.out, used |-> v.used]
    <3>1. v \in Rendering
      BY <1>3
    <3> HIDE DEF v
    <3> QED BY <3>1, PutOut
  <2>3. CASE Length(s[i]) = 0
    <3>1. Subpart(s, i) = 1 /\ ~IsCharacter(s, i, Subpart(s, i))
      BY <2>3, SubpartIs
    <3>2. Body(f)[i] = [f[i + 1] EXCEPT !.out = <<Replacement>> \o @]
      BY <2>1, <2>3
    <3>3. Body(f)[i] = [out |-> <<Piece(s, i)>> \o v.out, used |-> v.used]
      <4> HIDE DEF Body
      <4> QED BY <2>1, <2>2, <3>1, <3>2 DEF Piece
    <3>4. ~Withheld(s, i, final)
      BY <2>3 DEF Withheld
    <3> HIDE DEF Body, T, J
    <3> QED BY <1>2, <1>3, <3>3, <3>4
  <2>4. CASE Length(s[i]) # 0 /\ Scanned(s, i) = Length(s[i])
    <3>1. Subpart(s, i) = Scanned(s, i) /\ IsCharacter(s, i, Subpart(s, i))
      BY <2>4, SubpartIs
    <3>2. Body(f)[i] = [f[i + Scanned(s, i)] EXCEPT
                          !.out = <<SubSeq(s, i, i + Scanned(s, i) - 1)>> \o @]
      BY <2>1, <2>4
    <3>3. Body(f)[i] = [out |-> <<Piece(s, i)>> \o v.out, used |-> v.used]
      <4> HIDE DEF Body
      <4> QED BY <2>1, <2>2, <3>1, <3>2 DEF Piece
    <3>4. ~Withheld(s, i, final)
      BY <2>4, <3>1 DEF Withheld
    <3> HIDE DEF Body, T, J
    <3> QED BY <1>2, <1>3, <3>3, <3>4
  <2>5. CASE Length(s[i]) # 0 /\ Scanned(s, i) # Length(s[i])
    <3>1. Subpart(s, i) = Scanned(s, i) /\ ~IsCharacter(s, i, Subpart(s, i))
      BY <2>5, SubpartIs
    <3>2. Withheld(s, i, final) <=> HoldsBack(s, i, Scanned(s, i)) /\ ~final
      BY <2>5, <3>1 DEF Withheld, HoldsBack
    <3>3. CASE Withheld(s, i, final)
      <4>1. Body(f)[i] = [out |-> <<>>, used |-> i - 1]
        BY <2>1, <2>5, <3>2, <3>3
      <4> HIDE DEF Body, T, J
      <4> QED BY <1>2, <1>3, <3>3, <4>1
    <3>4. CASE ~Withheld(s, i, final)
      <4>1. Body(f)[i] = [f[i + Scanned(s, i)] EXCEPT !.out = <<Replacement>> \o @]
        BY <2>1, <2>5, <3>2, <3>4
      <4>2. Body(f)[i] = [out |-> <<Piece(s, i)>> \o v.out, used |-> v.used]
        <5> HIDE DEF Body
        <5> QED BY <2>1, <2>2, <3>1, <4>1 DEF Piece
      <4> HIDE DEF Body, T, J
      <4> QED BY <1>2, <1>3, <3>4, <4>2
    <3> QED BY <3>3, <3>4
  <2> QED BY <2>3, <2>4, <2>5
<1>4. \A f : Body(f)[n + 1] = b /\ Body(f) = [i \in 1 .. n + 1 |-> Body(f)[i]]
  BY <1>1
<1> HIDE DEF T, J, b
<1>5. PICK f \in [1 .. n + 1 -> Rendering] : Solves(f, n, b, J, T)
  <2> HIDE DEF n
  <2> QED BY <1>1, <1>2, RecursionExists
<1>6. f = Body(f)
  <2>1. \A i \in 1 .. n : J[i] \in 1 .. n + 1 /\ f[J[i]] \in Rendering
    BY <1>1 DEF Descends
  <2>2. \A i \in 1 .. n : f[i] = Body(f)[i]
    <3> HIDE DEF Body
    <3> QED BY <1>3, <1>5, <2>1 DEF Solves
  <2>3. f[n + 1] = Body(f)[n + 1]
    <3> HIDE DEF Body
    <3> QED BY <1>4, <1>5 DEF Solves
  <2>4. \A i \in 1 .. n + 1 : i \in 1 .. n \/ i = n + 1
    BY <1>1
  <2>5. f = [i \in 1 .. n + 1 |-> f[i]] /\ \A i \in 1 .. n + 1 : f[i] = Body(f)[i]
    <3> HIDE DEF Body, n
    <3> QED BY <2>2, <2>3, <2>4
  <2> HIDE DEF Body, n
  <2> QED BY <1>4, <2>5
<1>7. g = Body(g)
  BY <1>6 DEF RenderFrom
<1> HIDE DEF Body, g
<1>8. g[n + 1] = b /\ \A i \in 1 .. n : g[J[i]] \in Rendering => g[i] = T[i][g[J[i]]]
  BY <1>3, <1>4, <1>7
<1>9. (\A i \in 1 .. n + 1 : g[i] \in Rendering) /\ Solves(g, n, b, J, T)
  <2> HIDE DEF n
  <2> QED BY <1>1, <1>2, <1>8, RecursionTypes
<1> QED BY <1>9 DEF g, J, T, b

-----------------------------------------------------------------------------
(* The rendering of a string is that of its first piece and of the rest.    *)

Suffix(s, d) == SubSeq(s, d + 1, Len(s))

\* What a suffix consists of.
LEMMA SuffixIs ==
  ASSUME NEW s \in Str, NEW d \in 0 .. Len(s)
  PROVE  /\ Suffix(s, d) \in Str /\ Len(Suffix(s, d)) = Len(s) - d
         /\ \A k \in 1 .. Len(s) - d : Suffix(s, d)[k] = s[d + k]
<1>1. Len(s) \in Nat /\ \A k \in d + 1 .. Len(s) : s[k] \in Byte
  BY StrFacts
<1>2. /\ SubSeq(s, d + 1, Len(s)) \in Seq(Byte)
      /\ Len(SubSeq(s, d + 1, Len(s))) =
           IF d + 1 <= Len(s) THEN Len(s) - (d + 1) + 1 ELSE 0
      /\ \A k \in 1 .. Len(s) - (d + 1) + 1 :
           SubSeq(s, d + 1, Len(s))[k] = s[(d + 1) + k - 1]
  <2>1. d + 1 \in Int /\ Len(s) \in Int
    BY <1>1
  <2> QED BY <1>1, <2>1, SubSeqProperties
<1>3. Len(s) - (d + 1) + 1 = Len(s) - d /\ \A k \in Int : (d + 1) + k - 1 = d + k
  BY <1>1
<1>4. d + 1 <= Len(s) \/ Len(s) - d = 0
  BY <1>1
<1>5. Len(SubSeq(s, d + 1, Len(s))) = Len(s) - d
  BY <1>2, <1>3, <1>4
<1>6. ASSUME NEW k \in 1 .. Len(s) - d PROVE SubSeq(s, d + 1, Len(s))[k] = s[d + k]
  <2>1. k \in 1 .. Len(s) - (d + 1) + 1 /\ (d + 1) + k - 1 = d + k
    BY <1>3
  <2> QED BY <1>2, <2>1
<1> QED BY <1>2, <1>5, <1>6 DEF Suffix, Str

\* The pieces of a suffix are those of the string.
LEMMA SuffixPieces ==
  ASSUME NEW s \in Str, NEW d \in 0 .. Len(s), NEW j \in 1 .. Len(s) - d
  PROVE  /\ Subpart(Suffix(s, d), j) = Subpart(s, d + j)
         /\ Piece(Suffix(s, d), j) = Piece(s, d + j)
         /\ Length(Suffix(s, d)[j]) = Length(s[d + j])
<1> DEFINE t == Suffix(s, d)
           i == d + j
           n == Subpart(s, i)
<1>1. Len(s) \in Nat /\ t \in Str /\ Len(t) = Len(s) - d
      /\ \A k \in 1 .. Len(s) - d : t[k] = s[d + k]
  BY StrFacts, SuffixIs
<1>2. i \in 1 .. Len(s) /\ j \in 1 .. Len(t)
  BY <1>1
<1>3. n \in 1 .. Len(s) - i + 1
  BY <1>2, SubpartIs
<1> HIDE DEF n, t
<1>4. j + n - 1 =< Len(t)
  BY <1>1, <1>2, <1>3
<1>5. ASSUME NEW k \in 0 .. n - 1 PROVE t[j + k] = s[i + k]
  <2>1. j + k \in 1 .. Len(s) - d /\ d + (j + k) = i + k
    BY <1>1, <1>2, <1>3
  <2> QED BY <1>1, <2>1
<1>6. ASSUME j + n - 1 # Len(t) PROVE i + n =< Len(s) /\ t[j + n] = s[i + n]
  <2>1. j + n \in 1 .. Len(s) - d /\ d + (j + n) = i + n /\ i + n =< Len(s)
    <3>1. n \in Nat /\ j + n =< Len(t)
      BY <1>1, <1>2, <1>3, <1>4, <1>6
    <3> QED BY <1>1, <3>1
  <2> QED BY <1>1, <2>1
<1>7. Subpart(t, j) = Subpart(s, i) /\ Piece(t, j) = Piece(s, i)
  <2> HIDE DEF i
  <2> QED BY <1>1, <1>2, <1>4, <1>5, <1>6, PieceIsLocal DEF n
<1>8. t[j] = s[i]
  BY <1>1
<1> QED BY <1>7, <1>8 DEF t

\* The reference from a position on is the reference of the suffix.
LEMMA DecodedSuffix ==
  ASSUME NEW s \in Str, NEW d \in 0 .. Len(s)
  PROVE  DecodedFrom(s)[d + 1] = Decoded(Suffix(s, d))
<1> DEFINE t == Suffix(s, d)
           n == Len(t)
           f == DecodedFrom(s)
           h == [j \in 1 .. n + 1 |-> f[d + j]]
<1>1. Len(s) \in Nat /\ t \in Str /\ n = Len(s) - d /\ n \in Nat
  BY StrFacts, SuffixIs
<1>2. /\ \A i \in 1 .. Len(s) + 1 : f[i] \in Chars
      /\ Solves(f, Len(s), <<>>, Jumps(s), DecodeSteps(s))
  BY DecodedFromIs
<1>3. Solves(DecodedFrom(t), n, <<>>, Jumps(t), DecodeSteps(t))
  BY <1>1, DecodedFromIs
<1> HIDE DEF f, t, n
<1>4. h[n + 1] = <<>>
  <2>1. n + 1 \in 1 .. n + 1 /\ d + (n + 1) = Len(s) + 1
    BY <1>1
  <2> QED BY <1>2, <2>1 DEF Solves
<1>5. ASSUME NEW j \in 1 .. n PROVE h[j] = DecodeSteps(t)[j][h[Jumps(t)[j]]]
  <2> DEFINE i == d + j
             q == Subpart(s, i)
  <2>1. i \in 1 .. Len(s) /\ j \in 1 .. Len(s) - d /\ j \in 1 .. n + 1
    BY <1>1
  <2>2. Subpart(t, j) = q /\ Piece(t, j) = Piece(s, i)
    BY <2>1, SuffixPieces DEF t
  <2>3. Jumps(s)[i] = i + q /\ Jumps(s)[i] \in 1 .. Len(s) + 1
    BY <2>1, JumpsDescend
  <2>4. Jumps(t)[j] = j + q /\ Jumps(t)[j] \in 1 .. n + 1
    BY <1>1, <2>2, JumpsDescend DEF n
  <2>5. f[i] = DecodeSteps(s)[i][f[i + q]] /\ f[i + q] \in Chars
    BY <1>2, <2>1, <2>3 DEF Solves
  <2>6. f[i] = <<Piece(s, i)>> \o f[i + q]
    BY <2>1, <2>5 DEF DecodeSteps
  <2>7. q \in Int
    BY <2>1, SubpartIs
  <2> HIDE DEF q
  <2>8. h[Jumps(t)[j]] = f[i + q]
    <3>1. d + (j + q) = i + q
      BY <1>1, <2>1, <2>7
    <3> QED BY <2>4, <3>1
  <2>9. h[j] = f[i]
    BY <2>1
  <2>10. DecodeSteps(t)[j][f[i + q]] = <<Piece(t, j)>> \o f[i + q]
    BY <2>5 DEF DecodeSteps, n
  <2> HIDE DEF h, i
  <2> QED BY <2>2, <2>6, <2>8, <2>9, <2>10
<1>6. Solves(h, n, <<>>, Jumps(t), DecodeSteps(t))
  <2> HIDE DEF h
  <2> QED BY <1>4, <1>5 DEF Solves
<1>7. Descends(n, Jumps(t))
  BY <1>1, JumpsDescend DEF n
<1>8. DecodedFrom(t)[1] = h[1]
  <2> HIDE DEF h
  <2>1. 1 \in 1 .. n + 1
    BY <1>1
  <2> QED BY <1>1, <1>3, <1>6, <1>7, <2>1, RecursionUnique
<1>9. h[1] = f[d + 1]
  BY <1>1
<1> QED BY <1>8, <1>9 DEF f, t, Decoded

\* The rendering from a position on is the rendering of the suffix.
LEMMA RenderSuffix ==
  ASSUME NEW s \in Str, NEW final \in BOOLEAN, NEW d \in 0 .. Len(s)
  PROVE  RenderFrom(s, final)[d + 1] =
           [out |-> Render(Suffix(s, d), final).out,
            used |-> Render(Suffix(s, d), final).used + d]
<1> DEFINE t == Suffix(s, d)
           n == Len(t)
           f == RenderFrom(s, final)
           Back(v) == [out |-> v.out, used |-> v.used - d]
           h == [j \in 1 .. n + 1 |-> Back(f[d + j])]
           b == [out |-> <<>>, used |-> n]
<1>1. Len(s) \in Nat /\ t \in Str /\ n = Len(s) - d /\ n \in Nat
  BY StrFacts, SuffixIs
<1>2. /\ \A i \in 1 .. Len(s) + 1 : f[i] \in Rendering
      /\ Solves(f, Len(s), [out |-> <<>>, used |-> Len(s)], Jumps(s),
                RenderSteps(s, final))
  BY RenderFromIs
<1>3. Solves(RenderFrom(t, final), n, b, Jumps(t), RenderSteps(t, final))
  BY <1>1, RenderFromIs
<1>4. \A v \in Rendering : /\ Back(v) \in Rendering
                           /\ Back(v).out = v.out /\ Back(v).used = v.used - d
  BY <1>1 DEF Rendering
<1> HIDE DEF f, t, n
<1>5. h[n + 1] = b
  <2>1. n + 1 \in 1 .. n + 1 /\ d + (n + 1) = Len(s) + 1
    BY <1>1
  <2>2. f[Len(s) + 1] = [out |-> <<>>, used |-> Len(s)]
    BY <1>2 DEF Solves
  <2>3. h[n + 1] = Back(f[Len(s) + 1])
    BY <2>1
  <2> QED BY <1>1, <2>2, <2>3
<1>6. ASSUME NEW j \in 1 .. n PROVE h[j] = RenderSteps(t, final)[j][h[Jumps(t)[j]]]
  <2> DEFINE i == d + j
             q == Subpart(s, i)
             v == f[i + q]
  <2>1. i \in 1 .. Len(s) /\ j \in 1 .. Len(s) - d /\ j \in 1 .. n + 1
    BY <1>1
  <2>2. /\ Subpart(t, j) = q /\ Piece(t, j) = Piece(s, i)
        /\ Length(t[j]) = Length(s[i])
    BY <2>1, SuffixPieces DEF t
  <2>3. Jumps(s)[i] = i + q /\ Jumps(s)[i] \in 1 .. Len(s) + 1
    BY <2>1, JumpsDescend
  <2>4. Jumps(t)[j] = j + q /\ Jumps(t)[j] \in 1 .. n + 1
    BY <1>1, <2>2, JumpsDescend DEF n
  <2>5. f[i] = RenderSteps(s, final)[i][v] /\ v \in Rendering
    BY <1>2, <2>1, <2>3 DEF Solves
  <2>6. q \in Int
    BY <2>1, SubpartIs
  <2>7. Withheld(t, j, final) <=> Withheld(s, i, final)
    <3>1. i + q = Len(s) + 1 <=> j + q = n + 1
      BY <1>1, <2>1, <2>6
    <3> QED BY <2>2, <3>1 DEF Withheld, n
  <2>8. f[i] = IF Withheld(s, i, final) THEN [out |-> <<>>, used |-> i - 1]
               ELSE [out |-> <<Piece(s, i)>> \o v.out, used |-> v.used]
    <3> HIDE DEF v
    <3> QED BY <2>1, <2>5 DEF RenderSteps
  <2> HIDE DEF q
  <2>9. h[Jumps(t)[j]] = Back(v)
    <3>1. d + (j + q) = i + q
      BY <1>1, <2>1, <2>6
    <3> QED BY <2>4, <3>1
  <2>10. h[j] = Back(f[i])
    BY <2>1
  <2>11. RenderSteps(t, final)[j][Back(v)] =
           IF Withheld(t, j, final) THEN [out |-> <<>>, used |-> j - 1]
           ELSE [out |-> <<Piece(t, j)>> \o Back(v).out, used |-> Back(v).used]
    <3>1. Back(v) \in Rendering
      BY <1>4, <2>5
    <3> HIDE DEF Back
    <3> QED BY <3>1 DEF RenderSteps, n
  <2>12. Back(v).out = v.out /\ Back(v).used = v.used - d
    BY <1>4, <2>5
  <2>13. (i - 1) - d = j - 1
    BY <1>1, <2>1
  <2>14. CASE Withheld(s, i, final)
    <3>1. h[j] = [out |-> <<>>, used |-> (i - 1) - d]
      <4> HIDE DEF h, i
      <4> QED BY <2>8, <2>10, <2>14
    <3> HIDE DEF h, i, Back
    <3> QED BY <2>7, <2>9, <2>11, <2>13, <2>14, <3>1
  <2>15. CASE ~Withheld(s, i, final)
    <3>1. h[j] = [out |-> <<Piece(s, i)>> \o v.out, used |-> v.used - d]
      <4> HIDE DEF h, i, v
      <4> QED BY <2>8, <2>10, <2>15
    <3> HIDE DEF h, i, Back, v
    <3> QED BY <2>2, <2>7, <2>9, <2>11, <2>12, <2>15, <3>1
  <2> QED BY <2>14, <2>15
<1>7. Solves(h, n, b, Jumps(t), RenderSteps(t, final))
  <2> HIDE DEF h
  <2> QED BY <1>5, <1>6 DEF Solves
<1>8. Descends(n, Jumps(t))
  BY <1>1, JumpsDescend DEF n
<1>9. RenderFrom(t, final)[1] = h[1]
  <2> HIDE DEF h, b
  <2>1. 1 \in 1 .. n + 1
    BY <1>1
  <2> QED BY <1>1, <1>3, <1>7, <1>8, <2>1, RecursionUnique
<1>10. h[1] = Back(f[d + 1]) /\ f[d + 1] \in Rendering
  <2>1. d + 1 \in 1 .. Len(s) + 1
    BY <1>1
  <2> QED BY <1>1, <1>2, <2>1
<1>11. Render(t, final) = Back(f[d + 1])
  BY <1>9, <1>10 DEF Render
<1>12. /\ f[d + 1] = [out |-> f[d + 1].out, used |-> f[d + 1].used]
       /\ f[d + 1].used \in Int
  BY <1>10 DEF Rendering
<1>13. Render(t, final).out = f[d + 1].out /\ Render(t, final).used + d = f[d + 1].used
  <2>1. \A x \in Int : (x - d) + d = x
    BY <1>1
  <2> QED BY <1>4, <1>10, <1>11, <1>12, <2>1
<1> QED BY <1>12, <1>13 DEF f, t

\* One piece of the reference, and the rest.
LEMMA DecodedUnfold ==
  ASSUME NEW s \in Str
  PROVE  /\ Decoded(s) \in Chars
         /\ s = <<>> => Decoded(s) = <<>>
         /\ s # <<>> =>
              Decoded(s) = <<Piece(s, 1)>> \o Decoded(Suffix(s, Subpart(s, 1)))
<1>1. /\ \A i \in 1 .. Len(s) + 1 : DecodedFrom(s)[i] \in Chars
      /\ Solves(DecodedFrom(s), Len(s), <<>>, Jumps(s), DecodeSteps(s))
      /\ Len(s) \in Nat
  BY DecodedFromIs, StrFacts
<1>2. Decoded(s) \in Chars
  <2>1. 1 \in 1 .. Len(s) + 1
    BY <1>1
  <2> QED BY <1>1, <2>1 DEF Decoded
<1>3. ASSUME s = <<>> PROVE Decoded(s) = <<>>
  <2>1. Len(s) + 1 = 1
    BY <1>3
  <2> QED BY <1>1, <2>1 DEF Decoded, Solves
<1>4. ASSUME s # <<>>
      PROVE  Decoded(s) = <<Piece(s, 1)>> \o Decoded(Suffix(s, Subpart(s, 1)))
  <2> DEFINE q == Subpart(s, 1)
  <2>1. 1 \in 1 .. Len(s)
    BY <1>1, <1>4, EmptySeq DEF Str
  <2>2. q \in 1 .. Len(s) - 1 + 1
    BY <2>1, SubpartIs
  <2>3. q \in 0 .. Len(s) /\ 1 + q = q + 1
    BY <1>1, <2>2
  <2>4. Jumps(s)[1] = 1 + q /\ Jumps(s)[1] \in 1 .. Len(s) + 1
    BY <2>1, JumpsDescend
  <2>5. DecodedFrom(s)[1] = <<Piece(s, 1)>> \o DecodedFrom(s)[q + 1]
    <3>1. DecodedFrom(s)[q + 1] \in Chars
      BY <1>1, <2>3, <2>4
    <3>2. DecodedFrom(s)[1] = DecodeSteps(s)[1][DecodedFrom(s)[q + 1]]
      BY <1>1, <2>1, <2>3, <2>4 DEF Solves
    <3> HIDE DEF q
    <3> QED BY <2>1, <3>1, <3>2 DEF DecodeSteps
  <2>6. DecodedFrom(s)[q + 1] = Decoded(Suffix(s, q))
    BY <2>3, DecodedSuffix
  <2> QED BY <2>5, <2>6 DEF Decoded
<1> QED BY <1>2, <1>3, <1>4

\* One piece of the rendering, and the rest.
LEMMA RenderUnfold ==
  ASSUME NEW s \in Str, NEW final \in BOOLEAN
  PROVE  /\ Render(s, final) \in Rendering
         /\ s = <<>> => Render(s, final) = [out |-> <<>>, used |-> 0]
         /\ s # <<>> /\ Withheld(s, 1, final) =>
              Render(s, final) = [out |-> <<>>, used |-> 0]
         /\ s # <<>> /\ ~Withheld(s, 1, final) =>
              LET rest == Render(Suffix(s, Subpart(s, 1)), final)
              IN  Render(s, final) = [out |-> <<Piece(s, 1)>> \o rest.out,
                                      used |-> rest.used + Subpart(s, 1)]
<1> DEFINE f == RenderFrom(s, final)
<1>1. /\ \A i \in 1 .. Len(s) + 1 : f[i] \in Rendering
      /\ Solves(f, Len(s), [out |-> <<>>, used |-> Len(s)], Jumps(s),
                RenderSteps(s, final))
      /\ Len(s) \in Nat
  BY RenderFromIs, StrFacts
<1>2. Render(s, final) = f[1]
  BY DEF Render
<1> HIDE DEF f
<1>3. Render(s, final) \in Rendering
  <2>1. 1 \in 1 .. Len(s) + 1
    BY <1>1
  <2> QED BY <1>1, <1>2, <2>1
<1>4. ASSUME s = <<>> PROVE Render(s, final) = [out |-> <<>>, used |-> 0]
  <2>1. Len(s) + 1 = 1 /\ Len(s) = 0
    BY <1>4
  <2> QED BY <1>1, <1>2, <2>1 DEF Solves
<1>5. ASSUME s # <<>>
      PROVE  /\ Withheld(s, 1, final) => Render(s, final) = [out |-> <<>>, used |-> 0]
             /\ ~Withheld(s, 1, final) =>
                  LET rest == Render(Suffix(s, Subpart(s, 1)), final)
                  IN  Render(s, final) = [out |-> <<Piece(s, 1)>> \o rest.out,
                                          used |-> rest.used + Subpart(s, 1)]
  <2> DEFINE q == Subpart(s, 1)
             v == f[q + 1]
  <2>1. 1 \in 1 .. Len(s)
    BY <1>1, <1>5, EmptySeq DEF Str
  <2>2. q \in 1 .. Len(s) - 1 + 1
    BY <2>1, SubpartIs
  <2>3. q \in 0 .. Len(s) /\ 1 + q = q + 1
    BY <1>1, <2>2
  <2>4. Jumps(s)[1] = 1 + q /\ Jumps(s)[1] \in 1 .. Len(s) + 1
    BY <2>1, JumpsDescend
  <2>5. v \in Rendering
    BY <1>1, <2>3, <2>4
  <2>6. f[1] = RenderSteps(s, final)[1][v]
    BY <1>1, <2>1, <2>3, <2>4 DEF Solves
  <2>7. f[1] = IF Withheld(s, 1, final) THEN [out |-> <<>>, used |-> 1 - 1]
               ELSE [out |-> <<Piece(s, 1)>> \o v.out, used |-> v.used]
    <3> HIDE DEF v
    <3> QED BY <2>1, <2>5, <2>6 DEF RenderSteps
  <2>8. v = [out |-> Render(Suffix(s, q), final).out,
             used |-> Render(Suffix(s, q), final).used + q]
    BY <2>3, RenderSuffix DEF f
  <2> HIDE DEF v
  <2>9. v.out = Render(Suffix(s, q), final).out
        /\ v.used = Render(Suffix(s, q), final).used + q
    BY <2>8
  <2> QED BY <1>2, <2>7, <2>9
<1> QED BY <1>3, <1>4, <1>5

-----------------------------------------------------------------------------
(* Strings cut in two.                                                      *)

Prefix(s, n) == SubSeq(s, 1, n)

\* Strings with the same bytes are equal.
LEMMA StrEqual ==
  ASSUME NEW s \in Str, NEW t \in Str, Len(s) = Len(t),
         \A k \in 1 .. Len(s) : s[k] = t[k]
  PROVE  s = t
<1>1. s \in Seq(Byte) /\ t \in Seq(Byte)
  BY DEF Str
<1> QED BY <1>1, SeqEqual

\* What a prefix consists of.
LEMMA PrefixIs ==
  ASSUME NEW s \in Str, NEW n \in 0 .. Len(s)
  PROVE  /\ Prefix(s, n) \in Str /\ Len(Prefix(s, n)) = n
         /\ \A k \in 1 .. n : Prefix(s, n)[k] = s[k]
<1>1. Len(s) \in Nat /\ n \in Nat /\ \A k \in 1 .. n : s[k] \in Byte
  BY StrFacts
<1>2. /\ SubSeq(s, 1, n) \in Seq(Byte)
      /\ Len(SubSeq(s, 1, n)) = IF 1 <= n THEN n - 1 + 1 ELSE 0
      /\ \A k \in 1 .. n - 1 + 1 : SubSeq(s, 1, n)[k] = s[1 + k - 1]
  <2>1. 1 \in Int /\ n \in Int
    BY <1>1
  <2> QED BY <1>1, <2>1, SubSeqProperties
<1>3. Len(SubSeq(s, 1, n)) = n
  BY <1>1, <1>2
<1>4. ASSUME NEW k \in 1 .. n PROVE SubSeq(s, 1, n)[k] = s[k]
  <2>1. k \in 1 .. n - 1 + 1 /\ 1 + k - 1 = k
    BY <1>1
  <2> QED BY <1>2, <2>1
<1> QED BY <1>2, <1>3, <1>4 DEF Prefix, Str

\* What a joined string consists of.
LEMMA JoinIs ==
  ASSUME NEW s \in Str, NEW t \in Str
  PROVE  /\ s \o t \in Str /\ Len(s \o t) = Len(s) + Len(t)
         /\ \A k \in 1 .. Len(s) : (s \o t)[k] = s[k]
         /\ \A k \in 1 .. Len(t) : (s \o t)[Len(s) + k] = t[k]
<1>1. /\ s \o t \in Seq(Byte) /\ Len(s \o t) = Len(s) + Len(t)
      /\ \A k \in 1 .. Len(s) + Len(t) :
           (s \o t)[k] = IF k <= Len(s) THEN s[k] ELSE t[k - Len(s)]
  BY ConcatProperties DEF Str
<1>2. Len(s) \in Nat /\ Len(t) \in Nat
  BY StrFacts
<1>3. ASSUME NEW k \in 1 .. Len(s) PROVE (s \o t)[k] = s[k]
  <2>1. k \in 1 .. Len(s) + Len(t) /\ k <= Len(s)
    BY <1>2
  <2> QED BY <1>1, <2>1
<1>4. ASSUME NEW k \in 1 .. Len(t) PROVE (s \o t)[Len(s) + k] = t[k]
  <2>1. /\ Len(s) + k \in 1 .. Len(s) + Len(t) /\ ~ (Len(s) + k <= Len(s))
        /\ (Len(s) + k) - Len(s) = k
    BY <1>2
  <2> QED BY <1>1, <2>1
<1> QED BY <1>1, <1>3, <1>4 DEF Str

\* Joining a string where it was cut.
LEMMA CutAndJoin ==
  ASSUME NEW s \in Str, NEW n \in 0 .. Len(s)
  PROVE  Prefix(s, n) \o Suffix(s, n) = s
<1> DEFINE p == Prefix(s, n)
           q == Suffix(s, n)
           c == p \o q
<1>1. p \in Str /\ Len(p) = n /\ \A k \in 1 .. n : p[k] = s[k]
  BY PrefixIs
<1>2. q \in Str /\ Len(q) = Len(s) - n /\ \A k \in 1 .. Len(s) - n : q[k] = s[n + k]
  BY SuffixIs
<1> HIDE DEF p, q
<1>3. /\ c \in Str /\ Len(c) = Len(p) + Len(q)
      /\ \A k \in 1 .. Len(p) : c[k] = p[k]
      /\ \A k \in 1 .. Len(q) : c[Len(p) + k] = q[k]
  BY <1>1, <1>2, JoinIs
<1> HIDE DEF c
<1>4. Len(s) \in Nat /\ n \in Nat
  BY StrFacts
<1>5. Len(c) = Len(s)
  BY <1>1, <1>2, <1>3, <1>4
<1>6. ASSUME NEW k \in 1 .. Len(s) PROVE c[k] = s[k]
  <2>1. CASE k =< n
    <3>1. k \in 1 .. n
      BY <1>4, <2>1
    <3> QED BY <1>1, <1>3, <3>1
  <2>2. CASE k > n
    <3>1. k - n \in 1 .. Len(s) - n /\ n + (k - n) = k
      BY <1>4, <2>2
    <3>2. c[n + (k - n)] = s[n + (k - n)]
      BY <1>1, <1>2, <1>3, <3>1
    <3> QED BY <3>1, <3>2
  <2>3. k =< n \/ k > n
    BY <1>4
  <2> QED BY <2>1, <2>2, <2>3
<1>7. c = s
  BY <1>3, <1>5, <1>6, StrEqual
<1> QED BY <1>7 DEF c, p, q

\* Cutting a joined string where it was joined.
LEMMA JoinAndCut ==
  ASSUME NEW s \in Str, NEW t \in Str
  PROVE  /\ Prefix(s \o t, Len(s)) = s
         /\ \A n \in 0 .. Len(s) : Suffix(s \o t, n) = Suffix(s, n) \o t
<1> DEFINE c == s \o t
<1>1. /\ c \in Str /\ Len(c) = Len(s) + Len(t)
      /\ \A k \in 1 .. Len(s) : c[k] = s[k]
      /\ \A k \in 1 .. Len(t) : c[Len(s) + k] = t[k]
  BY JoinIs
<1> HIDE DEF c
<1>2. Len(s) \in Nat /\ Len(t) \in Nat
  BY StrFacts
<1>3. Prefix(c, Len(s)) = s
  <2>1. Len(s) \in 0 .. Len(c)
    BY <1>1, <1>2
  <2>2. /\ Prefix(c, Len(s)) \in Str /\ Len(Prefix(c, Len(s))) = Len(s)
        /\ \A k \in 1 .. Len(s) : Prefix(c, Len(s))[k] = c[k]
    BY <1>1, <2>1, PrefixIs
  <2> QED BY <1>1, <2>2, StrEqual
<1>4. ASSUME NEW n \in 0 .. Len(s) PROVE Suffix(c, n) = Suffix(s, n) \o t
  <2> DEFINE a == Suffix(c, n)
             b == Suffix(s, n)
             e == b \o t
             m == Len(s) - n
  <2>1. /\ a \in Str /\ Len(a) = Len(c) - n
        /\ \A k \in 1 .. Len(c) - n : a[k] = c[n + k]
    <3>1. n \in 0 .. Len(c)
      BY <1>1, <1>2
    <3> QED BY <1>1, <3>1, SuffixIs
  <2>2. b \in Str /\ Len(b) = m /\ \A k \in 1 .. m : b[k] = s[n + k]
    BY SuffixIs
  <2> HIDE DEF a, b
  <2>3. /\ e \in Str /\ Len(e) = Len(b) + Len(t)
        /\ \A k \in 1 .. Len(b) : e[k] = b[k]
        /\ \A k \in 1 .. Len(t) : e[Len(b) + k] = t[k]
    BY <2>2, JoinIs
  <2> HIDE DEF e
  <2>4. m \in Nat /\ n \in Nat /\ m + n = Len(s)
    BY <1>2
  <2> HIDE DEF m
  <2>5. Len(a) = m + Len(t) /\ Len(e) = m + Len(t) /\ Len(c) - n = m + Len(t)
    BY <1>1, <1>2, <2>1, <2>2, <2>3, <2>4
  <2>6. ASSUME NEW k \in 1 .. m + Len(t) PROVE a[k] = e[k]
    <3>1. a[k] = c[n + k]
      BY <2>1, <2>5
    <3>2. CASE k =< m
      <4>1. n + k \in 1 .. Len(s) /\ k \in 1 .. m
        BY <1>2, <2>4, <3>2
      <4> QED BY <1>1, <2>2, <2>3, <3>1, <4>1
    <3>3. CASE k > m
      <4>1. k - m \in 1 .. Len(t) /\ Len(s) + (k - m) = n + k /\ m + (k - m) = k
        BY <1>2, <2>4, <3>3
      <4>2. c[Len(s) + (k - m)] = t[k - m] /\ e[m + (k - m)] = t[k - m]
        BY <1>1, <2>2, <2>3, <4>1
      <4> QED BY <3>1, <4>1, <4>2
    <3>4. k =< m \/ k > m
      BY <1>2, <2>4
    <3> QED BY <3>2, <3>3, <3>4
  <2>7. a = e
    BY <2>1, <2>3, <2>5, <2>6, StrEqual
  <2> QED BY <2>7 DEF a, b, e
<1> QED BY <1>3, <1>4 DEF c

\* A prefix or a suffix taken in two steps.
LEMMA CutTwice ==
  ASSUME NEW s \in Str, NEW n \in 0 .. Len(s), NEW m \in 0 .. Len(s) - n
  PROVE  /\ Suffix(Suffix(s, n), m) = Suffix(s, m + n)
         /\ Suffix(Prefix(s, m + n), n) = Prefix(Suffix(s, n), m)
<1> DEFINE t == Suffix(s, n)
           p == Prefix(s, m + n)
<1>1. Len(s) \in Nat /\ m + n \in 0 .. Len(s)
  BY StrFacts
<1>2. t \in Str /\ Len(t) = Len(s) - n /\ \A k \in 1 .. Len(s) - n : t[k] = s[n + k]
  BY SuffixIs
<1>3. p \in Str /\ Len(p) = m + n /\ \A k \in 1 .. m + n : p[k] = s[k]
  BY <1>1, PrefixIs
<1> HIDE DEF t, p
<1>4. Suffix(t, m) = Suffix(s, m + n)
  <2> DEFINE a == Suffix(t, m)
             b == Suffix(s, m + n)
  <2>1. /\ a \in Str /\ Len(a) = Len(t) - m
        /\ \A k \in 1 .. Len(t) - m : a[k] = t[m + k]
    BY <1>2, SuffixIs
  <2>2. /\ b \in Str /\ Len(b) = Len(s) - (m + n)
        /\ \A k \in 1 .. Len(s) - (m + n) : b[k] = s[(m + n) + k]
    BY <1>1, SuffixIs
  <2> HIDE DEF a, b
  <2>3. Len(a) = Len(b)
    BY <1>1, <1>2, <2>1, <2>2
  <2>4. ASSUME NEW k \in 1 .. Len(a) PROVE a[k] = b[k]
    <3>1. /\ m + k \in 1 .. Len(s) - n /\ n + (m + k) = (m + n) + k
          /\ k \in 1 .. Len(t) - m /\ k \in 1 .. Len(s) - (m + n)
      BY <1>1, <1>2, <2>1
    <3> QED BY <1>2, <2>1, <2>2, <3>1
  <2>5. a = b
    BY <2>1, <2>2, <2>3, <2>4, StrEqual
  <2> QED BY <2>5 DEF a, b
<1>5. Suffix(p, n) = Prefix(t, m)
  <2> DEFINE a == Suffix(p, n)
             b == Prefix(t, m)
  <2>1. /\ a \in Str /\ Len(a) = Len(p) - n
        /\ \A k \in 1 .. Len(p) - n : a[k] = p[n + k]
    <3>1. n \in 0 .. Len(p)
      BY <1>1, <1>3
    <3> QED BY <1>3, <3>1, SuffixIs
  <2>2. b \in Str /\ Len(b) = m /\ \A k \in 1 .. m : b[k] = t[k]
    BY <1>2, PrefixIs
  <2> HIDE DEF a, b
  <2>3. Len(a) = Len(b)
    BY <1>1, <1>3, <2>1, <2>2
  <2>4. ASSUME NEW k \in 1 .. Len(a) PROVE a[k] = b[k]
    <3>1. /\ k \in 1 .. m /\ k \in 1 .. Len(s) - n /\ n + k \in 1 .. m + n
          /\ k \in 1 .. Len(p) - n
      BY <1>1, <1>3, <2>1
    <3> QED BY <1>2, <1>3, <2>1, <2>2, <3>1
  <2>5. a = b
    BY <2>1, <2>2, <2>3, <2>4, StrEqual
  <2> QED BY <2>5 DEF a, b
<1> QED BY <1>4, <1>5 DEF t, p

\* The prefix and the suffix that are empty.
LEMMA CutNothing ==
  ASSUME NEW s \in Str
  PROVE  /\ Suffix(s, 0) = s /\ Prefix(s, 0) = <<>>
         /\ Suffix(s, Len(s)) = <<>> /\ Prefix(s, Len(s)) = s
<1>1. Len(s) \in Nat
  BY StrFacts
<1>2. Suffix(s, 0) = s
  <2>1. /\ Suffix(s, 0) \in Str /\ Len(Suffix(s, 0)) = Len(s) - 0
        /\ \A k \in 1 .. Len(s) - 0 : Suffix(s, 0)[k] = s[0 + k]
    BY <1>1, SuffixIs
  <2>2. Len(Suffix(s, 0)) = Len(s) /\ \A k \in 1 .. Len(s) : Suffix(s, 0)[k] = s[k]
    <3>1. Len(s) - 0 = Len(s) /\ \A k \in 1 .. Len(s) : 0 + k = k
      BY <1>1
    <3> QED BY <2>1, <3>1
  <2> QED BY <2>1, <2>2, StrEqual
<1>3. Prefix(s, 0) = <<>> /\ Suffix(s, Len(s)) = <<>>
  BY <1>1, SubSeqEmpty DEF Prefix, Suffix
<1>4. Prefix(s, Len(s)) = s
  BY SubSeqFull DEF Prefix, Str
<1> QED BY <1>2, <1>3, <1>4

-----------------------------------------------------------------------------
(* What the renderer returns.                                               *)

\* The first piece of a string that has one.
LEMMA FirstPiece ==
  ASSUME NEW s \in Str, s # <<>>
  PROVE  /\ 1 \in 1 .. Len(s) /\ Subpart(s, 1) \in 1 .. Len(s)
         /\ Suffix(s, Subpart(s, 1)) \in Str /\ Piece(s, 1) \in Str
         /\ Len(Suffix(s, Subpart(s, 1))) = Len(s) - Subpart(s, 1)
         /\ Len(Suffix(s, Subpart(s, 1))) < Len(s)
<1>1. Len(s) \in Nat /\ 1 \in 1 .. Len(s)
  BY EmptySeq DEF Str
<1>2. Subpart(s, 1) \in 1 .. Len(s) - 1 + 1
  BY <1>1, SubpartIs
<1>3. Subpart(s, 1) \in 1 .. Len(s) /\ Subpart(s, 1) \in 0 .. Len(s)
  BY <1>1, <1>2
<1>4. /\ Suffix(s, Subpart(s, 1)) \in Str
      /\ Len(Suffix(s, Subpart(s, 1))) = Len(s) - Subpart(s, 1)
  BY <1>3, SuffixIs
<1>5. Len(s) - Subpart(s, 1) < Len(s)
  BY <1>1, <1>3
<1> QED BY <1>1, <1>3, <1>4, <1>5, PieceType

\* The rendering at the end, and before it.
All(s) == Render(s, TRUE)
Open(s) == Render(s, FALSE)
Kept(s) == Withheld(s, 1, FALSE)

\* One piece of the final rendering.
LEMMA AllUnfold ==
  ASSUME NEW s \in Str
  PROVE  /\ All(s) \in Rendering
         /\ s = <<>> => All(s) = [out |-> <<>>, used |-> 0]
         /\ s # <<>> =>
              All(s) = [out |-> <<Piece(s, 1)>> \o All(Suffix(s, Subpart(s, 1))).out,
                        used |-> All(Suffix(s, Subpart(s, 1))).used + Subpart(s, 1)]
<1>1. ~Withheld(s, 1, TRUE)
  BY DEF Withheld
<1> QED BY <1>1, RenderUnfold, Zenon DEF All

\* One piece of a rendering that is not final.
LEMMA OpenUnfold ==
  ASSUME NEW s \in Str
  PROVE  /\ Open(s) \in Rendering
         /\ s = <<>> => Open(s) = [out |-> <<>>, used |-> 0]
         /\ s # <<>> /\ Kept(s) => Open(s) = [out |-> <<>>, used |-> 0]
         /\ s # <<>> /\ ~Kept(s) =>
              Open(s) = [out |-> <<Piece(s, 1)>> \o Open(Suffix(s, Subpart(s, 1))).out,
                         used |-> Open(Suffix(s, Subpart(s, 1))).used + Subpart(s, 1)]
BY RenderUnfold, Zenon DEF Open, Kept

\* The nonstream text and the last delta: all of it, as the standard has it.
LEMMA FinalRender ==
  \A s \in Str : All(s) = [out |-> Decoded(s), used |-> Len(s)]
<1> DEFINE P(s) == All(s) = [out |-> Decoded(s), used |-> Len(s)]
           Bad == {n \in Nat : \E s \in Str : Len(s) = n /\ ~P(s)}
<1>1. ASSUME NEW s \in Str, \A t \in Str : Len(t) < Len(s) => P(t)
      PROVE  P(s)
  <2>1. CASE s = <<>>
    <3>1. Len(s) = 0
      BY <2>1
    <3> QED BY <2>1, <3>1, DecodedUnfold, AllUnfold
  <2>2. CASE s # <<>>
    <3> DEFINE n == Subpart(s, 1)
               t == Suffix(s, n)
    <3>1. /\ t \in Str /\ Len(t) = Len(s) - n /\ Len(t) < Len(s)
          /\ n \in 1 .. Len(s)
      BY <2>2, FirstPiece
    <3>2. All(t) = [out |-> Decoded(t), used |-> Len(t)]
      BY <1>1, <3>1
    <3>3. All(s) = [out |-> <<Piece(s, 1)>> \o All(t).out,
                             used |-> All(t).used + n]
      BY <2>2, AllUnfold
    <3>4. Decoded(s) = <<Piece(s, 1)>> \o Decoded(t)
      BY <2>2, DecodedUnfold
    <3>5. Len(t) + n = Len(s)
      BY <3>1, StrFacts
    <3> HIDE DEF n, t
    <3>6. All(t).out = Decoded(t) /\ All(t).used = Len(t)
      BY <3>2
    <3> QED BY <3>3, <3>4, <3>5, <3>6
  <2> QED BY <2>1, <2>2
<1> HIDE DEF P
<1>2. Bad = {}
  <2> SUFFICES ASSUME Bad # {} PROVE FALSE
    OBVIOUS
  <2>1. PICK n \in Bad : \A y \in Bad : n =< y
    <3>1. Bad \subseteq Nat
      OBVIOUS
    <3> HIDE DEF Bad
    <3> QED BY <3>1, LeastNumber
  <2>2. PICK s \in Str : Len(s) = n /\ ~P(s)
    BY <2>1
  <2>3. ASSUME NEW t \in Str, Len(t) < Len(s) PROVE P(t)
    <3>1. Len(t) \in Nat /\ Len(s) \in Nat
      BY StrFacts
    <3>2. Len(t) \notin Bad
      <4>1. ~ (n =< Len(t))
        BY <2>2, <2>3, <3>1
      <4> HIDE DEF Bad
      <4> QED BY <2>1, <4>1
    <3> QED BY <3>1, <3>2
  <2> QED BY <1>1, <2>2, <2>3
<1>3. ASSUME NEW s \in Str PROVE P(s)
  <2>1. Len(s) \in Nat /\ Len(s) \notin Bad
    BY <1>2, StrFacts
  <2> QED BY <2>1
<1> QED BY <1>3 DEF P

\* A suffix that may still become a character.
Carry(q) ==
  q # <<>> => Starts(q, 1, Len(q)) /\ ~IsCharacter(q, 1, Len(q))

\* What a delta before the last one shows, and what it keeps: the shown part is
\* rendered as by itself, and so it stays whatever follows.
Shows(s) ==
  LET r == Open(s)
  IN  /\ r.used \in 0 .. Len(s) /\ r.out \in Chars
      /\ Decoded(Prefix(s, r.used)) = r.out
      /\ Carry(Suffix(s, r.used))
      /\ \A x \in Str : Decoded(s \o x) = r.out \o Decoded(Suffix(s, r.used) \o x)

\* Joining texts.
LEMMA CharsJoin ==
  ASSUME NEW p \in Str, NEW v \in Chars, NEW w \in Chars
  PROVE  /\ (<<p>> \o v) \o w = <<p>> \o (v \o w)
         /\ <<>> \o w = w
<1>1. <<p>> \in Seq(Str) /\ v \in Seq(Str) /\ w \in Seq(Str)
  BY DEF Chars
<1> QED BY <1>1, ConcatAssociative, ConcatEmptySeq

\* A rendering that keeps all of it back.
LEMMA ShowsNothing ==
  ASSUME NEW s \in Str, Open(s) = [out |-> <<>>, used |-> 0], Carry(s)
  PROVE  Shows(s)
<1>1. Len(s) \in Nat /\ Suffix(s, 0) = s /\ Prefix(s, 0) = <<>>
  BY StrFacts, CutNothing
<1>2. <<>> \in Str /\ <<>> \in Chars
  BY DEF Str, Chars
<1>3. Decoded(<<>>) = <<>>
  BY <1>2, DecodedUnfold
<1>4. ASSUME NEW x \in Str PROVE Decoded(s \o x) = <<>> \o Decoded(s \o x)
  <2>1. s \o x \in Str
    BY JoinIs
  <2>2. Decoded(s \o x) \in Seq(Str)
    BY <2>1, DecodedUnfold DEF Chars
  <2> QED BY <2>2, ConcatEmptySeq
<1>5. Open(s).used = 0 /\ Open(s).out = <<>>
  OBVIOUS
<1>6. 0 \in 0 .. Len(s)
  BY <1>1
<1> QED BY <1>1, <1>2, <1>3, <1>4, <1>5, <1>6 DEF Shows

\* A rendering of one piece and of what follows it.
LEMMA ShowsPiece ==
  ASSUME NEW s \in Str, s # <<>>, ~Kept(s),
         Shows(Suffix(s, Subpart(s, 1)))
  PROVE  Shows(s)
<1> DEFINE n == Subpart(s, 1)
           t == Suffix(s, n)
           v == Open(t).out
           m == Open(t).used
           u == m + n
<1>1. /\ t \in Str /\ Len(t) = Len(s) - n /\ n \in 1 .. Len(s) /\ Piece(s, 1) \in Str
      /\ Len(s) \in Nat /\ 1 \in 1 .. Len(s) /\ n \in 0 .. Len(s)
  BY FirstPiece, StrFacts
<1>2. /\ m \in 0 .. Len(t) /\ v \in Chars /\ Decoded(Prefix(t, m)) = v
      /\ Carry(Suffix(t, m))
      /\ \A x \in Str : Decoded(t \o x) = v \o Decoded(Suffix(t, m) \o x)
  BY DEF Shows
<1>3. Open(s).out = <<Piece(s, 1)>> \o v /\ Open(s).used = u
  <2>1. Open(s) = [out |-> <<Piece(s, 1)>> \o v, used |-> u]
    BY OpenUnfold
  <2> HIDE DEF v, u
  <2> QED BY <2>1
<1>4. Length(s[1]) = 0 \/ n = Length(s[1]) \/ 1 + n =< Len(s)
  BY <1>1 DEF Kept, Withheld
<1> HIDE DEF n, v, m
<1>5. u \in n .. Len(s) /\ u \in 0 .. Len(s) /\ m \in 0 .. Len(s) - n
  BY <1>1, <1>2
<1>6. Suffix(s, u) = Suffix(t, m) /\ Suffix(Prefix(s, u), n) = Prefix(t, m)
  BY <1>1, <1>5, CutTwice
<1> HIDE DEF u
<1>7. Decoded(Prefix(s, u)) = <<Piece(s, 1)>> \o v
  <2> DEFINE p == Prefix(s, u)
  <2>1. p \in Str /\ Len(p) = u /\ \A k \in 1 .. u : p[k] = s[k]
    BY <1>5, PrefixIs
  <2> HIDE DEF p
  <2>2. 1 \in 1 .. Len(p) /\ 1 + n - 1 =< Len(p)
    BY <1>1, <1>5, <2>1
  <2>3. ASSUME NEW k \in 0 .. n - 1 PROVE p[1 + k] = s[1 + k]
    <3>1. 1 + k \in 1 .. u
      BY <1>1, <1>5
    <3> QED BY <2>1, <3>1
  <2>4. 1 + n - 1 = Len(p) \/ 1 + n \in 1 .. u
    BY <1>1, <1>5, <2>1
  <2>5. \/ Length(s[1]) = 0 \/ n = Length(s[1]) \/ 1 + n - 1 = Len(p)
        \/ 1 + n =< Len(s) /\ p[1 + n] = s[1 + n]
    BY <1>4, <2>1, <2>4
  <2>6. Subpart(p, 1) = n /\ Piece(p, 1) = Piece(s, 1)
    BY <1>1, <2>1, <2>2, <2>3, <2>5, FirstIsLocal DEF n
  <2>7. p # <<>>
    BY <1>1, <1>5, <2>1
  <2>8. Decoded(p) = <<Piece(p, 1)>> \o Decoded(Suffix(p, Subpart(p, 1)))
    BY <2>1, <2>7, DecodedUnfold
  <2> QED BY <1>2, <1>6, <2>6, <2>8 DEF p
<1>8. ASSUME NEW x \in Str
      PROVE  Decoded(s \o x) = (<<Piece(s, 1)>> \o v) \o Decoded(Suffix(s, u) \o x)
  <2> DEFINE y == s \o x
  <2>1. y \in Str /\ Len(y) = Len(s) + Len(x) /\ \A k \in 1 .. Len(s) : y[k] = s[k]
    BY JoinIs
  <2>2. Suffix(y, n) = t \o x
    BY <1>1, JoinAndCut
  <2> HIDE DEF y
  <2>3. Len(x) \in Nat
    BY StrFacts
  <2>4. 1 \in 1 .. Len(y) /\ 1 + n - 1 =< Len(y)
    BY <1>1, <2>1, <2>3
  <2>5. ASSUME NEW k \in 0 .. n - 1 PROVE y[1 + k] = s[1 + k]
    <3>1. 1 + k \in 1 .. Len(s)
      BY <1>1
    <3> QED BY <2>1, <3>1
  <2>6. 1 + n =< Len(s) => 1 + n \in 1 .. Len(s)
    BY <1>1
  <2>7. \/ Length(s[1]) = 0 \/ n = Length(s[1]) \/ 1 + n - 1 = Len(y)
        \/ 1 + n =< Len(s) /\ y[1 + n] = s[1 + n]
    BY <1>4, <2>1, <2>6
  <2>8. Subpart(y, 1) = n /\ Piece(y, 1) = Piece(s, 1)
    BY <1>1, <2>1, <2>4, <2>5, <2>7, FirstIsLocal DEF n
  <2>9. y # <<>>
    BY <2>1, <2>4
  <2>10. Decoded(y) = <<Piece(y, 1)>> \o Decoded(Suffix(y, Subpart(y, 1)))
    BY <2>1, <2>9, DecodedUnfold
  <2>11. Decoded(y) = <<Piece(s, 1)>> \o (v \o Decoded(Suffix(t, m) \o x))
    BY <1>2, <2>2, <2>8, <2>10
  <2>12. Decoded(Suffix(t, m) \o x) \in Chars
    <3>1. Suffix(t, m) \in Str
      BY <1>1, <1>2, SuffixIs
    <3>2. Suffix(t, m) \o x \in Str
      BY <3>1, JoinIs
    <3> QED BY <3>2, DecodedUnfold
  <2> DEFINE w == Decoded(Suffix(t, m) \o x)
  <2> HIDE DEF w
  <2>13. (<<Piece(s, 1)>> \o v) \o w = <<Piece(s, 1)>> \o (v \o w)
    BY <1>1, <1>2, <2>12, CharsJoin DEF w
  <2> QED BY <1>6, <2>11, <2>13 DEF y, w
<1>9. <<Piece(s, 1)>> \o v \in Chars
  BY <1>1, <1>2, PutFirst
<1>10. Carry(Suffix(s, u))
  BY <1>2, <1>6
<1> QED BY <1>3, <1>5, <1>7, <1>8, <1>9, <1>10 DEF Shows

\* Every rendering that is not final shows what may be shown.
LEMMA OpenRender == \A s \in Str : Shows(s)
<1> DEFINE Bad == {n \in Nat : \E s \in Str : Len(s) = n /\ ~Shows(s)}
<1>1. ASSUME NEW s \in Str, \A t \in Str : Len(t) < Len(s) => Shows(t)
      PROVE  Shows(s)
  <2>1. CASE s = <<>>
    <3>1. Open(s) = [out |-> <<>>, used |-> 0] /\ Carry(s)
      BY <2>1, OpenUnfold DEF Carry
    <3> QED BY <3>1, ShowsNothing
  <2>2. CASE s # <<>> /\ Kept(s)
    <3>1. Open(s) = [out |-> <<>>, used |-> 0]
      BY <2>2, OpenUnfold
    <3> DEFINE n == Subpart(s, 1)
    <3>2. /\ Len(s) \in Nat /\ 1 \in 1 .. Len(s) /\ n \in 1 .. Len(s)
          /\ Length(s[1]) # 0 /\ n # Length(s[1]) /\ 1 + n = Len(s) + 1
      BY <2>2, FirstPiece, StrFacts DEF Kept, Withheld
    <3>3. n = Len(s) /\ n \in 1 .. Len(s) - 1 + 1
      BY <3>2
    <3>4. n = Scanned(s, 1) /\ n =< Length(s[1]) /\ Acc(s, 1, n)
      BY <3>2, SubpartIs, ScannedIs
    <3>5. Starts(s, 1, n) /\ ~IsCharacter(s, 1, n)
      BY <3>2, <3>3, <3>4, StartsIs
    <3>6. Carry(s)
      BY <3>3, <3>5 DEF Carry
    <3> QED BY <3>1, <3>6, ShowsNothing
  <2>3. CASE s # <<>> /\ ~Kept(s)
    <3>1. /\ Suffix(s, Subpart(s, 1)) \in Str
          /\ Len(Suffix(s, Subpart(s, 1))) < Len(s)
      BY <2>3, FirstPiece
    <3>2. Shows(Suffix(s, Subpart(s, 1)))
      BY <1>1, <3>1
    <3> QED BY <2>3, <3>2, ShowsPiece
  <2> QED BY <2>1, <2>2, <2>3
<1>2. Bad = {}
  <2> SUFFICES ASSUME Bad # {} PROVE FALSE
    OBVIOUS
  <2>1. PICK n \in Bad : \A y \in Bad : n =< y
    <3>1. Bad \subseteq Nat
      OBVIOUS
    <3> HIDE DEF Bad
    <3> QED BY <3>1, LeastNumber
  <2>2. PICK s \in Str : Len(s) = n /\ ~Shows(s)
    BY <2>1
  <2>3. ASSUME NEW t \in Str, Len(t) < Len(s) PROVE Shows(t)
    <3>1. Len(t) \in Nat /\ Len(s) \in Nat
      BY StrFacts
    <3>2. Len(t) \notin Bad
      <4>1. ~ (n =< Len(t))
        BY <2>2, <2>3, <3>1
      <4> HIDE DEF Bad
      <4> QED BY <2>1, <4>1
    <3> QED BY <3>1, <3>2
  <2> QED BY <1>1, <2>2, <2>3
<1>3. ASSUME NEW s \in Str PROVE Shows(s)
  <2>1. Len(s) \in Nat /\ Len(s) \notin Bad
    BY <1>2, StrFacts
  <2> QED BY <2>1
<1> QED BY <1>3

\* A carry is shown whole or kept whole.
LEMMA CarryIsWhole ==
  ASSUME NEW q \in Str, Carry(q), q # <<>>, NEW x \in Str
  PROVE  \/ Open(q \o x) = [out |-> <<>>, used |-> 0]
         \/ Open(q \o x).used >= Len(q)
<1> DEFINE s == q \o x
           n == Subpart(s, 1)
           m == Len(q)
<1>1. /\ s \in Str /\ Len(s) = Len(q) + Len(x) /\ \A k \in 1 .. Len(q) : s[k] = q[k]
  BY JoinIs
<1> HIDE DEF s
<1>2. Len(q) \in Nat /\ Len(x) \in Nat /\ 1 \in 1 .. Len(q)
  BY StrFacts, FirstPiece
<1>3. 1 \in 1 .. Len(s) /\ m \in 1 .. Len(q) - 1 + 1 /\ m \in 1 .. Len(s) - 1 + 1
  BY <1>1, <1>2
<1>4. m =< Length(q[1]) /\ Acc(q, 1, m)
  BY <1>2, <1>3, StartsIs DEF Carry
<1>5. s[1] = q[1]
  BY <1>1, <1>2
<1>6. Acc(s, 1, m)
  <2> SUFFICES ASSUME NEW k \in 1 .. m - 1 PROVE Accepts(s[1], k, s[1 + k])
    BY DEF Acc
  <2>1. 1 + k \in 1 .. Len(q)
    BY <1>2
  <2>2. s[1 + k] = q[1 + k]
    BY <1>1, <2>1
  <2> QED BY <1>4, <1>5, <2>2 DEF Acc
<1>7. Length(s[1]) # 0
  BY <1>2, <1>4, <1>5
<1>8. n = Scanned(s, 1)
  BY <1>1, <1>3, <1>7, SubpartIs
<1>9. n >= m /\ n \in Nat
  <2>1. m =< Scanned(s, 1) /\ Scanned(s, 1) \in 1 .. Len(s) - 1 + 1
    BY <1>1, <1>3, <1>4, <1>5, <1>6, <1>7, ScannedIs
  <2> HIDE DEF n
  <2> QED BY <1>1, <1>2, <1>8, <2>1
<1>10. s # <<>>
  BY <1>1, <1>3
<1>11. CASE Kept(s)
  BY <1>1, <1>10, <1>11, OpenUnfold DEF s
<1>12. CASE ~Kept(s)
  <2> DEFINE t == Suffix(s, n)
             w == Open(t).used
  <2>1. Open(s) = [out |-> <<Piece(s, 1)>> \o Open(t).out,
                            used |-> w + n]
    BY <1>1, <1>10, <1>12, OpenUnfold
  <2>2. t \in Str
    BY <1>1, <1>10, FirstPiece
  <2>3. w \in 0 .. Len(t) /\ Len(t) \in Nat
    BY <2>2, OpenRender, StrFacts DEF Shows
  <2>4. Open(s).used = w + n
    BY <2>1
  <2> HIDE DEF n, w, t
  <2>5. Open(s).used >= m
    BY <1>2, <1>9, <2>3, <2>4
  <2> QED BY <2>5 DEF s
<1> QED BY <1>11, <1>12

-----------------------------------------------------------------------------
(* The stream.                                                              *)

StreamTypes ==
  /\ text \in Str /\ pending \in Str /\ sent \in Chars
  /\ index \in 0 .. MaxTokens /\ finished \in BOOLEAN /\ Len(text) =< MaxBytes

\* Before the end: what was sent is the rendering of done, and whatever comes
\* next, the rest will be rendered as if the pending bytes were its beginning.
Streaming ==
  /\ \E done \in Str : text = done \o pending /\ sent = Decoded(done)
  /\ Carry(pending)
  /\ \A x \in Str : Decoded(text \o x) = sent \o Decoded(pending \o x)

StreamInv ==
  /\ StreamTypes
  /\ index = MaxTokens => finished
  /\ finished => pending = <<>> /\ sent = Decoded(text)
  /\ ~finished => Streaming

\* Three strings in a row.
LEMMA StrAssoc ==
  ASSUME NEW s \in Str, NEW t \in Str, NEW v \in Str
  PROVE  (s \o t) \o v = s \o (t \o v)
<1>1. s \in Seq(Byte) /\ t \in Seq(Byte) /\ v \in Seq(Byte)
  BY DEF Str
<1> QED BY <1>1, ConcatAssociative

\* Three texts in a row.
LEMMA CharsAssoc ==
  ASSUME NEW s \in Chars, NEW t \in Chars, NEW v \in Chars
  PROVE  (s \o t) \o v = s \o (t \o v)
<1>1. s \in Seq(Str) /\ t \in Seq(Str) /\ v \in Seq(Str)
  BY DEF Chars
<1> QED BY <1>1, ConcatAssociative

\* Nothing has arrived and nothing was sent.
LEMMA StreamStarts ==
  ASSUME Init PROVE StreamInv
<1>1. <<>> \in Str /\ <<>> \in Chars /\ Len(<<>>) = 0
  BY DEF Str, Chars
<1>2. StreamTypes /\ index # MaxTokens
  <2>1. text = <<>> /\ index = 0 /\ pending = <<>> /\ sent = <<>> /\ finished = FALSE
    BY DEF Init
  <2>2. 0 \in 0 .. MaxTokens /\ 0 # MaxTokens /\ 0 =< MaxBytes
    BY BoundsAssumption, MaxTokensAssumption
  <2>3. index \in 0 .. MaxTokens /\ index # MaxTokens /\ finished \in BOOLEAN
    BY <2>1, <2>2
  <2>4. text \in Str /\ pending \in Str /\ sent \in Chars /\ Len(text) =< MaxBytes
    BY <1>1, <2>1, <2>2
  <2> QED BY <2>3, <2>4 DEF StreamTypes
<1>3. <<>> \o <<>> = <<>> /\ Decoded(<<>>) = <<>>
  BY <1>1, DecodedUnfold, ConcatEmptySeq DEF Str
<1>4. ASSUME NEW x \in Str PROVE Decoded(<<>> \o x) = <<>> \o Decoded(<<>> \o x)
  <2>1. <<>> \o x = x
    BY ConcatEmptySeq DEF Str
  <2>2. Decoded(x) \in Seq(Str)
    BY DecodedUnfold DEF Chars
  <2> QED BY <2>1, <2>2, ConcatEmptySeq
<1>5. Streaming
  BY <1>1, <1>3, <1>4 DEF Init, Streaming, Carry
<1> QED BY <1>2, <1>5 DEF Init, StreamInv

\* observe_gateway_token: one token, the last one or not.
LEMMA ObserveKeeps ==
  ASSUME StreamInv, NEW delta \in Str, NEW stop \in BOOLEAN,
         Len(text) + Len(delta) =< MaxBytes, Observe(delta, stop)
  PROVE  StreamInv'
<1> DEFINE bytes == pending \o delta
           final == Finishes(stop, index)
           r == Render(bytes, final)
<1>1. /\ ~finished /\ index < MaxTokens /\ index' = index + 1
      /\ text' = text \o delta /\ sent' = sent \o r.out
      /\ pending' = SubSeq(bytes, r.used + 1, Len(bytes)) /\ finished' = final
  BY DEF Observe
<1>2. StreamTypes /\ Streaming
  BY <1>1 DEF StreamInv
<1>3. /\ text \in Str /\ pending \in Str /\ sent \in Chars /\ index \in 0 .. MaxTokens
      /\ MaxTokens \in Nat
  BY <1>2, MaxTokensAssumption DEF StreamTypes
<1>4. PICK done \in Str : text = done \o pending /\ sent = Decoded(done)
  BY <1>2 DEF Streaming
<1>5. /\ Carry(pending)
      /\ \A x \in Str : Decoded(text \o x) = sent \o Decoded(pending \o x)
  BY <1>2 DEF Streaming
<1>6. /\ bytes \in Str /\ text \o delta \in Str
      /\ Len(text \o delta) = Len(text) + Len(delta)
  BY <1>3, JoinIs
<1>7. final \in BOOLEAN /\ (index + 1 = MaxTokens => final)
  BY DEF Finishes
<1>8. index' \in 0 .. MaxTokens
  BY <1>1, <1>3
<1>9. index' = MaxTokens => finished'
  BY <1>1, <1>7
<1>10. Len(text') =< MaxBytes /\ text' \in Str
  BY <1>1, <1>6
<1> HIDE DEF final
<1>11. CASE final
  <2>1. r = All(bytes)
    BY <1>11 DEF All
  <2>2. r = [out |-> Decoded(bytes), used |-> Len(bytes)]
    BY <1>6, <2>1, FinalRender
  <2> HIDE DEF r
  <2>3. r.out = Decoded(bytes) /\ r.used = Len(bytes)
    BY <2>2
  <2>4. pending' = <<>>
    <3>1. Suffix(bytes, Len(bytes)) = <<>>
      BY <1>6, CutNothing
    <3> HIDE DEF bytes
    <3> QED BY <1>1, <2>3, <3>1 DEF Suffix
  <2>5. sent' = Decoded(text')
    BY <1>1, <1>5, <2>3
  <2>6. sent' \in Chars
    BY <1>10, <2>5, DecodedUnfold
  <2>7. <<>> \in Str
    BY DEF Str
  <2>8. StreamTypes'
    BY <1>1, <1>7, <1>8, <1>10, <2>4, <2>6, <2>7 DEF StreamTypes
  <2> QED BY <1>1, <1>9, <1>11, <2>4, <2>5, <2>8 DEF StreamInv
<1>12. CASE ~final
  <2>1. r = Open(bytes)
    BY <1>7, <1>12 DEF Open
  <2> HIDE DEF r
  <2> DEFINE u == r.used
             p == Prefix(bytes, u)
             q == Suffix(bytes, u)
  <2>2. /\ u \in 0 .. Len(bytes) /\ r.out \in Chars /\ Decoded(p) = r.out /\ Carry(q)
        /\ \A x \in Str : Decoded(bytes \o x) = r.out \o Decoded(q \o x)
    BY <1>6, <2>1, OpenRender DEF Shows
  <2>3. pending' = q
    BY <1>1 DEF Suffix
  <2>4. p \in Str /\ q \in Str /\ p \o q = bytes
    BY <1>6, <2>2, PrefixIs, SuffixIs, CutAndJoin
  <2>5. (pending # <<>> => u = 0 \/ u >= Len(pending))
    <3> SUFFICES ASSUME pending # <<>> PROVE u = 0 \/ u >= Len(pending)
      OBVIOUS
    <3>1. \/ Open(bytes) = [out |-> <<>>, used |-> 0] \/ Open(bytes).used >= Len(pending)
      BY <1>3, <1>5, CarryIsWhole
    <3> HIDE DEF bytes
    <3> QED BY <2>1, <3>1
  <2> HIDE DEF p, q
  <2>6. sent' \in Chars
    <3>1. sent \in Seq(Str) /\ r.out \in Seq(Str)
      BY <1>3, <2>2 DEF Chars
    <3>2. sent \o r.out \in Seq(Str)
      BY <3>1, ConcatProperties
    <3> QED BY <1>1, <3>2 DEF Chars
  <2>7. StreamTypes'
    BY <1>1, <1>7, <1>8, <1>10, <2>3, <2>4, <2>6 DEF StreamTypes
  <2>8. text' = (done \o p) \o pending'
    <3>1. (done \o pending) \o delta = done \o (pending \o delta)
      BY <1>3, <1>4, StrAssoc, Zenon
    <3>2. (done \o p) \o q = done \o (p \o q)
      BY <1>4, <2>4, StrAssoc, Zenon
    <3> QED BY <1>1, <1>4, <2>3, <2>4, <3>1, <3>2
  <2>9. Decoded(done \o p) = sent \o r.out
    <3>1. CASE pending = <<>>
      <4>1. done = text
        BY <1>4, <3>1, ConcatEmptySeq DEF Str
      <4>2. <<>> \o p = p
        BY <2>4, ConcatEmptySeq DEF Str
      <4>3. Decoded(text \o p) = sent \o Decoded(pending \o p)
        BY <1>5, <2>4
      <4> QED BY <2>2, <3>1, <4>1, <4>2, <4>3
    <3>2. CASE u = 0
      <4>1. p = <<>>
        BY <1>6, <3>2, CutNothing DEF p
      <4>2. done \o p = done
        BY <1>4, <4>1, ConcatEmptySeq DEF Str
      <4>3. <<>> \in Str /\ Decoded(<<>>) = <<>>
        <5>1. <<>> \in Str
          BY DEF Str
        <5> QED BY <5>1, DecodedUnfold
      <4>4. r.out = <<>>
        BY <2>2, <4>1, <4>3
      <4>5. sent \o <<>> = sent
        BY <1>3, ConcatEmptySeq DEF Chars
      <4> QED BY <1>4, <4>2, <4>4, <4>5
    <3>3. CASE pending # <<>> /\ u >= Len(pending)
      <4> DEFINE n == Len(pending)
                 e == Suffix(p, n)
      <4>1. Len(p) = u /\ n \in Nat /\ u \in Nat /\ Len(bytes) \in Nat
        BY <1>3, <1>6, <2>2, PrefixIs, StrFacts DEF p
      <4>2. n \in 0 .. Len(p) /\ n \in 0 .. Len(bytes)
        BY <2>2, <3>3, <4>1
      <4>3. Prefix(p, n) = pending
        <5>1. Prefix(bytes, n) = pending
          BY <1>3, JoinAndCut
        <5> HIDE DEF bytes
        <5>2. /\ Prefix(p, n) \in Str /\ Len(Prefix(p, n)) = n
              /\ \A k \in 1 .. n : Prefix(p, n)[k] = p[k]
          BY <2>4, <4>2, PrefixIs
        <5>3. /\ Prefix(bytes, n) \in Str /\ Len(Prefix(bytes, n)) = n
              /\ \A k \in 1 .. n : Prefix(bytes, n)[k] = bytes[k]
          BY <1>6, <4>2, PrefixIs
        <5>4. \A k \in 1 .. u : p[k] = bytes[k]
          BY <1>6, <2>2, PrefixIs DEF p
        <5>5. \A k \in 1 .. n : k \in 1 .. u
          BY <4>1, <4>2
        <5>6. Prefix(p, n) = Prefix(bytes, n)
          <6> DEFINE a == Prefix(p, n)
                     b == Prefix(bytes, n)
          <6>1. a \in Str /\ b \in Str /\ Len(a) = n /\ Len(b) = n
            BY <5>2, <5>3
          <6>2. \A k \in 1 .. n : a[k] = b[k]
            BY <5>2, <5>3, <5>4, <5>5
          <6> HIDE DEF a, b, n
          <6>3. a = b
            BY <6>1, <6>2, StrEqual
          <6> QED BY <6>3 DEF a, b
        <5> QED BY <5>1, <5>6
      <4>4. e \in Str /\ pending \o e = p
        BY <2>4, <4>2, <4>3, SuffixIs, CutAndJoin
      <4> HIDE DEF e
      <4>5. done \o p = text \o e
        <5>1. done \in Str /\ pending \in Str /\ e \in Str
          BY <1>3, <4>4
        <5>2. (done \o pending) \o e = done \o (pending \o e)
          BY <5>1, StrAssoc, Zenon
        <5> QED BY <1>4, <4>4, <5>2
      <4>6. Decoded(text \o e) = sent \o Decoded(pending \o e)
        BY <1>5, <4>4
      <4>7. Decoded(p) = r.out
        BY <2>2
      <4> HIDE DEF n
      <4> QED BY <4>4, <4>5, <4>6, <4>7
    <3> QED BY <2>5, <3>1, <3>2, <3>3
  <2>10. ASSUME NEW x \in Str
         PROVE  Decoded(text' \o x) = sent' \o Decoded(pending' \o x)
    <3>1. /\ delta \o x \in Str /\ (text \o delta) \o x = text \o (delta \o x)
          /\ (pending \o delta) \o x = pending \o (delta \o x)
      <4>1. delta \o x \in Str
        BY JoinIs
      <4>2. text \in Str /\ pending \in Str /\ delta \in Str /\ x \in Str
        BY <1>3
      <4>3. (text \o delta) \o x = text \o (delta \o x)
        BY <4>2, StrAssoc
      <4>4. (pending \o delta) \o x = pending \o (delta \o x)
        BY <4>2, StrAssoc
      <4> QED BY <4>1, <4>3, <4>4
    <3>2. Decoded(text' \o x) = sent \o Decoded(bytes \o x)
      BY <1>1, <1>5, <3>1
    <3>3. Decoded(bytes \o x) = r.out \o Decoded(q \o x)
      BY <2>2
    <3>4. Decoded(q \o x) \in Chars
      BY <2>4, JoinIs, DecodedUnfold
    <3>5. (sent \o r.out) \o Decoded(q \o x) = sent \o (r.out \o Decoded(q \o x))
      BY <1>3, <2>2, <3>4, CharsAssoc, Zenon
    <3> QED BY <1>1, <2>3, <3>2, <3>3, <3>5
  <2>11. done \o p \in Str /\ sent' = Decoded(done \o p)
    BY <1>1, <1>4, <2>4, <2>9, JoinIs
  <2>12. Streaming'
    <3>1. Carry(pending)' <=> Carry(pending')
      BY DEF Carry, Starts, IsCharacter, WellFormedRanges, Tail8
    <3>2. Carry(pending)'
      BY <2>2, <2>3, <3>1
    <3>3. \A x \in Str : Decoded(text \o x)' = sent' \o Decoded(pending \o x)'
      BY <2>10
    <3>4. \E d \in Str : text' = d \o pending' /\ sent' = Decoded(d)'
      BY <2>8, <2>11
    <3> QED BY <3>2, <3>3, <3>4 DEF Streaming
  <2> QED BY <1>1, <1>9, <1>12, <2>7, <2>12 DEF StreamInv
<1> QED BY <1>7, <1>11, <1>12

\* Every step keeps the invariant.
LEMMA StepKeeps ==
  ASSUME StreamInv, [Next]_vars
  PROVE  StreamInv'
<1>1. CASE Token
  <2>1. PICK delta \in Deltas :
          Len(text) + Len(delta) =< MaxBytes /\ Observe(delta, FALSE)
    BY <1>1 DEF Token
  <2>2. delta \in Str
    <3>1. PICK n \in 0 .. MaxDelta : delta \in [1 .. n -> Bytes]
      BY DEF Deltas
    <3>2. n \in Nat /\ delta \in [1 .. n -> Byte]
      <4>1. n \in Nat
        BY BoundsAssumption
      <4>2. Bytes \subseteq Byte
        BY BytesAssumption DEF Byte
      <4> QED BY <3>1, <4>1, <4>2
    <3>3. Seq(Byte) = UNION {[1 .. k -> Byte] : k \in Nat}
      BY SeqDef
    <3> QED BY <3>2, <3>3 DEF Str
  <2> QED BY <2>1, <2>2, ObserveKeeps
<1>2. CASE StopToken
  <2>1. <<>> \in Str /\ Len(<<>>) = 0
    BY DEF Str
  <2>2. Len(text) + Len(<<>>) =< MaxBytes
    <3>1. Len(text) \in Nat /\ Len(text) =< MaxBytes
      BY StrFacts DEF StreamInv, StreamTypes
    <3> QED BY <2>1, <3>1
  <2> QED BY <1>2, <2>1, <2>2, ObserveKeeps DEF StopToken
<1>3. CASE UNCHANGED vars
  <2>1. /\ text' = text /\ index' = index /\ pending' = pending /\ sent' = sent
        /\ finished' = finished
    BY <1>3 DEF vars
  <2>2. StreamTypes' <=> StreamTypes
    BY <2>1 DEF StreamTypes
  <2>3. Streaming' <=> Streaming
    BY <2>1 DEF Streaming, Carry
  <2> QED BY <2>1, <2>2, <2>3 DEF StreamInv
<1> QED BY <1>1, <1>2, <1>3 DEF Next

\* The invariant is enough.
LEMMA StreamInvMeans ==
  ASSUME StreamInv PROVE StreamMatchesReference
<1>1. /\ text \in Str /\ pending \in Str /\ Len(text) \in Nat /\ Len(pending) \in Nat
      /\ StreamTypes
  BY StrFacts DEF StreamInv, StreamTypes
<1>2. RenderedInFull
  <2>1. All(text) = [out |-> Decoded(text), used |-> Len(text)]
    BY <1>1, FinalRender
  <2> QED BY <2>1 DEF StreamInv, RenderedInFull, All
<1>3. ASSUME ~finished
      PROVE  /\ text = SubSeq(text, 1, Len(text) - Len(pending)) \o pending
             /\ sent = Decoded(SubSeq(text, 1, Len(text) - Len(pending)))
             /\ Carry(pending) /\ Len(pending) =< 3
  <2>1. Streaming
    BY <1>3 DEF StreamInv
  <2>2. PICK done \in Str : text = done \o pending /\ sent = Decoded(done)
    BY <2>1 DEF Streaming
  <2>3. Len(done) \in Nat /\ Len(text) = Len(done) + Len(pending)
    BY <1>1, <2>2, JoinIs, StrFacts
  <2>4. Len(text) - Len(pending) = Len(done)
    BY <1>1, <2>3
  <2>5. SubSeq(text, 1, Len(done)) = done
    BY <1>1, <2>2, JoinAndCut DEF Prefix
  <2>6. Carry(pending)
    BY <2>1 DEF Streaming
  <2>7. Len(pending) =< 3
    <3>1. CASE pending = <<>>
      BY <3>1
    <3>2. CASE pending # <<>>
      <4> DEFINE m == Len(pending)
      <4>1. 1 \in 1 .. m /\ m \in 1 .. m - 1 + 1 /\ pending[1] \in Byte
        BY <1>1, <3>2, FirstPiece, StrFacts
      <4>2. m =< Length(pending[1]) /\ Acc(pending, 1, m) /\ m # Length(pending[1])
        BY <1>1, <2>6, <3>2, <4>1, StartsIs DEF Carry
      <4>3. Length(pending[1]) \in 0 .. 4
        BY <4>1, LengthIs
      <4> QED BY <1>1, <4>2, <4>3
    <3> QED BY <3>1, <3>2
  <2> QED BY <2>2, <2>4, <2>5, <2>6, <2>7
<1>4. Len(pending) =< 3
  <2>1. CASE finished
    <3>1. pending = <<>>
      BY <2>1 DEF StreamInv
    <3> QED BY <3>1
  <2> QED BY <1>3, <2>1
<1>5. TypeOK
  BY <1>1, <1>4 DEF TypeOK, StreamTypes
<1>6. CarryIsIncomplete
  BY <1>3, <1>5 DEF CarryIsIncomplete, Carry
<1> QED BY <1>2, <1>6 DEF StreamMatchesReference

\* observe_gateway_token and render_utf8_output, for all bytes, tokens and lengths:
\* the stream is at all times the standard's rendering of what has arrived save a
\* suffix that may still become a character, and in the end of all of it.
THEOREM StreamIsReference == Spec => []StreamMatchesReference
<1>1. Init => StreamInv
  BY StreamStarts
<1>2. StreamInv /\ [Next]_vars => StreamInv'
  BY StepKeeps
<1>3. StreamInv => StreamMatchesReference
  BY StreamInvMeans
<1> QED BY <1>1, <1>2, <1>3, PTL DEF Spec
=============================================================================
