----------------------------- MODULE Utf8Output -----------------------------
(* The text of a streamed answer: the engine decodes every token to bytes    *)
(* (observe_committed_token), a token may end inside a character, and        *)
(* observe_gateway_token renders what is complete and carries the rest       *)
(* (render_utf8_output).  A client that does not stream gets one rendering   *)
(* of all bytes.                                                             *)
(*                                                                           *)
(* The reference is the definition of the Unicode standard: the table of     *)
(* well-formed byte sequences, and one U+FFFD for every maximal subpart of   *)
(* an ill-formed one.                                                        *)
EXTENDS Naturals, Sequences, FiniteSets, FiniteSetsExt

CONSTANTS
  Bytes,      \* a representative of every class of bytes the code tells apart
  MaxBytes,   \* bound on the bytes of an answer
  MaxDelta,   \* bound on the bytes of a token
  MaxTokens   \* request.max_tokens

ASSUME BytesAssumption == Bytes \subseteq 0 .. 255
ASSUME MaxTokensAssumption == MaxTokens \in Nat \ {0}
ASSUME BoundsAssumption == MaxBytes \in Nat /\ MaxDelta \in Nat

VARIABLES
  text,      \* all bytes of the answer so far (generated_text)
  index,     \* token.index of the next token
  pending,   \* context.pending_utf8
  sent,      \* the characters of the deltas so far
  finished   \* the finish reason has been sent

vars == <<text, index, pending, sent, finished>>

Replacement == <<239, 191, 189>>

(***************************************************************************)
(* render_utf8_output                                                      *)
(***************************************************************************)
\* The length its first byte gives a sequence, 0 if it starts none.
Length(first) ==
  CASE first < 128 -> 1
    [] first \in 194 .. 223 -> 2
    [] first \in 224 .. 239 -> 3
    [] first \in 240 .. 244 -> 4
    [] OTHER -> 0

AcceptsAnyContinuation(first, j, byte) == byte \in 128 .. 191

\* Whether byte may be at offset j >= 1 of a sequence.
Accepts(first, j, byte) ==
  /\ byte \in 128 .. 191
  /\ j = 1 =>
       /\ first = 224 => byte >= 160
       /\ first = 237 => byte < 160
       /\ first = 240 => byte >= 144
       /\ first = 244 => byte < 144

\* The bytes from i on that are accepted: the j of the inner loop.
Scanned(s, i) ==
  LET longest == Min({Length(s[i]), Len(s) - i + 1})
  IN Max({j \in 1 .. longest :
            \A k \in 1 .. j - 1 : Accepts(s[i], k, s[i + k])})

\* The sequence at i may still be completed by the next token.
HoldsBack(s, i, j) == i + j = Len(s) + 1

\* The rendering of s from each of its bytes on: its characters, and how many
\* bytes of s were consumed.
RenderFrom(s, final) ==
  LET from[i \in 1 .. Len(s) + 1] ==
        IF i > Len(s) THEN [out |-> << >>, used |-> Len(s)]
        ELSE IF Length(s[i]) = 0
          THEN [from[i + 1] EXCEPT !.out = <<Replacement>> \o @]
        ELSE LET j == Scanned(s, i) IN
             IF j = Length(s[i])
               THEN [from[i + j] EXCEPT !.out = <<SubSeq(s, i, i + j - 1)>> \o @]
             ELSE IF HoldsBack(s, i, j) /\ ~final
               THEN [out |-> << >>, used |-> i - 1]
             ELSE [from[i + j] EXCEPT !.out = <<Replacement>> \o @]
  IN from

Render(s, final) == RenderFrom(s, final)[1]

(***************************************************************************)
(* The stream                                                              *)
(***************************************************************************)
Init ==
  /\ text = << >> /\ index = 0 /\ pending = << >> /\ sent = << >>
  /\ finished = FALSE

Deltas == UNION {[1 .. n -> Bytes] : n \in 0 .. MaxDelta}

\* token.is_stop_token or the last token of the request
Finishes(stop, i) == stop \/ i + 1 = MaxTokens

\* observe_gateway_token
Observe(delta, stop) ==
  LET bytes == pending \o delta
      rendered == Render(bytes, Finishes(stop, index))
  IN /\ ~finished
     /\ index < MaxTokens
     /\ index' = index + 1
     /\ text' = text \o delta
     /\ sent' = sent \o rendered.out
     /\ pending' = SubSeq(bytes, rendered.used + 1, Len(bytes))
     /\ finished' = Finishes(stop, index)

\* A token of the vocabulary, and the stop token, which has no text.
Token == \E delta \in Deltas :
  Len(text) + Len(delta) =< MaxBytes /\ Observe(delta, FALSE)

StopToken == Observe(<< >>, TRUE)

Next == Token \/ StopToken

Spec == Init /\ [][Next]_vars

(***************************************************************************)
(* Reference: Unicode, table 3-7, and maximal-subpart replacement          *)
(***************************************************************************)
Tail8 == 128 .. 191

WellFormedRanges ==
  { <<0 .. 127>>,
    <<194 .. 223, Tail8>>,
    <<{224}, 160 .. 191, Tail8>>,
    <<225 .. 236, Tail8, Tail8>>,
    <<{237}, 128 .. 159, Tail8>>,
    <<238 .. 239, Tail8, Tail8>>,
    <<{240}, 144 .. 191, Tail8, Tail8>>,
    <<241 .. 243, Tail8, Tail8, Tail8>>,
    <<{244}, 128 .. 143, Tail8, Tail8>> }

\* s[i .. i + n - 1] starts a well-formed sequence, or is one.
Starts(s, i, n) ==
  \E w \in WellFormedRanges :
    n =< Len(w) /\ \A k \in 1 .. n : s[i + k - 1] \in w[k]

IsCharacter(s, i, n) ==
  \E w \in WellFormedRanges :
    n = Len(w) /\ \A k \in 1 .. n : s[i + k - 1] \in w[k]

Subpart(s, i) ==
  Max({1} \cup {n \in 1 .. Min({4, Len(s) - i + 1}) : Starts(s, i, n)})

DecodedFrom(s) ==
  LET from[i \in 1 .. Len(s) + 1] ==
        IF i > Len(s) THEN << >>
        ELSE LET n == Subpart(s, i) IN
             <<IF IsCharacter(s, i, n) THEN SubSeq(s, i, i + n - 1)
                                       ELSE Replacement>> \o from[i + n]
  IN from

Decoded(s) == DecodedFrom(s)[1]

(***************************************************************************)
(* Properties                                                              *)
(***************************************************************************)
TypeOK ==
  /\ Len(text) =< MaxBytes /\ index \in 0 .. MaxTokens
  /\ Len(pending) =< 3
  /\ finished \in BOOLEAN

\* However the bytes fall into tokens, and whether the stop token or the length
\* limit ends them, nothing is withheld and the deltas of the stream are the
\* standard's rendering of all bytes, and so is the nonstream text ("Invalid
\* or terminally incomplete subsequences become U+FFFD using maximal-subpart
\* replacement, identically in SSE and nonstream responses", docs/SDD.md).
RenderedInFull ==
  finished \/ index = MaxTokens =>
    /\ pending = << >> /\ sent = Decoded(text)
    /\ Render(text, TRUE) = [out |-> Decoded(text), used |-> Len(text)]

\* Nothing that was sent has to be taken back: before the end, the deltas are
\* the rendering of all bytes but a carry that may still become a character.
CarryIsIncomplete ==
  /\ TypeOK
  /\ ~finished =>
       /\ text = SubSeq(text, 1, Len(text) - Len(pending)) \o pending
       /\ sent = Decoded(SubSeq(text, 1, Len(text) - Len(pending)))
       /\ pending # << >> =>
            /\ Starts(pending, 1, Len(pending))
            /\ ~IsCharacter(pending, 1, Len(pending))

\* Utf8OutputRenderer: the stream is at all times the standard's rendering of
\* what has arrived, save a suffix that may still become a character, and at
\* the end of all of it, equal to the nonstream text.
StreamMatchesReference == RenderedInFull /\ CarryIsIncomplete
=============================================================================
