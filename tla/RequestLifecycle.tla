-------------------------- MODULE RequestLifecycle --------------------------
(* Requests one after another through ReferenceEngine::generate_tokenized,   *)
(* run_generation_control and the ReferenceRunner: how one arena of device   *)
(* memory is handed from a request to the next.                              *)
(*                                                                           *)
(* A request starts with a reset whose extent the runner chooses from what   *)
(* it knows of the previous request (nothing, the committed prefix, or the   *)
(* whole span), prefills its prompt in one of four ways, decodes, and ends   *)
(* with an acceptance that the next reset relies on.  Every device operation *)
(* may fail, the engine itself may fail between them, and the client may     *)
(* cancel wherever the code asks.                                            *)
(*                                                                           *)
(* Device memory is abstracted to whose it is: a KV row is zero, written by  *)
(* the current request, or left over.  The recurrent state (convolution and  *)
(* GDN) is the number of tokens of this request it has absorbed since it was *)
(* zero, or Off.                                                             *)
EXTENDS Integers, FiniteSets, FiniteSetsExt

CONSTANTS
  Capacity,     \* max_sequence_length
  Prompts,      \* prompt lengths
  MaxNews,      \* values of max_new_tokens
  Chunk,        \* prefill_chunk_size
  Segments,     \* physical tile sizes (512, 256, 64, 32 in the code)
  WholePasses   \* route passes of a whole-request prefill

ASSUME CapacityAssumption == Capacity \in Nat \ {0}
ASSUME PromptAssumption == /\ Prompts \subseteq 1 .. Capacity
                           /\ MaxNews \subseteq Nat \ {0}
ASSUME ChunkAssumption ==
  Chunk \in Nat \ {0, 1} /\ Segments \subseteq Nat \ {0}
ASSUME WholePassesAssumption == WholePasses \in Nat \ {0}

VARIABLES
  engine,       \* the build and the memory profile
  pc, mode, prompt, maxNew,
  steps,        \* prompt positions prefilled so far
  emitted,      \* control.generated_token_ids.size()
  basis,        \* what the last prediction was computed from: the number of
                \* tokens of this request, or Off
  armed,        \* whole_request_transaction_armed
  result,       \* of the last request
  poisoned, boundary, committed,   \* of the runner: poisoned_,
                \* request_reuse_boundary_, committed_request_positions_
  stage,        \* whole_request_prefill_stage_.phase
  retained,     \* retained_prefill_position_ + 1, 0 when not valid
  passes,       \* prefill_route_evidence_.completed_layer_passes
  position,     \* sequence_length_
  kv,           \* the KV rows
  home, slot,   \* recurrent state in the arena, and in an MTP snapshot slot
  owner         \* where the live GDN state is

request == <<mode, prompt, maxNew>>
runner == <<poisoned, boundary, committed, stage, retained, passes>>
memory == <<position, kv, home, slot, owner>>
vars == <<engine, pc, request, steps, emitted, basis, armed, result, runner, memory>>

Off == -1
Rows == 1 .. Capacity
\* The MTP service only exists with a layer-major arena.
Engines == {[profile |-> "legacy", mtp |-> FALSE],
            [profile |-> "layer-major", mtp |-> FALSE],
            [profile |-> "layer-major", mtp |-> TRUE]}
Modes == {"whole", "tiles", "retained", "scalar"}

Live == IF owner = "home" THEN home ELSE slot

\* The live state is that of exactly the first n tokens of this request.
Holds(n) == Live = n /\ \A i \in 1 .. n : kv[i] = "mine"

Advanced(n) == IF Holds(position) THEN position + n ELSE Off

Written(a, b) == [i \in Rows |-> IF i \in a .. b THEN "mine" ELSE kv[i]]

Wiped(n) == [i \in Rows |-> IF i =< n THEN "zero" ELSE kv[i]]

(***************************************************************************)
(* Reset between requests                                                  *)
(***************************************************************************)
SelectPositionOnly ==
  IF engine.profile # "legacy" \/ stage # "idle" THEN "full"
  ELSE IF position = 0 THEN "none" ELSE "prefix"

\* select_request_reset
SelectReset ==
  IF engine.profile # "legacy" \/ poisoned \/ stage # "idle" THEN "full"
  ELSE IF boundary = "clean" /\ committed = 0 /\ position = 0 THEN "none"
  ELSE IF boundary = "committed" /\ committed # 0 /\ committed = position
    THEN "prefix"
  ELSE "full"

\* What the last request wrote is left over for the next one.
LeftOver(rows) == [i \in Rows |-> IF rows[i] = "mine" THEN "old" ELSE rows[i]]

Cleared(how) ==
  CASE how = "none" -> kv
    [] how = "prefix" -> Wiped(committed)
    [] OTHER -> Wiped(Capacity)

ResetMemoryNotOwner(how) ==
  /\ kv' = LeftOver(Cleared(how))
  /\ home' = IF how # "none" \/ home = 0 THEN 0 ELSE Off
  /\ slot' = Off
  /\ position' = 0
  /\ UNCHANGED owner

\* RequestState::reset_for_request_async: every mode but "none" zeroes the
\* arena's recurrent state, and every mode makes the arena its owner again.
ResetMemory(how) ==
  /\ kv' = LeftOver(Cleared(how))
  /\ home' = IF how # "none" \/ home = 0 THEN 0 ELSE Off
  /\ slot' = Off
  /\ position' = 0
  /\ owner' = "home"

\* What a reset leaves of the runner.
ResetRunner ==
  /\ poisoned' = FALSE
  /\ retained' = 0
  /\ stage' = "idle"
  /\ passes' = 0

(***************************************************************************)
(* Init, and the start of a request                                        *)
(***************************************************************************)
Init ==
  /\ engine \in Engines
  /\ pc = "idle" /\ result = "none"
  /\ mode = "scalar" /\ prompt = 1 /\ maxNew = 1
  /\ steps = 0 /\ emitted = 0 /\ basis = Off /\ armed = FALSE
  /\ poisoned = FALSE /\ boundary = "clean" /\ committed = 0
  /\ stage = "idle" /\ retained = 0 /\ passes = 0
  /\ position = 0 /\ kv = [i \in Rows |-> "zero"]
  /\ home = 0 /\ slot = Off /\ owner = "home"

\* The admission checks of generate_tokenized and run_generation_control.
Admitted(how, p, n) ==
  /\ how = "whole" => engine.profile = "layer-major"
  /\ engine.mtp => how = "whole"
  /\ p + n - 1 =< Capacity

NewRequest(how, p, n) ==
  /\ pc = "idle"
  /\ Admitted(how, p, n)
  /\ UNCHANGED engine
  /\ mode' = how /\ prompt' = p /\ maxNew' = n
  /\ steps' = 0 /\ emitted' = 0 /\ basis' = Off /\ armed' = FALSE

\* begin_ordinary_request
Begin(how, p, n) ==
  /\ NewRequest(how, p, n)
  /\ boundary' = "uncertain" /\ committed' = 0
  /\ ResetMemory(SelectReset)
  /\ ResetRunner
  /\ pc' = "prefill"
  /\ UNCHANGED result

\* A memset or a synchronization of the reset fails; the logical state may or
\* may not have been reset by then.
BeginFails(how, p, n) ==
  /\ NewRequest(how, p, n)
  /\ boundary' = "uncertain" /\ committed' = 0
  /\ poisoned' = TRUE
  /\ kv' = LeftOver(kv)
  /\ home' = IF home = 0 THEN 0 ELSE Off
  /\ slot' = Off
  /\ \/ position' = 0 /\ owner' = "home"
     \/ UNCHANGED <<position, owner>>
  /\ result' = "error"
  /\ UNCHANGED <<pc, stage, retained, passes>>

(***************************************************************************)
(* The runner's operations                                                 *)
(***************************************************************************)
Uncertain == boundary' = "uncertain" /\ committed' = 0

\* One token through all layers (step_impl): reads the rows below the current
\* position and the recurrent state, writes one row, commits the token.
StepRunner ==
  /\ ~poisoned /\ stage = "idle" /\ position < Capacity
  /\ Uncertain
  /\ retained' = 0
  /\ kv' = Written(position + 1, position + 1)
  /\ home' = Advanced(1)
  /\ position' = position + 1
  /\ UNCHANGED <<poisoned, stage, slot, owner>>

\* fail_step, fail_prefill_tile, fail_whole_request_prefill: what the
\* operation had already written, up to row last, stays.
FailRunner(last) ==
  /\ \E k \in position .. last : kv' = Written(position + 1, k)
  /\ home' = Off
  /\ poisoned' = TRUE
  /\ Uncertain
  /\ stage' = "idle" /\ retained' = 0
  /\ UNCHANGED <<passes, position, slot, owner>>

\* Any error sends the controller back to generate_tokenized.
Fails == pc' = "failing"

(***************************************************************************)
(* Prefill                                                                 *)
(***************************************************************************)
\* next_prefix_tile_token_count
TileSize(remaining) ==
  LET candidate == IF remaining < Chunk THEN remaining ELSE Chunk
      fitting == {s \in Segments : s =< candidate}
  IN IF fitting = {} THEN candidate ELSE Max(fitting)

\* prefix_execution_count
TileCount[remaining \in 0 .. Capacity] ==
  IF remaining = 0 THEN 0 ELSE 1 + TileCount[remaining - TileSize(remaining)]

PrefixLength == IF mode = "retained" THEN prompt ELSE prompt - 1

\* control.prefill_route_layer_pass_count
ExpectedPasses ==
  CASE mode = "whole" -> WholePasses
    [] mode = "retained" -> TileCount[PrefixLength]
    [] mode = "tiles" -> TileCount[PrefixLength] + 1
    [] mode = "scalar" -> PrefixLength + 1

\* prefill_prefix_tile: a tile of one token is a scalar step.  The last tile
\* of an all-prompt prefill keeps its final hidden row.
PrefillTile ==
  /\ pc = "prefill" /\ mode \in {"tiles", "retained"}
  /\ steps < PrefixLength
  /\ ~poisoned /\ stage = "idle"
  /\ LET n == TileSize(PrefixLength - steps) IN
       /\ Uncertain
       /\ kv' = Written(position + 1, position + n)
       /\ home' = Advanced(n)
       /\ position' = position + n
       /\ steps' = steps + n
       /\ retained' = IF mode = "retained" /\ steps + n = PrefixLength
                         THEN position + n ELSE 0
  /\ passes' = passes + 1
  /\ UNCHANGED <<engine, pc, request, emitted, basis, armed, result, poisoned, stage,
                 slot, owner>>

\* prefill_step_with_route for a token before the last one.
PrefillStep ==
  /\ pc = "prefill" /\ mode = "scalar"
  /\ steps < PrefixLength
  /\ StepRunner
  /\ steps' = steps + 1
  /\ passes' = passes + 1
  /\ UNCHANGED <<engine, pc, request, emitted, basis, armed, result>>

\* prefill_step_with_route for the last prompt token.
FinishStep ==
  /\ pc = "prefill" /\ mode \in {"tiles", "scalar"}
  /\ steps = PrefixLength
  /\ StepRunner
  /\ steps' = steps + 1
  /\ passes' = passes + 1
  /\ basis' = home'
  /\ pc' = "emit"
  /\ UNCHANGED <<engine, request, emitted, armed, result>>

\* finish_prefill_from_retained_tile: logits of the retained row.
FinishRetained ==
  /\ pc = "prefill" /\ mode = "retained"
  /\ steps = PrefixLength
  /\ ~poisoned /\ stage = "idle"
  /\ retained # 0 /\ retained = position
  /\ retained' = 0
  /\ basis' = IF Holds(position) THEN retained ELSE Off
  /\ pc' = "emit"
  /\ UNCHANGED <<engine, request, steps, emitted, armed, result, poisoned, boundary,
                 committed, stage, passes, memory>>

\* A runner operation of the prefill or of the decode loop fails.
OperationFails ==
  /\ \/ pc = "prefill" /\ mode # "whole"
     \/ pc = "decode" /\ ~engine.mtp
  /\ FailRunner(IF pc = "decode" \/ mode = "scalar" \/ steps = PrefixLength
                  THEN Min({position + 1, Capacity})
                  ELSE position + TileSize(PrefixLength - steps))
  /\ Fails
  /\ result' = "error"
  /\ UNCHANGED <<engine, request, steps, emitted, basis, armed>>

(***************************************************************************)
(* Whole-request prefill: stage, logits, commit                            *)
(***************************************************************************)
Whole(from) == pc = from /\ mode = "whole"

\* prefill_whole_request_layer_major with its executor (SubmissionWindow):
\* everything of the prompt is computed, nothing is published.
PrefillWhole ==
  /\ Whole("prefill") /\ stage = "idle" /\ ~armed /\ ~poisoned
  /\ Uncertain
  /\ retained' = 0
  /\ kv' = Written(1, prompt)
  /\ home' = Advanced(prompt)
  /\ stage' = "awaiting-logits"
  /\ armed' = TRUE
  /\ steps' = prompt
  /\ pc' = "finish-whole"
  /\ UNCHANGED <<engine, request, emitted, basis, result, poisoned, passes, position,
                 slot, owner>>

\* The executor fails or is cancelled, drained and poisoned.
PrefillWholeFails ==
  /\ Whole("prefill") /\ stage = "idle"
  /\ FailRunner(prompt)
  /\ armed' = TRUE
  /\ result' \in {"error", "cancelled"}
  /\ Fails
  /\ UNCHANGED <<engine, request, steps, emitted, basis>>

\* finish_whole_request_from_uncommitted_retained
FinishWhole ==
  /\ Whole("finish-whole")
  /\ armed /\ ~poisoned /\ stage = "awaiting-logits" /\ position = 0
  /\ stage' = "awaiting-commit"
  /\ basis' = IF Holds(prompt) THEN prompt ELSE Off
  /\ pc' = "commit-whole"
  /\ UNCHANGED <<engine, request, steps, emitted, armed, result, poisoned, boundary,
                 committed, retained, passes, memory>>

\* The runner refuses or fails the logits, the commit, or the initialization
\* of the MTP service.
WholeOperationFails ==
  /\ Whole("finish-whole") \/ Whole("commit-whole") \/ Whole("mtp-init")
  /\ FailRunner(position)
  /\ result' = "error"
  /\ Fails
  /\ UNCHANGED <<engine, request, steps, emitted, basis, armed>>

\* The probe is true before the logits or before the commit.
CancelWhole ==
  /\ Whole("finish-whole") \/ Whole("commit-whole")
  /\ result' = "cancelled"
  /\ Fails
  /\ UNCHANGED <<engine, request, steps, emitted, basis, armed, runner, memory>>

\* commit_whole_request_layer_major: one publication of the logical length,
\* the staged route evidence, and the end of the stage.
CommitWhole ==
  /\ Whole("commit-whole")
  /\ armed /\ ~poisoned /\ stage = "awaiting-commit" /\ position = 0
  /\ position' = prompt
  /\ passes' = passes + WholePasses
  /\ stage' = "idle"
  /\ armed' = FALSE
  /\ pc' = IF engine.mtp THEN "mtp-init" ELSE "emit"
  /\ UNCHANGED <<engine, request, steps, emitted, basis, result, poisoned, boundary,
                 committed, retained, kv, home, slot, owner>>

MtpInitialize ==
  /\ Whole("mtp-init")
  /\ Uncertain
  /\ pc' = "emit"
  /\ UNCHANGED <<engine, request, steps, emitted, basis, armed, result, poisoned,
                 stage, retained, passes, memory>>

(***************************************************************************)
(* Decode                                                                  *)
(***************************************************************************)
LengthReached(n) == n >= maxNew

\* commit_token, and the observer's answer: the stop token or a refusal may
\* end the request at any token, the length limit ends it at the latest.
Emit ==
  /\ pc = "emit"
  /\ emitted' = emitted + 1
  /\ \/ pc' = "accept" /\ result' \in {"ok", "cancelled"}
     \/ ~LengthReached(emitted + 1) /\ pc' = "decode" /\ UNCHANGED result
  /\ UNCHANGED <<engine, request, steps, basis, armed, runner, memory>>

\* The ordinary decode step.
Decode ==
  /\ pc = "decode" /\ ~engine.mtp
  /\ StepRunner
  /\ basis' = home'
  /\ pc' = "emit"
  /\ UNCHANGED <<engine, request, steps, emitted, armed, result, passes>>

\* A round of the MTP service (MtpDecode): n rows are verified, k of them
\* committed and emitted; the others stay behind in the KV cache, and the
\* live recurrent state is that of a snapshot slot.
MtpRound(n, k) ==
  /\ pc = "decode" /\ engine.mtp
  /\ k \in 1 .. n /\ position + n =< Capacity
  /\ emitted + k =< maxNew
  /\ Uncertain
  /\ kv' = Written(position + 1, position + n)
  /\ slot' = Advanced(k)
  /\ owner' = "slot"
  /\ position' = position + k
  /\ emitted' = emitted + k
  /\ \/ pc' = "accept" /\ result' \in {"ok", "cancelled"}
     \/ ~LengthReached(emitted + k) /\ UNCHANGED <<pc, result>>
  /\ UNCHANGED <<engine, request, steps, basis, armed, poisoned, stage, retained,
                 passes, home>>

\* The service polls the probe between two rounds.
MtpCancelled ==
  /\ pc = "decode" /\ engine.mtp
  /\ pc' = "accept" /\ result' = "cancelled"
  /\ UNCHANGED <<engine, request, steps, emitted, basis, armed, runner, memory>>

\* TargetTransaction::abort
MtpRoundFails ==
  /\ pc = "decode" /\ engine.mtp
  /\ FailRunner(Min({position + 2, Capacity}))
  /\ result' = "error"
  /\ Fails
  /\ UNCHANGED <<engine, request, steps, emitted, basis, armed>>

(***************************************************************************)
(* The end of a request                                                    *)
(***************************************************************************)
\* The engine gives up without the runner's knowledge: an allocation failure,
\* an unexpected or untimed step, a contract check on a staged prefill, a
\* token that cannot be decoded.
EngineFails ==
  /\ pc \in {"prefill", "finish-whole", "commit-whole", "emit", "decode",
             "accept"}
  /\ Fails
  /\ result' = "error"
  /\ UNCHANGED <<engine, request, steps, emitted, basis, armed, runner, memory>>

\* EngineWholeRequestTransactionGuard::armed
NeedsRollback == armed

AfterRollbackRetry == IF result = "error" THEN "prefill" ELSE "idle"

AfterRollback == "idle"

\* EngineWholeRequestTransactionGuard: an armed transaction is rolled back
\* with ReferenceRunner::reset.
Rollback ==
  /\ pc = "failing"
  /\ IF NeedsRollback
       THEN /\ ResetMemory("full")
            /\ ResetRunner
            /\ boundary' = "clean" /\ committed' = 0
            /\ armed' = FALSE
       ELSE UNCHANGED <<armed, runner, memory>>
  /\ pc' = AfterRollback
  /\ UNCHANGED <<engine, request, steps, emitted, basis, result>>

\* A failed reset keeps the stage as it is.
RollbackFails ==
  /\ pc = "failing" /\ NeedsRollback
  /\ poisoned' = TRUE
  /\ \/ position' = 0 /\ owner' = "home"
     \/ UNCHANGED <<position, owner>>
  /\ result' = "error"
  /\ pc' = "idle"
  /\ UNCHANGED <<engine, request, steps, emitted, basis, armed, boundary, committed,
                 stage, retained, passes, kv, home, slot>>

\* commit_ordinary_request_boundary
CommitBoundaryAnyProfile ==
  /\ committed' = position
  /\ boundary' = "committed"

CommitBoundary ==
  IF engine.profile = "legacy"
    THEN committed' = position /\ boundary' = "committed"
    ELSE committed' = 0 /\ UNCHANGED boundary

\* The route witness is completed; unless it was cancelled, the request is
\* accepted and its exact length becomes the next reset's authority.
Accept ==
  /\ pc = "accept" /\ ~armed
  /\ pc' = "idle"
  /\ IF passes = ExpectedPasses
       THEN /\ UNCHANGED result
            /\ IF result = "ok" THEN CommitBoundary
                                ELSE UNCHANGED <<boundary, committed>>
       ELSE UNCHANGED <<boundary, committed>> /\ result' = "route"
  /\ UNCHANGED <<engine, request, steps, emitted, basis, armed, poisoned, stage,
                 retained, passes, memory>>

RunnerStep ==
  \/ PrefillTile \/ PrefillStep \/ FinishStep \/ FinishRetained
  \/ PrefillWhole \/ FinishWhole \/ CommitWhole \/ MtpInitialize
  \/ Emit \/ Decode \/ \E n \in 1 .. 2, k \in 1 .. 2 : MtpRound(n, k)

Failure ==
  \/ OperationFails \/ PrefillWholeFails \/ WholeOperationFails
  \/ CancelWhole \/ MtpCancelled \/ MtpRoundFails \/ EngineFails

End == Rollback \/ RollbackFails \/ Accept

Next ==
  \/ \E how \in Modes, p \in Prompts, n \in MaxNews :
       Begin(how, p, n) \/ BeginFails(how, p, n)
  \/ RunnerStep
  \/ Failure
  \/ End

\* A request that has started is run to its end by the engine's own thread.
\* Nothing is assumed about the arrival of requests.
Spec == Init /\ [][Next]_vars /\ WF_vars(RunnerStep \/ Failure \/ End)

(***************************************************************************)
(* Properties                                                              *)
(***************************************************************************)
ControllerType ==
  /\ pc \in {"idle", "prefill", "finish-whole", "commit-whole", "mtp-init",
             "emit", "decode", "accept", "failing"}
  /\ engine \in Engines
  /\ mode \in Modes /\ prompt \in Prompts \cup {1} /\ maxNew \in Nat
  /\ steps \in 0 .. prompt /\ emitted \in 0 .. maxNew
  /\ basis \in {Off} \cup Rows
  /\ armed \in BOOLEAN
  /\ result \in {"none", "ok", "cancelled", "error", "route"}

RunnerType ==
  /\ poisoned \in BOOLEAN
  /\ boundary \in {"clean", "committed", "uncertain"}
  /\ committed \in 0 .. Capacity
  /\ stage \in {"idle", "awaiting-logits", "awaiting-commit"}
  /\ retained \in 0 .. Capacity /\ passes \in Nat

MemoryType ==
  /\ position \in 0 .. Capacity
  /\ kv \in [Rows -> {"zero", "mine", "old"}]
  /\ home \in {Off} \cup 0 .. Capacity
  /\ slot \in {Off} \cup 0 .. Capacity
  /\ owner \in {"home", "slot"}

TypeOK == ControllerType /\ RunnerType /\ MemoryType

\* Whatever happened to the requests before it, and however little the reset
\* cleared, a request starts on zeroed memory with nothing retained, staged
\* or poisoned (select_request_reset, begin_ordinary_request).
StartsWiped ==
  pc = "prefill" /\ steps = 0 =>
    /\ \A i \in Rows : kv[i] = "zero"
    /\ Live = 0 /\ position = 0
    /\ ~poisoned /\ stage = "idle" /\ retained = 0 /\ ~armed

\* The token the observer is given was predicted from the whole prompt and
\* all tokens given before it, in every prefill mode.
PredictsFromOwnPrefix ==
  pc = "emit" => basis = prompt + emitted

\* The logical length is that of the prompt and the emitted tokens whenever a
\* request is accepted, and the committed prefix covers all that was written.
CommittedCoversWrites ==
  boundary = "committed" =>
    /\ committed = position
    /\ \A i \in Rows : kv[i] # "zero" => i =< committed

\* Until a staged prefill is committed its length is not visible, and no
\* request leaves a stage behind, unless the runner is poisoned.
StageIsPrivate ==
  /\ stage # "idle" => position = 0
  /\ pc = "idle" => poisoned \/ (stage = "idle" /\ ~armed)

\* A request that failed or was cancelled leaves the runner poisoned, wholly
\* reset, or at an uncertain boundary; one that succeeded leaves it usable.
OnlySuccessGrantsReuse ==
  pc = "idle" =>
    /\ boundary = "committed" => result = "ok"
    /\ result = "ok" => ~poisoned
    /\ boundary = "clean" => \A i \in Rows : kv[i] = "zero"

\* The passes recorded along the way are the passes the controller expects:
\* no request is refused at its end for its route witness.
RouteWitnessComplete == result # "route"

\* Requests do not see each other (begin_ordinary_request, the rollback guard and
\* ReferenceRunner::reset): each starts wiped, and no stage outlives its request.
RequestsAreIsolated == TypeOK /\ StartsWiped /\ StageIsPrivate

\* commit_ordinary_request_boundary: the cheap reset of the next request is only
\* allowed by a success, and then clears all that was written.
ReuseIsEarned == CommittedCoversWrites /\ OnlySuccessGrantsReuse

\* run_generation_control_impl: in every route each token is predicted from the
\* request's own prefix, and the route accounts for every pass.
GenerationIsSound == PredictsFromOwnPrefix /\ RouteWitnessComplete

\* Every request that starts comes to its end.
RequestEnds == pc # "idle" ~> pc = "idle"
=============================================================================
