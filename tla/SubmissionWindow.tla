-------------------------- MODULE SubmissionWindow --------------------------
(* One call of ReferenceRunner::prefill_whole_request_layer_major_core: the  *)
(* host enqueues the work of a prompt, layer by layer, on a CUDA stream that *)
(* executes it concurrently, and keeps at most two quanta of it outstanding  *)
(* by means of a ring of two events, so that a cancelled request stops soon. *)
(* When everything has been executed it replays the work into the progress   *)
(* ledger and stages the request for its logits.                             *)
(*                                                                           *)
(* The stream is a queue served in order; it is kept as two counters, the    *)
(* quanta submitted and the quanta finished, and an event as the value of    *)
(* the first counter when it was recorded.  What a quantum computes is left  *)
(* out.  The client's cancellation is an independent actor, and so is the    *)
(* device, which may break down for good.                                    *)
EXTENDS PrefillLedger

CONSTANTS
  Slots,            \* kWholeRequestSubmissionWindowSlots (2)
  PlanTactics,      \* the tactics, prompt lengths and kinds of caller
  PlanCounts,       \* of the requests of this instance
  Bounded           \* whether the caller gives a cancellation probe

ASSUME SlotsAssumption == Slots \in Nat \ {0}
ASSUME BoundedAssumption == Bounded \subseteq BOOLEAN
ASSUME CountsAssumption == PlanCounts \subseteq Nat

VARIABLES
  bounded,       \* bounded_submission_window
  pc,            \* the host's position in the function
  item,          \* the quantum the host submits next, counted from 0
  inFlight, oldest, next,   \* submission_window_in_flight, _oldest, _next
  slotItem,      \* submission_window_layers and _phases
  retired,       \* submission_window_retirements
  submitted, finished,      \* quanta given to and executed by the stream
  event,         \* where in the stream each event was recorded last
  broken,        \* the device has failed for good
  cancel,        \* the probe returns true
  replayed,      \* the quanta entered into the ledger
  stage,         \* whole_request_prefill_stage_.phase
  poisoned,
  result,        \* of the call
  cancelledAt,   \* history: submitted when the client cancelled
  faulted        \* history: a call of this function failed

device == <<submitted, finished, event, broken>>
window == <<inFlight, oldest, next, slotItem, retired>>
ledger == <<progress, replayed>>
history == <<cancelledAt, faulted>>
vars == <<plan, bounded, pc, item, window, device, cancel, ledger, stage,
          poisoned, result, history>>

(***************************************************************************)
(* The quanta of a request                                                 *)
(***************************************************************************)
PerLayer(p) ==
  CASE p.tactic = "per-panel" -> p.panelCount
    [] p.tactic = LayerWide -> p.panelCount + 1
    [] OTHER -> 2 * p.panelCount + 2

Total == Layers * PerLayer(plan)

LayerOf(i) == i \div PerLayer(plan)
PhaseOf(i) == i % PerLayer(plan)

(***************************************************************************)
(* Init, the client and the device                                         *)
(***************************************************************************)
Init ==
  /\ plan \in {Plan(x[1], 0, x[2]) : x \in
                 {y \in PlanTactics \X PlanCounts : Admits(y[1], 0, y[2])}}
  /\ bounded \in Bounded
  /\ pc = "enter"
  /\ item = 0
  /\ inFlight = 0 /\ oldest = 0 /\ next = 0 /\ retired = 0
  /\ slotItem = [s \in 0 .. Slots - 1 |-> 0]
  /\ submitted = 0 /\ finished = 0 /\ broken = FALSE
  /\ event = [s \in 0 .. Slots - 1 |-> 0]
  /\ cancel = FALSE
  /\ progress = NewProgress(plan) /\ replayed = 0
  /\ stage = "idle" /\ poisoned = FALSE /\ result = "none"
  /\ cancelledAt = 0 /\ faulted = FALSE

\* prefill_cancelled becomes true: a stop, a hang-up or a cancelled job.
ClientCancels ==
  /\ ~cancel /\ pc # "returned"
  /\ cancel' = TRUE
  /\ cancelledAt' = submitted
  /\ UNCHANGED <<plan, bounded, pc, item, window, device, ledger, stage,
                 poisoned, result, faulted>>

DeviceFinishes ==
  /\ ~broken
  /\ finished < submitted
  /\ finished' = finished + 1
  /\ UNCHANGED <<plan, bounded, pc, item, window, submitted, event, broken,
                 cancel, ledger, stage, poisoned, result, history>>

DeviceBreaks ==
  /\ ~broken
  /\ finished < submitted
  /\ broken' = TRUE
  /\ UNCHANGED <<plan, bounded, pc, item, window, submitted, finished, event,
                 cancel, ledger, stage, poisoned, result, history>>

Polled == bounded /\ cancel

(***************************************************************************)
(* The host                                                                *)
(***************************************************************************)
Host(from, to) == pc = from /\ pc' = to

\* Leave through fail_whole_request_prefill, which drains the streams first.
Failing(reason) ==
  /\ pc' = "failing"
  /\ result' = reason

MustRetire == bounded /\ inFlight = Slots

\* Every launch, record, route or contract check of the function may fail; a
\* quantum of several launches may fail with some of them submitted.
CallFails ==
  /\ pc \in {"enter", "enqueue", "record", "norm", "merge"}
  /\ Failing("error")
  /\ faulted' = TRUE
  /\ submitted' \in IF pc = "enqueue" /\ ~MustRetire
                     THEN {submitted, submitted + 1} ELSE {submitted}
  /\ UNCHANGED <<plan, bounded, item, window, finished, event, broken, cancel,
                 ledger, stage, poisoned, cancelledAt>>

\* The checks, the first poll, and the phase kExecuting.
Enter ==
  /\ pc = "enter"
  /\ IF Polled
       THEN Failing("cancelled") /\ UNCHANGED stage
       ELSE pc' = "enqueue" /\ stage' = "executing" /\ UNCHANGED result
  /\ UNCHANGED <<plan, bounded, item, window, device, cancel, ledger,
                 poisoned, history>>

\* Where the host waits for the oldest submission: before it submits another
\* one, and at the end until none is left.
Retiring ==
  \/ pc = "enqueue" /\ MustRetire
  \/ pc = "drain" /\ inFlight > 0

\* cudaEventSynchronize returns when all work before the event is finished.
EventReached(s) == finished >= event[s]

\* The poll only when the window is drained at the end.
RetireOldestUnpolled ==
  /\ Retiring
  /\ EventReached(oldest)
  /\ oldest' = (oldest + 1) % Slots
  /\ inFlight' = inFlight - 1
  /\ retired' = retired + 1
  /\ IF Polled /\ pc = "drain" THEN Failing("cancelled")
                               ELSE UNCHANGED <<pc, result>>
  /\ UNCHANGED <<plan, bounded, item, next, slotItem, device, cancel, ledger,
                 stage, poisoned, history>>

\* retire_oldest_submission
RetireOldest ==
  /\ Retiring
  /\ EventReached(oldest)
  /\ oldest' = (oldest + 1) % Slots
  /\ inFlight' = inFlight - 1
  /\ retired' = retired + 1
  /\ IF Polled THEN Failing("cancelled") ELSE UNCHANGED <<pc, result>>
  /\ UNCHANGED <<plan, bounded, item, next, slotItem, device, cancel, ledger,
                 stage, poisoned, history>>

\* cudaEventSynchronize and cudaStreamSynchronize on a broken device.
WaitFails ==
  /\ Retiring \/ pc = "sync"
  /\ broken
  /\ Failing("error")
  /\ faulted' = TRUE
  /\ UNCHANGED <<plan, bounded, item, window, device, cancel, ledger, stage,
                 poisoned, cancelledAt>>

\* enqueue_prefill_layer_panel, enqueue_prefill_layer_segment,
\* enqueue_layer_wide_p40_mlp, enqueue_prompt_wide_p40_whole_core_*: the
\* kernels of one quantum.
Enqueue ==
  /\ Host("enqueue", "record")
  /\ ~MustRetire
  /\ submitted' = submitted + 1
  /\ UNCHANGED <<plan, bounded, item, window, finished, event, broken, cancel,
                 ledger, stage, poisoned, result, history>>

NextSlotSame == next

NextSlot == (next + 1) % Slots

\* record_submission, and the loops over the phases and the layers.
Record ==
  /\ pc = "record"
  /\ item' = item + 1
  /\ pc' = IF item + 1 = Total THEN "drain" ELSE "enqueue"
  /\ IF bounded
       THEN /\ event' = [event EXCEPT ![next] = submitted]
            /\ slotItem' = [slotItem EXCEPT ![next] = item]
            /\ oldest' = IF inFlight = 0 THEN next ELSE oldest
            /\ next' = NextSlot
            /\ inFlight' = inFlight + 1
       ELSE UNCHANGED <<event, slotItem, oldest, next, inFlight>>
  /\ UNCHANGED <<plan, bounded, retired, submitted, finished, broken, cancel,
                 ledger, stage, poisoned, result, history>>

DrainedWindow ==
  /\ Host("drain", "norm")
  /\ inFlight = 0
  /\ UNCHANGED <<plan, bounded, item, window, device, cancel, ledger, stage,
                 poisoned, result, history>>

FinalNorm ==
  /\ Host("norm", "sync")
  /\ submitted' = submitted + 1
  /\ UNCHANGED <<plan, bounded, item, window, finished, event, broken, cancel,
                 ledger, stage, poisoned, result, history>>

WindowDrained == inFlight = 0

StreamDrained == finished = submitted

\* cudaStreamSynchronize and the poll that follows it.
Synchronize ==
  /\ pc = "sync"
  /\ StreamDrained
  /\ IF Polled THEN Failing("cancelled")
               ELSE pc' = "replay" /\ UNCHANGED result
  /\ UNCHANGED <<plan, bounded, item, window, device, cancel, ledger, stage,
                 poisoned, history>>

\* The ledger entry of a quantum.  The tactics that publish a layer at once
\* have one per layer, written with the layer's last quantum.
LedgerEntry(i) ==
  LET l == LayerOf(i)
      k == PhaseOf(i)
      n == plan.panelCount
  IN CASE plan.tactic = "per-panel" -> AdvancePanel(plan, progress, l, k)
       [] plan.tactic = LayerWide ->
            IF k < n THEN AdvancePanel(plan, progress, l, k)
                     ELSE AdvanceLayerWideMlp(plan, progress, l)
       [] plan.tactic = WholeCore ->
            CASE k < n -> AdvanceFill(plan, progress, l, k)
              [] k = n -> AdvancePromptCore(plan, progress, l)
              [] k > n /\ k < 2 * n + 1 ->
                   AdvanceDrain(plan, progress, l, k - n - 1)
              [] OTHER -> AdvancePersistentMlp(plan, progress, l)
       [] OTHER ->
            IF k = 2 * n + 1
              THEN AtomicLayer(plan.tactic, plan, progress, l, TRUE)
              ELSE Recorded(progress)

\* The replay of the whole schedule after completion.
Replay ==
  /\ pc = "replay"
  /\ replayed < Total
  /\ LET entry == LedgerEntry(replayed) IN
       /\ progress' = entry.progress
       /\ IF entry.error = "none" THEN UNCHANGED <<pc, result>>
                                  ELSE Failing("refused")
  /\ replayed' = replayed + 1
  /\ UNCHANGED <<plan, bounded, item, window, device, cancel, stage, poisoned,
                 history>>

ReplayDone ==
  /\ pc = "replay"
  /\ replayed = Total
  /\ LET marked == MarkFinalHiddenReady(plan, progress) IN
       /\ progress' = marked.progress
       /\ IF marked.error = "none" /\ FinalCommitReady(plan, progress')
            THEN pc' = "merge" /\ UNCHANGED result
            ELSE Failing("refused")
  /\ UNCHANGED <<plan, bounded, item, window, device, cancel, replayed, stage,
                 poisoned, history>>

ExpectedRetirements == IF bounded THEN Layers * PerLayer(plan) ELSE 0

\* The route evidence is merged into a copy, the stage filled in, and the
\* adapter checks the result against the plan.
Return ==
  /\ Host("merge", "returned")
  /\ IF retired = ExpectedRetirements
       THEN stage' = "awaiting-logits" /\ result' = "staged"
       ELSE stage' = "awaiting-logits" /\ result' = "contract"
  /\ UNCHANGED <<plan, bounded, item, window, device, cancel, ledger,
                 poisoned, history>>

FailUndrained ==
  /\ Host("failing", "returned")
  /\ result' = IF broken THEN "error" ELSE result
  /\ poisoned' = TRUE
  /\ stage' = "idle"
  /\ UNCHANGED <<plan, bounded, item, window, device, cancel, ledger,
                 history>>

\* fail_whole_request_prefill: both streams are synchronized before anything
\* else; a failed drain replaces a status that is not a CUDA failure.
FailWholeRequest ==
  /\ Host("failing", "returned")
  /\ StreamDrained \/ broken
  /\ result' = IF broken THEN "error" ELSE result
  /\ poisoned' = TRUE
  /\ stage' = "idle"
  /\ UNCHANGED <<plan, bounded, item, window, device, cancel, ledger,
                 history>>

HostStep ==
  \/ Enter \/ RetireOldest \/ WaitFails \/ Enqueue \/ Record
  \/ DrainedWindow \/ FinalNorm \/ Synchronize \/ Replay \/ ReplayDone
  \/ Return \/ FailWholeRequest

Next ==
  HostStep \/ CallFails \/ ClientCancels \/ DeviceFinishes \/ DeviceBreaks

\* The host thread runs, and the device executes what it was given until it
\* breaks.  Nothing is assumed of the client.
Spec ==
  /\ Init /\ [][Next]_vars
  /\ WF_vars(HostStep)
  /\ WF_vars(DeviceFinishes \/ DeviceBreaks)

(***************************************************************************)
(* Properties                                                              *)
(***************************************************************************)
TypeOK ==
  /\ pc \in {"enter", "enqueue", "record", "drain", "norm", "sync", "replay",
             "merge", "failing", "returned"}
  /\ item \in 0 .. Total /\ retired \in 0 .. Total /\ replayed \in 0 .. Total
  /\ inFlight \in 0 .. Slots
  /\ oldest \in 0 .. Slots - 1 /\ next \in 0 .. Slots - 1
  /\ submitted \in 0 .. Total + 1 /\ finished \in 0 .. submitted
  /\ {bounded, broken, cancel, poisoned, faulted} \subseteq BOOLEAN
  /\ stage \in {"idle", "executing", "awaiting-logits"}
  /\ result \in {"none", "staged", "cancelled", "error", "refused", "contract"}

\* A request with a cancellation probe "never has more than two quanta
\* submitted" (docs/EVALSCOPE_EVALUATION.md): the ring of events bounds what
\* the device has left to do.
WindowBounded == bounded => submitted - finished =< Slots

\* The ring and the stream agree: the outstanding slots hold the submissions
\* after the retired ones, in order, and what was retired is finished.  The
\* layer and the count a cancellation reports rest on it.
RetiresInOrder ==
  bounded =>
    /\ retired =< finished
    /\ \A k \in 0 .. inFlight - 1 :
         slotItem[(oldest + k) % Slots] = retired + k

\* Whatever the outcome, no work of the call is still running when it
\* returns: the caller may reuse the buffers.
ReturnsDrained == pc = "returned" => finished = submitted \/ broken

\* After a cancellation at most Slots more quanta are submitted.
CancelIsPrompt == bounded /\ cancel => submitted - cancelledAt =< Slots

\* A request cancelled while it still had quanta to submit is never staged.
CancelIsHonoured ==
  result = "staged" /\ bounded /\ cancel => cancelledAt >= Total

\* The replayed ledger agrees with what was executed: neither the ledger nor
\* the adapter's count of retirements refuses a run in which nothing failed,
\* and a staged request has executed everything.
StagedIsComplete ==
  /\ result \notin {"refused", "contract"}
  /\ result = "error" => faulted \/ broken
  /\ result = "staged" => /\ finished = Total + 1
                          /\ FinalCommitReady(plan, progress)

\* make_submission_room, retire_oldest_submission and record_submission: the ring
\* of events is the unfinished part of the stream, in order and bounded.
WindowIsSound == TypeOK /\ WindowBounded /\ RetiresInOrder

\* prefill_whole_request_layer_major_core: a cancellation stops the submissions
\* within one window and is never turned into a staged request.
CancelIsObserved == CancelIsPrompt /\ CancelIsHonoured

\* What a return says is true of the device and of the ledger, on every exit.
OutcomeIsSound == ReturnsDrained /\ StagedIsComplete

\* The call returns, also if the client cancels or the device breaks.
CallReturns == <>(pc = "returned")
=============================================================================
