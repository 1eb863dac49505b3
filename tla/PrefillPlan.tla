---------------------------- MODULE PrefillPlan ----------------------------
(* The layer-major prefill plan and the progress ledger kept against it      *)
(* (prefill_execution_plan.h, prefill_execution_plan.cpp): how a prompt is   *)
(* cut into operator panels and a panel into physical segments, which        *)
(* requests a schedule tactic admits, and the transitions that record one    *)
(* completed piece of work.  A transition that the code refuses returns an   *)
(* error and leaves the ledger alone.                                        *)
(*                                                                           *)
(* Every operator here is a function of its arguments; PrefillProgress calls *)
(* them in any order and SubmissionWindow in the order of the runner.        *)
EXTENDS Integers, FiniteSets

CONSTANTS
  Layers,            \* kLayerMajorPrefillLayerCount (64)
  PanelTokens,       \* kLayerMajorPrefillOperatorPanelTokens (8192)
  FixedPanelTokens,  \* the panel of the prompt-wide tactics (8000)
  SegmentTokens,     \* kPrefillPhysicalSegmentMaximumTokens (512)
  WideTokens,        \* kLayerMajorPrefillLayerWideMlpP40Tokens (40000)
  Capacity,          \* max_sequence_length of the request state
  FixedCapacity,     \* the capacity the prompt-wide tactics are compiled for
  Supported,         \* the tactics compiled into the build
  Service            \* Q3X_ENABLE_WHOLE_CORE_SERVICE

ASSUME GeometryAssumption ==
  /\ {Layers, PanelTokens, FixedPanelTokens, SegmentTokens,
      WideTokens, Capacity, FixedCapacity} \subseteq Nat \ {0}
  /\ Service \in BOOLEAN

LayerWide == "layer-wide"
WholeCore == "whole-core"

\* The four tactics that publish a whole layer in one transition.
AtomicTactics == {"projection-reset", "packed", "packed-v2", "parity"}
FixedGeometry == {WholeCore} \cup AtomicTactics
Tactics == {"per-panel", LayerWide} \cup FixedGeometry

ASSUME SupportedAssumption == Supported \subseteq Tactics

LayerSet == 0 .. Layers - 1

(***************************************************************************)
(* Geometry                                                                *)
(***************************************************************************)
CeilDiv(a, b) == (a + b - 1) \div b

\* A tail of its own instead of two halves.
BalancedWithTail(remaining, unit) ==
  IF remaining =< unit THEN remaining ELSE unit

\* next_layer_major_prefill_operator_panel_token_count and
\* next_layer_major_prefill_physical_segment_token_count: full units first,
\* the last unit and its tail are split into halves.
Balanced(remaining, unit) ==
  CASE remaining =< unit -> remaining
    [] remaining > unit /\ remaining < 2 * unit -> (remaining + 1) \div 2
    [] OTHER -> unit

NextPanelTokens(tactic, remaining) ==
  IF tactic \in FixedGeometry
    THEN IF remaining < FixedPanelTokens THEN remaining ELSE FixedPanelTokens
    ELSE Balanced(remaining, PanelTokens)

PanelCount(tactic, count) ==
  CeilDiv(count, IF tactic \in FixedGeometry THEN FixedPanelTokens
                                             ELSE PanelTokens)

\* What is left of the prompt once k panels have been cut.
RemainingAfter(tactic, count) ==
  LET left[k \in 0 .. PanelCount(tactic, count)] ==
        IF k = 0 THEN count
                 ELSE left[k - 1] - NextPanelTokens(tactic, left[k - 1])
  IN left

PanelsOf(tactic, first, count) ==
  LET left == RemainingAfter(tactic, count)
  IN [k \in 0 .. PanelCount(tactic, count) - 1 |->
        [first |-> first + count - left[k],
         end   |-> first + count - left[k + 1]]]

\* make_layer_major_prefill_arithmetic_span_ledger: what is left of a panel
\* after k spans.  The loop stops after MaxSpans of them.
MaxSpans == CeilDiv(PanelTokens, SegmentTokens)

SpanLedger(tokens) ==
  LET left[k \in 0 .. MaxSpans] ==
        IF k = 0 THEN tokens
                 ELSE left[k - 1] - Balanced(left[k - 1], SegmentTokens)
  IN left

(***************************************************************************)
(* build_unbound_layer_major_prefill_execution_plan                        *)
(***************************************************************************)
WholeCoreAdmits(count) ==
  IF Service THEN count \in 1 .. FixedCapacity ELSE count = WideTokens

Admits(tactic, first, count) ==
  /\ tactic \in Supported
  /\ count > 0
  /\ tactic # "per-panel" =>
       /\ first = 0
       /\ IF tactic = WholeCore THEN WholeCoreAdmits(count)
                                ELSE count = WideTokens
  /\ tactic \in FixedGeometry => Capacity = FixedCapacity
  /\ first + count =< Capacity

\* mlp_phase_submission_count_per_layer
MlpPhases(plan) == IF plan.tactic = "per-panel" THEN plan.panelCount ELSE 1

Plan(tactic, first, count) ==
  [tactic |-> tactic, first |-> first, final |-> first + count,
   panelCount |-> PanelCount(tactic, count),
   panels |-> PanelsOf(tactic, first, count)]

(***************************************************************************)
(* PrefillExecutionProgress                                                *)
(***************************************************************************)
\* make_prefill_execution_progress; end is kv_visible_end of a full
\* attention layer and gdn_advanced_end of a linear one, the other array of
\* a layer is never written.
NewProgress(plan) ==
  [end |-> [l \in LayerSet |-> plan.first],
   panels |-> [l \in LayerSet |-> 0],
   mlp |-> [l \in LayerSet |-> 0],
   fill |-> [l \in LayerSet |-> 0],
   core |-> [l \in LayerSet |-> 0],
   drain |-> [l \in LayerSet |-> 0],
   layer |-> 0, panel |-> 0, ready |-> FALSE, committed |-> FALSE]

Refused(p, error) == [error |-> error, progress |-> p]
Recorded(p) == [error |-> "none", progress |-> p]

OpenAnyLayer(p, layer) == ~p.committed

\* The guard every transition shares: the layer the ledger expects.
Open(p, layer) == ~p.committed /\ p.layer = layer

NextPanelNoWrap(plan, p) == p.panel + 1

NextPanel(plan, p) == (p.panel + 1) % plan.panelCount

\* advance_prefill_progress_after_completion: only the per-panel tactic counts
\* an MLP phase with the panel and moves on after a layer's last panel.
AdvancePanel(plan, p, layer, panel) ==
  LET moves == IF plan.tactic = "per-panel" THEN 1 ELSE 0
      next == NextPanel(plan, p)
  IN IF plan.tactic \in FixedGeometry THEN Refused(p, "out-of-order")
     ELSE IF layer \notin LayerSet THEN Refused(p, "layer-range")
     ELSE IF panel >= plan.panelCount THEN Refused(p, "panel-range")
     ELSE IF /\ Open(p, layer)
             /\ p.panel = panel
             /\ p.panels[layer] = panel
             /\ p.end[layer] = plan.panels[panel].first
            THEN Recorded([p EXCEPT
                   !.end[layer] = plan.panels[panel].end,
                   !.panels[layer] = @ + 1,
                   !.mlp[layer] = @ + moves,
                   !.panel = next,
                   !.layer = IF next = 0 THEN @ + moves ELSE @])
            ELSE Refused(p, "out-of-order")

\* advance_layer_wide_p40_mlp_progress_after_completion
AdvanceLayerWideMlp(plan, p, layer) ==
  IF layer \notin LayerSet THEN Refused(p, "layer-range")
  ELSE IF /\ plan.tactic = LayerWide
          /\ Open(p, layer)
          /\ p.panel = 0
          /\ p.panels[layer] = plan.panelCount
          /\ p.mlp[layer] = 0
         THEN Recorded([p EXCEPT !.mlp[layer] = 1, !.layer = @ + 1])
         ELSE Refused(p, "out-of-order")

\* The counters of a layer of the whole-core schedule: fill, core, drain,
\* panels, and no MLP phase yet.
WholeCoreAt(p, layer, fill, core, drain) ==
  /\ p.fill[layer] = fill
  /\ p.core[layer] = core
  /\ p.drain[layer] = drain
  /\ p.panels[layer] = drain
  /\ p.mlp[layer] = 0

\* advance_prompt_wide_p40_fill_progress_after_completion
AdvanceFill(plan, p, layer, panel) ==
  IF layer \notin LayerSet THEN Refused(p, "layer-range")
  ELSE IF panel >= plan.panelCount THEN Refused(p, "panel-range")
  ELSE IF /\ plan.tactic = WholeCore
          /\ Open(p, layer)
          /\ p.panel = panel
          /\ WholeCoreAt(p, layer, panel, 0, 0)
         THEN Recorded([p EXCEPT !.fill[layer] = @ + 1,
                                 !.panel = NextPanel(plan, p)])
         ELSE Refused(p, "out-of-order")

\* advance_prompt_wide_p40_prompt_core_progress_after_completion
AdvancePromptCore(plan, p, layer) ==
  IF layer \notin LayerSet THEN Refused(p, "layer-range")
  ELSE IF /\ plan.tactic = WholeCore
          /\ Open(p, layer)
          /\ p.panel = 0
          /\ WholeCoreAt(p, layer, plan.panelCount, 0, 0)
          /\ p.end[layer] = plan.first
         THEN Recorded([p EXCEPT !.end[layer] = plan.final,
                                 !.core[layer] = 1])
         ELSE Refused(p, "out-of-order")

\* advance_prompt_wide_p40_drain_progress_after_completion
AdvanceDrain(plan, p, layer, panel) ==
  IF layer \notin LayerSet THEN Refused(p, "layer-range")
  ELSE IF panel >= plan.panelCount THEN Refused(p, "panel-range")
  ELSE IF /\ plan.tactic = WholeCore
          /\ Open(p, layer)
          /\ p.panel = panel
          /\ WholeCoreAt(p, layer, plan.panelCount, 1, panel)
         THEN Recorded([p EXCEPT !.drain[layer] = @ + 1,
                                 !.panels[layer] = @ + 1,
                                 !.panel = NextPanel(plan, p)])
         ELSE Refused(p, "out-of-order")

\* advance_prompt_wide_p40_persistent_mlp_progress_after_completion
AdvancePersistentMlp(plan, p, layer) ==
  IF layer \notin LayerSet THEN Refused(p, "layer-range")
  ELSE IF /\ plan.tactic = WholeCore
          /\ Open(p, layer)
          /\ p.panel = 0
          /\ WholeCoreAt(p, layer, plan.panelCount, 1, plan.panelCount)
         THEN Recorded([p EXCEPT !.mlp[layer] = 1, !.layer = @ + 1])
         ELSE Refused(p, "out-of-order")

\* A layer of the tactics that publish it as a whole.
AtomicLayer(tactic, plan, p, layer, receipt) ==
  IF layer \notin LayerSet THEN Refused(p, "layer-range")
  ELSE IF ~ (/\ plan.tactic = tactic
             /\ Open(p, layer)
             /\ p.panel = 0
             /\ WholeCoreAt(p, layer, 0, 0, 0))
         THEN Refused(p, "out-of-order")
  ELSE IF ~receipt THEN Refused(p, "receipt")
  ELSE IF p.end[layer] # plan.first THEN Refused(p, "out-of-order")
  ELSE Recorded([p EXCEPT !.end[layer] = plan.final,
                          !.panels[layer] = plan.panelCount,
                          !.mlp[layer] = 1,
                          !.layer = @ + 1])

\* advance_prompt_wide_p40_projection_reset_layer_progress_after_completion
AdvanceProjectionReset(plan, p, layer) ==
  AtomicLayer("projection-reset", plan, p, layer, TRUE)

\* advance_prompt_wide_p40_packed_projection_layer_progress_after_completion
AdvancePacked(plan, p, layer) == AtomicLayer("packed", plan, p, layer, TRUE)

\* advance_prompt_wide_p40_packed_nvfp4_v2_layer_progress_after_completion
AdvancePackedV2(plan, p, layer) ==
  AtomicLayer("packed-v2", plan, p, layer, TRUE)

\* advance_prompt_wide_p40_vllm_marlin_parity_layer_progress_after_completion;
\* receipt: the layer's completion receipt names this layer and is complete.
AdvanceParity(plan, p, layer, receipt) ==
  AtomicLayer("parity", plan, p, layer, receipt)

\* execution_complete
ExecutionComplete(plan, p) ==
  /\ p.layer = Layers
  /\ p.panel = 0
  /\ \A l \in LayerSet :
       /\ p.panels[l] = plan.panelCount
       /\ p.mlp[l] = MlpPhases(plan)
       /\ IF plan.tactic = WholeCore
            THEN /\ p.fill[l] = plan.panelCount
                 /\ p.core[l] = 1
                 /\ p.drain[l] = plan.panelCount
            ELSE p.fill[l] = 0 /\ p.core[l] = 0 /\ p.drain[l] = 0
       /\ p.end[l] = plan.final

\* mark_prefill_final_hidden_ready
MarkFinalHiddenReady(plan, p) ==
  IF ~ExecutionComplete(plan, p) THEN Refused(p, "incomplete")
  ELSE IF p.committed THEN Refused(p, "already-committed")
  ELSE Recorded([p EXCEPT !.ready = TRUE])

\* prefill_final_commit_ready
FinalCommitReady(plan, p) ==
  ~p.committed /\ p.ready /\ ExecutionComplete(plan, p)

\* publish_prefill_state_committed
PublishCommitted(plan, p) ==
  IF p.committed THEN Refused(p, "already-committed")
  ELSE IF ~FinalCommitReady(plan, p) THEN Refused(p, "not-ready")
  ELSE Recorded([p EXCEPT !.committed = TRUE])
=============================================================================
