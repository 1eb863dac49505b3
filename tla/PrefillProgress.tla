-------------------------- MODULE PrefillProgress --------------------------
(* The progress ledger of PrefillPlan driven by a caller that may make any   *)
(* call at any time, out of order, out of range, twice, or of another        *)
(* tactic.  The ledger is the only witness that every panel of every layer   *)
(* was executed before the request state is published, so what it records    *)
(* must be a legal schedule of the decoder whatever is called.               *)
EXTENDS PrefillLedger

VARIABLE
  error      \* what the last call returned

ledgerVars == <<plan, progress, error>>

Plans ==
  {Plan(x[1], x[2], x[3]) : x \in
     {y \in Tactics \X (0 .. Capacity) \X (1 .. Capacity) :
        Admits(y[1], y[2], y[3])}}

InitLedger ==
  /\ plan \in Plans
  /\ progress = NewProgress(plan)
  /\ error = "none"

Call(result) ==
  /\ progress' = result.progress
  /\ error' = result.error
  /\ UNCHANGED plan

\* One past the last layer and panel stand for every index out of range.
SomeLayer == 0 .. Layers
SomePanel == 0 .. plan.panelCount

CallPanel == \E l \in SomeLayer, k \in SomePanel :
  Call(AdvancePanel(plan, progress, l, k))
CallLayerWideMlp == \E l \in SomeLayer :
  Call(AdvanceLayerWideMlp(plan, progress, l))
CallFill == \E l \in SomeLayer, k \in SomePanel :
  Call(AdvanceFill(plan, progress, l, k))
CallPromptCore == \E l \in SomeLayer :
  Call(AdvancePromptCore(plan, progress, l))
CallDrain == \E l \in SomeLayer, k \in SomePanel :
  Call(AdvanceDrain(plan, progress, l, k))
CallPersistentMlp == \E l \in SomeLayer :
  Call(AdvancePersistentMlp(plan, progress, l))
CallProjectionReset == \E l \in SomeLayer :
  Call(AdvanceProjectionReset(plan, progress, l))
CallPacked == \E l \in SomeLayer : Call(AdvancePacked(plan, progress, l))
CallPackedV2 == \E l \in SomeLayer : Call(AdvancePackedV2(plan, progress, l))
CallParity == \E l \in SomeLayer, receipt \in BOOLEAN :
  Call(AdvanceParity(plan, progress, l, receipt))
CallMark == Call(MarkFinalHiddenReady(plan, progress))
CallPublish == Call(PublishCommitted(plan, progress))

NextCall ==
  \/ CallPanel \/ CallLayerWideMlp \/ CallFill \/ CallPromptCore
  \/ CallDrain \/ CallPersistentMlp \/ CallProjectionReset \/ CallPacked
  \/ CallPackedV2 \/ CallParity \/ CallMark \/ CallPublish

\* A caller that keeps going sooner or later makes a call the ledger accepts,
\* if there is one.
LedgerSpec ==
  /\ InitLedger /\ [][NextCall]_ledgerVars
  /\ WF_ledgerVars(NextCall /\ progress' # progress)

(***************************************************************************)
(* Properties                                                              *)
(***************************************************************************)
LedgerTypeOK ==
  /\ plan \in Plans
  /\ progress.layer \in 0 .. Layers
  /\ progress.panel \in 0 .. plan.panelCount - 1
  /\ \A l \in LayerSet : progress.end[l] \in plan.first .. plan.final
  /\ error \in {"none", "out-of-order", "layer-range", "panel-range",
                "receipt", "incomplete", "already-committed", "not-ready"}

\* The cutting loop runs a number of times that was computed beforehand by a
\* division; whatever the length, the panels it leaves cover the prompt
\* exactly, and the plan is never refused as an invalid topology.
PanelsCoverThePrompt ==
  /\ plan.panels[0].first = plan.first
  /\ plan.panels[plan.panelCount - 1].end = plan.final
  /\ \A k \in 0 .. plan.panelCount - 1 :
       /\ plan.panels[k].first < plan.panels[k].end
       /\ k > 0 => plan.panels[k].first = plan.panels[k - 1].end

\* "Preserve full-capacity work while preventing a final one-token panel":
\* with more than one panel none of the balanced ones is shorter than half a
\* panel, and all but the last two are full.
NoScalarTail ==
  plan.tactic \notin FixedGeometry /\ plan.panelCount > 1 =>
    \A k \in 0 .. plan.panelCount - 1 :
      LET tokens == plan.panels[k].end - plan.panels[k].first
      IN /\ tokens =< PanelTokens
         /\ 2 * tokens >= PanelTokens
         /\ k < plan.panelCount - 2 => tokens = PanelTokens

\* The fixed array of arithmetic spans is long enough for every panel: the
\* loop that fills it never stops for want of room.
SpansFit ==
  \A k \in 0 .. plan.panelCount - 1 :
    plan.panels[k].end - plan.panels[k].first =< PanelTokens =>
      SpanLedger(plan.panels[k].end - plan.panels[k].first)[MaxSpans] = 0

\* The cursor and the counters of the layers tell the same story: the layers
\* below the cursor are finished and the ones above are untouched.
CursorAgrees ==
  \A l \in LayerSet :
    /\ l < progress.layer =>
         /\ progress.end[l] = plan.final
         /\ progress.panels[l] = plan.panelCount
         /\ progress.mlp[l] = MlpPhases(plan)
    /\ l > progress.layer =>
         /\ progress.end[l] = plan.first
         /\ \A c \in {progress.panels, progress.mlp, progress.fill,
                      progress.core, progress.drain} : c[l] = 0

\* build_unbound_layer_major_prefill_execution_plan and the nine progress calls:
\* every admitted plan covers its prompt with panels the kernels can run, and no
\* sequence of calls makes the cursor disagree with what was recorded.
LedgerIsSound ==
  LedgerTypeOK /\ PanelsCoverThePrompt /\ NoScalarTail /\ SpansFit /\ CursorAgrees

\* How far the output of a layer is known to reach.
OutputEnd(l) ==
  CASE plan.tactic = "per-panel" /\ progress.mlp[l] > 0 ->
         plan.panels[progress.mlp[l] - 1].end
    [] plan.tactic # "per-panel" /\ progress.mlp[l] > 0 -> plan.final
    [] OTHER -> plan.first

Dataflow == INSTANCE DecoderDataflow WITH
  Layers <- Layers,
  first <- plan.first,
  final <- plan.final,
  state <- progress.end,
  output <- [l \in LayerSet |-> OutputEnd(l)],
  committed <- progress.committed

\* Whatever is called, what the ledger records is a legal schedule of the
\* decoder, and it lets the request be committed only when all of it is done.
RespectsDataflow == Dataflow!Spec

\* No sequence of calls leads the ledger to where it cannot be completed.
Completes == <>progress.committed
=============================================================================
