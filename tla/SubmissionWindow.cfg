SPECIFICATION Spec
CONSTANTS
  Layers = 2
  PanelTokens = 4
  FixedPanelTokens = 3
  SegmentTokens = 2
  WideTokens = 8
  Capacity = 9
  FixedCapacity = 9
  Supported = {"per-panel", "layer-wide", "whole-core", "projection-reset", "packed", "packed-v2", "parity"}
  Service = TRUE
  Slots = 2
  PlanTactics = {"per-panel", "layer-wide", "whole-core", "parity"}
  PlanCounts = {1, 8, 9}
  Bounded = {TRUE, FALSE}
INVARIANTS
  WindowIsSound
  CancelIsObserved
  OutcomeIsSound
PROPERTIES
  CallReturns
CHECK_DEADLOCK FALSE
