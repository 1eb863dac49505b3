SPECIFICATION LedgerSpec
CONSTANTS
  Layers = 3
  PanelTokens = 5
  FixedPanelTokens = 3
  SegmentTokens = 2
  WideTokens = 8
  Capacity = 11
  FixedCapacity = 11
  Supported = {"per-panel", "layer-wide", "whole-core", "projection-reset", "packed", "packed-v2", "parity"}
  Service = TRUE
INVARIANTS
  LedgerIsSound
PROPERTIES
  RespectsDataflow
  Completes
