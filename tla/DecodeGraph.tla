---------------------------- MODULE DecodeGraph ----------------------------
(***************************************************************************)
(* The cache of captured decode steps (CUDA graphs) of the reference runner *)
(* and the engine that prepares, uses and retires it.                       *)
(*                                                                          *)
(* A slot per position holds a captured graph and an executable.  The slots *)
(* of a prepared window share ONE executable through a counted owner: every *)
(* replay first updates the executable from its own slot's graph, with the  *)
(* token of this step patched into the embedding node.  A standalone slot   *)
(* (the P1 screen) has an executable of its own and keeps only the          *)
(* embedding node of its graph.  Capture runs nothing: it records.          *)
(*                                                                          *)
(* Graph and executable handles are CUDA's; a handle is a number here, its  *)
(* contents the position and token it would run.                            *)
(***************************************************************************)
EXTENDS Integers, FiniteSetsExt

CONSTANTS
  Capacity,      \* max_sequence_length
  First, Last,   \* the production window of cached positions
  Tokens,        \* token ids of decode steps
  CaptureToken,  \* kProductionDecodeGraphCaptureTokenId
  MaxHandles,    \* bound: CUDA handles of one kind alive at once
  MaxRequests    \* bound: requests and screens of one engine

ASSUME WindowAssumption ==
  /\ Capacity \in Nat \ {0} /\ First \in Nat /\ Last \in Nat
  /\ First <= Last /\ First < Capacity /\ CaptureToken \in Tokens
  /\ MaxHandles \in Nat /\ MaxRequests \in Nat

Positions == 0 .. Capacity - 1
LastPosition == Min({Last, Capacity - 1})
Window == First .. LastPosition
\* The cache is off (not asked for, or the backend or the capacity rules it
\* out); asked for with an LM head capture does not support; or fully supported.
Configurations == {"off", "unsupported", "cached"}

Handles == 1 .. MaxHandles
Dead == [pos |-> -1, tok |-> CaptureToken, nodes |-> "none"]
Gone == [refs |-> 0, shared |-> FALSE, live |-> FALSE, runs |-> Dead]
Empty == [g |-> 0, o |-> 0]
NoCapture == [pc |-> "none", g |-> 0, o |-> 0, shared |-> FALSE]
NoRequest == [mode |-> "none", replays |-> 0]

VARIABLES
  phase,     \* where the engine is
  engine,    \* how the engine is configured (see Configurations)
  slots,     \* decode_graph_p1_slots_
  staged,    \* staged_slots of a running preparation
  graphs,    \* captured graphs by handle
  owners,    \* executables by handle, with their owner's count
  cap,       \* the capture in progress
  cursor,    \* position a preparation captures next
  entry,     \* sequence length when the preparation began
  seq,       \* sequence_length_ of the request state
  dirty,     \* KV rows written since the last wipe
  poisoned,  \* poisoned_
  capturing, \* the stream records instead of running
  ready,     \* decode_graph_cache_ready
  req,       \* the running request: its mode and its replays
  served,    \* requests and screens so far
  ran,       \* the last launched graph: what was asked and what it ran
  retired    \* a request that replayed production graphs has failed

runner == <<seq, dirty, poisoned, capturing>>
handles == <<slots, staged, graphs, owners>>
vars == <<phase, engine, slots, staged, graphs, owners, cap, cursor, entry,
          seq, dirty, poisoned, capturing, ready, req, served, ran, retired>>

Init ==
  /\ phase = "create" /\ engine \in Configurations
  /\ slots = [p \in Positions |-> Empty] /\ staged = slots
  /\ graphs = [h \in Handles |-> Dead] /\ owners = [h \in Handles |-> Gone]
  /\ cap = NoCapture /\ cursor = 0 /\ entry = 0
  /\ seq = 0 /\ dirty = {} /\ poisoned = FALSE /\ capturing = FALSE
  /\ ready = FALSE /\ req = NoRequest /\ served = 0
  /\ ran = [asked |-> Dead, did |-> Dead] /\ retired = FALSE

-----------------------------------------------------------------------------
(* Slots and handles.                                                       *)

Has(p) == p \in Positions /\ slots[p] # Empty

\* How many of the slots in f at positions ps point at owner o.
Refs(f, ps, o) == Cardinality({p \in ps : f[p].o = o})

\* Mutant: any slot destroys the executable with it.
OwnersWithoutCount(f, ps) ==
  [o \in Handles |-> IF Refs(f, ps, o) > 0 THEN Gone ELSE owners[o]]

\* destroy_decode_graph_p1_slot on the slots of f at ps: every slot gives back
\* its reference, the last one destroys the executable, and its graph goes.
OwnersWithout(f, ps) ==
  [o \in Handles |->
     LET left == owners[o].refs - Refs(f, ps, o)
     IN  IF owners[o].live /\ Refs(f, ps, o) > 0
         THEN IF left = 0 THEN Gone ELSE [owners[o] EXCEPT !.refs = left]
         ELSE owners[o]]
GraphsWithout(f, ps) ==
  [g \in Handles |-> IF \E p \in ps : f[p].g = g THEN Dead ELSE graphs[g]]

FreeGraph == CHOOSE h \in Handles : graphs[h] = Dead
FreeOwner == CHOOSE h \in Handles : ~owners[h].live

\* reset and begin_request wipe the state and clear the poison.
Wiped == seq' = 0 /\ dirty' = {} /\ poisoned' = FALSE

-----------------------------------------------------------------------------
(* Capture: step_impl with kCaptureOnly.  Its destination is the slot of the *)
(* preparation's cursor, or the published slot of a standalone capture.      *)

ForCache == phase = "prepare"

\* The slot that owns the executable a cache capture shares, if there is one.
SharedOwner == IF ForCache /\ cursor # First THEN staged[First].o ELSE 0

BeginCapture ==
  /\ cap.pc = "none" /\ ~capturing /\ ~poisoned
  /\ capturing' = TRUE
  /\ cap' = [NoCapture EXCEPT !.pc = "recording", !.shared = SharedOwner # 0]

\* cudaStreamEndCapture returns the graph of position seq; which token it was
\* recorded with does not matter, every replay patches its own.
EndCapture ==
  /\ cap.pc = "recording"
  /\ \E h \in Handles : graphs[h] = Dead
  /\ graphs' = [graphs EXCEPT ![FreeGraph] = [pos |-> seq, tok |-> CaptureToken,
                                              nodes |-> "all"]]
  /\ capturing' = FALSE
  /\ cap' = [cap EXCEPT !.pc = "captured", !.g = FreeGraph]
  /\ UNCHANGED <<phase, engine, slots, staged, owners, cursor, entry, seq,
                 dirty, poisoned, ready, req, served, ran, retired>>

\* Instantiate a new executable, or update the shared one from this graph.
Instantiate ==
  /\ cap.pc = "captured"
  /\ IF cap.shared
     THEN /\ owners' = [owners EXCEPT ![SharedOwner].runs = graphs[cap.g]]
          /\ cap' = [cap EXCEPT !.pc = "ready", !.o = SharedOwner]
     ELSE /\ \E h \in Handles : ~owners[h].live
          /\ owners' = [owners EXCEPT ![FreeOwner] =
                          [refs |-> 0, shared |-> ForCache, live |-> TRUE,
                           runs |-> graphs[cap.g]]]
          /\ cap' = [cap EXCEPT !.pc = "ready", !.o = FreeOwner]
  /\ UNCHANGED <<phase, engine, slots, staged, graphs, cursor, entry, seq,
                 dirty, poisoned, capturing, ready, req, served, ran, retired>>

\* Mutant: every capture keeps just the embedding node.
KeptNodesEmbedding == "embedding"

\* Only a standalone capture drops the nodes no later update reads.
KeptNodes == IF ForCache THEN "all" ELSE "embedding"

\* The new slot takes a reference and replaces what its destination held.
Publish ==
  LET p == IF ForCache THEN cursor ELSE seq
      old == IF ForCache THEN staged ELSE slots
      taken == [OwnersWithout(old, {p}) EXCEPT ![cap.o].refs = @ + 1]
      slot == [g |-> cap.g, o |-> cap.o]
  IN
  /\ cap.pc = "ready"
  /\ owners' = taken
  /\ graphs' = [GraphsWithout(old, {p}) EXCEPT ![cap.g].nodes = KeptNodes]
  /\ IF ForCache
     THEN /\ staged' = [staged EXCEPT ![p] = slot]
          /\ cursor' = cursor + 1
          /\ UNCHANGED <<slots, phase>>
     ELSE /\ slots' = [slots EXCEPT ![p] = slot]
          /\ phase' = "screen"
          /\ UNCHANGED <<staged, cursor>>
  /\ cap' = NoCapture
  /\ UNCHANGED <<engine, entry, seq, dirty, poisoned, capturing, ready, req,
                 served, ran, retired>>

\* What a failing capture destroys: its graph, and an executable nobody owns.
CaptureGraphs == IF cap.g = 0 THEN graphs ELSE [graphs EXCEPT ![cap.g] = Dead]

\* A shared executable whose update failed runs nothing any more can rely on.
CaptureOwners ==
  IF cap.shared THEN [owners EXCEPT ![SharedOwner].runs = Dead]
  ELSE IF cap.o = 0 THEN owners
  ELSE [owners EXCEPT ![cap.o] = Gone]

\* Mutant: fail_step leaves the stream as it is.
CaptureEndedNot == capturing

\* fail_step first takes the stream out of capture, then poisons the runner.
CaptureEnded == FALSE

\* A capture fails at any point; a preparation restores the sequence length and
\* destroys everything it staged, and the caller learns of it.
CaptureFails ==
  /\ cap.pc # "none"
  /\ capturing' = CaptureEnded /\ poisoned' = TRUE
  /\ cap' = NoCapture
  /\ IF ForCache
     THEN LET dead == [h \in Handles |->
                         IF Refs(staged, Positions, h) > 0 THEN Gone
                         ELSE CaptureOwners[h]]
          IN  /\ owners' = dead
              /\ graphs' = [h \in Handles |->
                              IF \E p \in Positions : staged[p].g = h THEN Dead
                              ELSE CaptureGraphs[h]]
              /\ staged' = [p \in Positions |-> Empty]
              /\ seq' = entry
              /\ phase' = "rollback"
     ELSE /\ owners' = CaptureOwners /\ graphs' = CaptureGraphs
          /\ phase' = "serve"
          /\ UNCHANGED <<staged, seq>>
  /\ UNCHANGED <<engine, slots, cursor, entry, dirty, ready, req, served,
                 ran, retired>>

-----------------------------------------------------------------------------
(* Engine creation: warm-up, preparation, admission or rollback.             *)

\* One artificial step at the end of the window initializes the kernels.
WarmUp ==
  /\ phase = "create" /\ engine = "cached"
  /\ seq' = LastPosition + 1 /\ dirty' = {LastPosition}
  /\ phase' = "warmed"
  /\ UNCHANGED <<engine, handles, cap, cursor, entry, poisoned, capturing,
                 ready, req, served, ran, retired>>

\* The full reset after the warm-up; a failed reset or warm-up ends creation.
WarmReset ==
  /\ phase = "warmed"
  /\ \/ Wiped /\ phase' = "probe"
     \/ poisoned' = TRUE /\ phase' = "failed" /\ UNCHANGED <<seq, dirty>>
  /\ UNCHANGED <<engine, handles, cap, cursor, entry, capturing, ready, req,
                 served, ran, retired>>

\* No cache is wanted; or the preparation is refused without touching anything,
\* and an empty cache rolled back.
SkipWarmUp ==
  /\ phase = "create"
  /\ \/ engine = "off" /\ phase' = "serve"
     \/ engine = "unsupported" /\ phase' = "rollback"
  /\ UNCHANGED <<engine, handles, cap, cursor, entry, runner, ready, req,
                 served, ran, retired>>

\* The memory probe: too little free memory skips the preparation.
Probe ==
  /\ phase = "probe"
  /\ \/ phase' = "rollback" /\ UNCHANGED <<cursor, entry>>
     \/ phase' = "prepare" /\ cursor' = First /\ entry' = seq
  /\ UNCHANGED <<engine, handles, cap, runner, ready, req, served, ran,
                 retired>>

\* The loop over the window has captured every position.
AllCaptured == cursor > LastPosition

PrepareCapture ==
  /\ ForCache /\ ~AllCaptured
  /\ BeginCapture
  /\ seq' = cursor
  /\ UNCHANGED <<phase, engine, handles, cursor, entry, dirty, poisoned,
                 ready, req, served, ran, retired>>

\* All captured: restore the sequence length and publish every slot at once.
PublishCache ==
  /\ ForCache /\ cap.pc = "none" /\ AllCaptured
  /\ seq' = entry
  /\ slots' = [p \in Positions |-> IF p \in Window THEN staged[p] ELSE slots[p]]
  /\ staged' = [p \in Positions |-> Empty]
  /\ phase' = "prepared"
  /\ UNCHANGED <<engine, graphs, owners, cap, cursor, entry, dirty, poisoned,
                 capturing, ready, req, served, ran, retired>>


\* clear_fixed_position_decode_graph_cache: the streams are drained first; when
\* that fails nothing is destroyed, when a destroy fails the slots are gone.
Cleared ==
  /\ slots' = [p \in Positions |-> Empty]
  /\ owners' = OwnersWithout(slots, Positions)
  /\ graphs' = GraphsWithout(slots, Positions)
ClearUndrained == poisoned' = TRUE /\ UNCHANGED <<slots, owners, graphs>>

\* rollback_decode_graph_cache: clear, then reset, and only both let the
\* engine be created without a cache.
Rollback ==
  /\ phase = "rollback"
  /\ \/ Cleared /\ Wiped /\ phase' = "serve"
     \/ Cleared /\ poisoned' = TRUE /\ phase' = "failed"
        /\ UNCHANGED <<seq, dirty>>
     \/ ClearUndrained /\ phase' = "failed" /\ UNCHANGED <<seq, dirty>>
  /\ UNCHANGED <<engine, staged, cap, cursor, entry, capturing, ready, req,
                 served, ran, retired>>

\* Shape, time and memory within budget: reset, and the cache serves.
Admit ==
  /\ phase = "prepared"
  /\ Wiped /\ ready' = TRUE /\ phase' = "serve"
  /\ UNCHANGED <<engine, handles, cap, cursor, entry, capturing, req, served,
                 ran, retired>>

\* A budget is exceeded: the prepared cache is rolled back.
Refuse ==
  /\ phase = "prepared" /\ phase' = "rollback"
  /\ UNCHANGED <<engine, handles, cap, cursor, entry, runner, ready, req,
                 served, ran, retired>>

\* The reset before serving fails: rolled back, and creation fails all the same.
AdmitResetFails ==
  /\ phase = "prepared" /\ phase' = "failed"
  /\ \/ Cleared /\ poisoned' \in BOOLEAN
     \/ ClearUndrained
  /\ UNCHANGED <<engine, staged, cap, cursor, entry, seq, dirty, capturing,
                 ready, req, served, ran, retired>>

-----------------------------------------------------------------------------
(* Serving.                                                                 *)

\* generate: the request state is reset and the prompt fills p positions; a
\* request may trace, be ordinary, or ask for prepared graphs explicitly.
BeginRequest ==
  /\ phase = "serve" /\ served < MaxRequests
  /\ \E p \in Positions, m \in {"ordinary", "prepared", "traced"} :
       /\ seq' = p /\ dirty' = 0 .. p - 1 /\ poisoned' = FALSE
       /\ req' = [mode |-> m, replays |-> 0]
  /\ phase' = "request" /\ served' = served + 1
  /\ UNCHANGED <<engine, handles, cap, cursor, entry, capturing, ready, ran,
                 retired>>

UseProduction == ready /\ req.mode # "traced"
UsesCache == req.mode = "prepared" \/ UseProduction
Replays == UsesCache /\ Has(seq) /\ req.mode # "traced"

\* A step needs a row for its position.
CapacityLeft == seq < Capacity

\* The serial step, when no graph covers the position.
SerialStep ==
  /\ phase = "request" /\ ~poisoned /\ CapacityLeft /\ ~Replays
  /\ \/ seq' = seq + 1 /\ dirty' = dirty \cup {seq} /\ UNCHANGED poisoned
     \/ poisoned' = TRUE /\ dirty' = dirty \cup {seq} /\ UNCHANGED seq
  /\ UNCHANGED <<phase, engine, handles, cap, cursor, entry, capturing,
                 ready, req, served, ran, retired>>

\* A graph with only its embedding node cannot update a whole executable.
Updated(g) == IF g.nodes = "all" THEN g ELSE Dead

\* Patch the token, bring the executable to this slot's position, launch.  The
\* launch may fail, before or after the device wrote the row.
ReplayGraph(tok) ==
  LET s == slots[seq]
      o == owners[s.o]
      patched == [graphs[s.g] EXCEPT !.tok = tok]
      runs == IF o.shared THEN Updated(patched) ELSE [o.runs EXCEPT !.tok = tok]
  IN
  /\ owners' = [owners EXCEPT ![s.o].runs = runs]
  /\ graphs' = IF o.shared THEN [graphs EXCEPT ![s.g] = patched] ELSE graphs
  /\ ran' = [asked |-> [pos |-> seq, tok |-> tok],
             did |-> [pos |-> runs.pos, tok |-> runs.tok]]

\* The update fails: what a shared executable runs is then unknown; a standalone
\* one keeps its nodes, only the embedding's parameters were refused.
UpdateFails ==
  LET o == slots[seq].o IN
  /\ owners' = IF owners[o].shared THEN [owners EXCEPT ![o].runs = Dead]
               ELSE owners
  /\ UNCHANGED <<graphs, ran>>

Replay ==
  /\ phase = "request" /\ ~poisoned /\ CapacityLeft /\ Replays
  /\ req' = [req EXCEPT !.replays = @ + 1]
  /\ dirty' = dirty \cup {seq}
  /\ \/ /\ \E tok \in Tokens : ReplayGraph(tok)
        /\ \/ seq' = seq + 1 /\ UNCHANGED poisoned
           \/ poisoned' = TRUE /\ UNCHANGED seq
     \/ UpdateFails /\ poisoned' = TRUE /\ UNCHANGED seq
  /\ UNCHANGED <<phase, engine, slots, staged, cap, cursor, entry, capturing,
                 ready, served, retired>>

\* The request succeeds; a cancelled one does too.
RequestEnds ==
  /\ phase = "request" /\ ~poisoned
  /\ phase' = "serve" /\ req' = NoRequest
  /\ UNCHANGED <<engine, handles, cap, cursor, entry, runner, ready, served,
                 ran, retired>>

\* The engine stops using its cache for good, however the clear goes.
Demoted == FALSE

\* The control result is a failure, of the runner or of the control itself (an
\* allocation or an unexpected step leaves the runner sound).  A failed request
\* that replayed production graphs retires the cache either way.
RequestFails ==
  /\ phase = "request"
  /\ phase' = "serve" /\ req' = NoRequest
  /\ IF UseProduction /\ req.replays # 0
     THEN /\ ready' = Demoted /\ retired' = TRUE
          /\ \/ Cleared /\ UNCHANGED poisoned
             \/ ClearUndrained
     ELSE UNCHANGED <<ready, retired, slots, owners, graphs, poisoned>>
  /\ UNCHANGED <<engine, staged, cap, cursor, entry, seq, dirty, capturing,
                 served, ran>>

-----------------------------------------------------------------------------
(* The standalone screen: capture at the position the seeding request left,  *)
(* then replay it.                                                          *)

ScreenCapture ==
  /\ phase = "serve" /\ served < MaxRequests /\ engine # "unsupported"
  /\ seq \in Positions \ {0}
  /\ BeginCapture
  /\ phase' = "screening" /\ served' = served + 1
  /\ UNCHANGED <<engine, handles, cursor, entry, seq, dirty, poisoned, ready,
                 req, ran, retired>>

\* The screen replays with any token; its guard restores the state's memory and
\* sequence length, but not a poisoned runner.
ScreenReplay ==
  /\ phase = "screen" /\ Has(seq)
  /\ \/ (\E tok \in Tokens : ReplayGraph(tok)) /\ poisoned' \in BOOLEAN
     \/ UpdateFails /\ poisoned' = TRUE
  /\ phase' = "serve"
  /\ UNCHANGED <<engine, slots, staged, cap, cursor, entry, seq, dirty,
                 capturing, ready, req, served, retired>>

\* The runner's destructor.
Destroy ==
  /\ phase \in {"serve", "failed"}
  /\ Cleared
  /\ phase' = "gone"
  /\ UNCHANGED <<engine, staged, cap, cursor, entry, runner, ready, req,
                 served, ran, retired>>

Next ==
  \/ WarmUp \/ WarmReset \/ SkipWarmUp \/ Probe \/ PrepareCapture
  \/ EndCapture \/ Instantiate \/ Publish \/ CaptureFails \/ PublishCache
  \/ Admit \/ Refuse \/ AdmitResetFails \/ Rollback \/ BeginRequest
  \/ SerialStep \/ Replay \/ RequestEnds \/ RequestFails
  \/ ScreenCapture \/ ScreenReplay \/ Destroy

Spec == Init /\ [][Next]_vars

-----------------------------------------------------------------------------
(* Properties.                                                              *)

SlotType == [g : 0 .. MaxHandles, o : 0 .. MaxHandles]

\* Type correctness, and the sequence length never leaves the allocated rows.
TypeOK ==
  /\ slots \in [Positions -> SlotType] /\ staged \in [Positions -> SlotType]
  /\ seq \in 0 .. Capacity /\ dirty \subseteq Positions
  /\ poisoned \in BOOLEAN /\ capturing \in BOOLEAN /\ ready \in BOOLEAN
  /\ \A h \in Handles : owners[h].refs \in 0 .. 2 * Capacity

\* The count of an executable's owner is the number of slots that use it, a slot
\* never points at a destroyed graph or executable, and no two share a graph:
\* replacing, clearing, or rolling back slots frees everything exactly once.
HandlesAreOwned ==
  LET used(h) == Refs(slots, Positions, h) + Refs(staged, Positions, h) IN
  /\ \A h \in Handles : owners[h].refs = used(h)
  /\ \A h \in Handles : used(h) > 0 => owners[h].live
  /\ \A f \in {slots, staged} : \A p \in Positions :
       f[p] # Empty => graphs[f[p].g] # Dead /\ graphs[f[p].g].pos = p
  /\ \A h \in Handles :
       /\ owners[h].live => used(h) > 0 \/ cap.o = h
       /\ graphs[h] # Dead =>
            cap.g = h \/ \E f \in {slots, staged} : \E p \in Positions : f[p].g = h
  /\ phase = "gone" =>
       \A h \in Handles : graphs[h] = Dead /\ ~owners[h].live


\* Outside a capture the stream executes: no failing capture leaves it
\* recording, which would swallow every later step of the engine.
NeverLeftRecording == capturing <=> cap.pc = "recording"

\* The cache is in use only when every position of the window was published
\* by one complete preparation or a screen replaced it since.
ReadyMeansComplete ==
  ready /\ phase # "gone" => \A p \in Window : Has(p)

\* Neither the warm-up nor the preparation leaves a trace in the request state
\* the first request finds, whichever of its steps fails.
CreationLeavesNoTrace ==
  phase = "serve" /\ served = 0 => seq = 0 /\ dirty = {} /\ ~poisoned

\* destroy_decode_graph_p1_slot and its callers free everything exactly once.
HandlesAreSound == TypeOK /\ HandlesAreOwned

\* prepare_fixed_position_decode_graph_cache and ReferenceEngine::create: the
\* cache is in use only when complete, the stream is never left recording, and
\* the first request finds a clean runner, whichever step of creation failed.
CreationIsSound ==
  NeverLeftRecording /\ ReadyMeansComplete /\ CreationLeavesNoTrace

\* replay_fixed_position_decode_graph_p1 and generate: a replay runs the
\* position and the token it was asked for, although all positions of the window
\* share one executable; and once a production replay has failed no ordinary
\* request replays a graph, even when the cache could not be cleared.
ReplaysOwnStep ==
  /\ ran.asked # Dead => ran.did = ran.asked
  /\ retired /\ req.mode = "ordinary" => req.replays = 0
=============================================================================
