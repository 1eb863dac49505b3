--------------------------- MODULE SidecarAssets ---------------------------
(***************************************************************************)
(* The repacked weight layouts ("sidecars") an engine prepares after it has *)
(* bound its weights: which ones a build and its options select, how one is *)
(* allocated, packed by kernels on a stream of its own and attached to the  *)
(* model weights, and what a failure on the way leaves behind.              *)
(*                                                                          *)
(* All preparations follow one protocol.  They differ in what they require  *)
(* of the layouts attached before, in whether a lack of memory is a fall-   *)
(* back or an error, and in whether they pack through a stream or through   *)
(* blocking copies.  A layer's part of a layout is one pack.                *)
(***************************************************************************)
EXTENDS Integers, Sequences, FiniteSets

CONSTANTS
  LayerIds,      \* decoder layers
  PinnedLayers,  \* kQwen36NvFp4DownScale6LayerCount
  Routes         \* builds and options the engine is tried with

Tactics == {"exact", "native", "whole_core", "reset", "packed", "packed_v2",
            "parity"}

\* The layouts of the decode step.
DecodeKinds == {"gate_up", "consumer_order"}

\* What selects layouts: options, then what the binary was built to admit, and
\* the decode layouts the environment of a testing binary asks for.
Route == [sm87 : BOOLEAN, chunk512 : BOOLEAN, whole : BOOLEAN,
          tactic : Tactics, aot : BOOLEAN,
          fp8 : BOOLEAN, nvfp4 : BOOLEAN, startup : BOOLEAN,
          service : BOOLEAN, testing : BOOLEAN,
          admitted : SUBSET DecodeKinds]

ASSUME AssetAssumption ==
  /\ LayerIds # {} /\ IsFiniteSet(LayerIds)
  /\ PinnedLayers \in 1 .. Cardinality(LayerIds) /\ Routes \subseteq Route

\* The order of Impl's members; a layout's owner holds its device memory.
Owners == <<"fp8_output", "scale6", "gate_up", "supermatrix", "fp8_marlin",
            "nvfp4_marlin", "parity", "packed", "target_aot", "consumer_order">>
Layouts == {Owners[i] : i \in DOMAIN Owners} \cup {"packed_v2"}

\* The packed layouts of both kinds share one owner.
OwnerOf(k) == IF k = "packed_v2" THEN "packed" ELSE k

VARIABLES
  route,     \* the options of the build in progress
  eligible,  \* layers whose scales fit the scale6 layout
  todo,      \* layouts still to prepare
  prep,      \* the preparation in progress
  packs,     \* packs queued on its stream
  alive,     \* members of the engine that exist
  packed,    \* layers an owner's memory holds, by layout
  attached,  \* layers whose weights point at a layout
  cause      \* something went wrong that may fail the build

assetVars == <<route, eligible, todo, prep, packs, alive, packed, attached,
               cause>>

NoRoute == [sm87 |-> FALSE, chunk512 |-> FALSE, whole |-> FALSE,
            tactic |-> "exact", aot |-> FALSE, fp8 |-> FALSE, nvfp4 |-> FALSE,
            startup |-> FALSE, service |-> FALSE, testing |-> FALSE,
            admitted |-> {}]
NoPrep == [pc |-> "idle", kind |-> "none", layers |-> {}]
Nothing == [k \in Layouts |-> {}]

AssetInit ==
  /\ route = NoRoute /\ eligible = {} /\ todo = <<>> /\ prep = NoPrep
  /\ packs = <<>> /\ alive = {} /\ packed = Nothing /\ attached = Nothing
  /\ cause = FALSE

-----------------------------------------------------------------------------
(* Options and selection.                                                   *)

\* The combinations ReferenceEngine::Impl::build accepts.  A tactic other than
\* the exact one exists only in binaries that admit it.
ValidRoute(r) ==
  /\ r.whole => r.chunk512 /\ r.fp8 /\ r.nvfp4
  /\ ~r.whole => r.tactic = "exact"
  /\ r.tactic = "parity" => r.sm87
  /\ r.aot => r.sm87 /\ ~r.whole

\* ordinary_decode_production_route.
Ordinary(r) == ~r.whole \/ (r.service /\ r.tactic = "whole_core")

When(c, k) == IF c THEN <<k>> ELSE <<>>

\* select_decode_sidecar_policy: a testing binary asks the environment.
Asked(r, k) == IF r.testing THEN k \in r.admitted ELSE Ordinary(r)

DecodeLayouts(r) == When(Asked(r, "gate_up"), "gate_up")
                    \o When(Asked(r, "consumer_order"), "consumer_order")

\* Mutant: the Marlin layout is also prepared for the parity tactic.
MarlinForParity(r) == r.nvfp4 /\ ~r.aot /\ r.tactic # "packed_v2"

MarlinSelected(r) ==
  r.nvfp4 /\ ~r.aot /\ r.tactic \notin {"packed_v2", "parity"}

SupermatrixSelected(r) == ~r.aot /\ (r.fp8 => r.tactic = "reset")

Fp8MarlinSelected(r) ==
  /\ r.fp8 /\ ~r.aot /\ ~SupermatrixSelected(r)
  /\ ~(r.startup /\ r.tactic = "whole_core")

\* The prefill layouts of a 512-token chunk, in the order they are prepared.
PrefillLayouts(r) ==
  IF ~r.chunk512 THEN <<>>
  ELSE IF r.tactic = "packed" THEN <<"packed">>
  ELSE When(Fp8MarlinSelected(r), "fp8_marlin")
       \o When(SupermatrixSelected(r), "supermatrix")
       \o When(MarlinSelected(r), "nvfp4_marlin")
       \o When(r.tactic = "parity", "parity")
       \o When(r.tactic = "packed_v2", "packed_v2")

Selection(r) ==
  (IF r.sm87
   THEN <<"fp8_output", "scale6">> \o PrefillLayouts(r) \o DecodeLayouts(r)
   ELSE <<>>)
  \o When(r.aot, "target_aot")

\* Layouts whose absence the engine survives.
Optional == {"fp8_output", "scale6"}

\* Layouts written by blocking copies instead of kernels on a stream.
Blocking == {"scale6", "target_aot"}

\* Layouts that must not be attached when k is: the inventory, or the attach,
\* finds their pointers on the projections it needs.
Conflicts(k) ==
  CASE k = "nvfp4_marlin" -> {"parity"}
    [] k = "parity" -> {"nvfp4_marlin", "packed", "packed_v2"}
    [] k = "packed" -> {"nvfp4_marlin", "parity", "supermatrix", "fp8_marlin"}
    [] k = "packed_v2" -> {"nvfp4_marlin", "parity", "packed"}
    [] k = "target_aot" -> {"nvfp4_marlin", "packed", "packed_v2", "parity"}
    [] OTHER -> {}

Compatible(k) == \A c \in Conflicts(k) \cup {k} : attached[c] = {}

\* The layers a layout covers.
Wanted(k) ==
  CASE k = "scale6" -> eligible
    [] k = "consumer_order" -> attached["scale6"]
    [] OTHER -> LayerIds

-----------------------------------------------------------------------------
(* One preparation.                                                         *)

Kind == prep.kind

\* It ends without its layout: a fallback, or the build fails.
Skip == todo' = Tail(todo) /\ prep' = NoPrep
Fail == prep' = [prep EXCEPT !.pc = "failed"] /\ UNCHANGED todo

\* Layouts whose inventory already looks for conflicting pointers; the others
\* find out when they attach.
ChecksFirst == {"packed", "packed_v2", "target_aot"}

\* A preparation needs an empty owner and layers nothing has claimed.
Ready(k) ==
  /\ OwnerOf(k) \notin alive /\ attached[k] = {} /\ Wanted(k) # {}
  /\ k \in ChecksFirst => Compatible(k)

Inventory ==
  LET k == Head(todo) IN
  /\ prep.pc = "idle" /\ todo # <<>>
  /\ \/ /\ Ready(k) /\ UNCHANGED todo
        /\ prep' = [pc |-> "allocate", kind |-> k, layers |-> Wanted(k)]
     \/ ~Ready(k) /\ Wanted(k) = {} /\ k \in Optional /\ Skip
     \/ /\ ~Ready(k) /\ ~(Wanted(k) = {} /\ k \in Optional)
        /\ prep' = [pc |-> "failed", kind |-> k, layers |-> {}]
        /\ UNCHANGED todo
  /\ UNCHANGED <<route, eligible, packs, alive, packed, attached, cause>>

\* The margin, the allocation, the margin again and the stream.
Allocate ==
  /\ prep.pc = "allocate"
  /\ alive' = alive \cup {OwnerOf(Kind)}
  /\ prep' = [prep EXCEPT !.pc = "pack"]
  /\ UNCHANGED <<route, eligible, todo, packs, packed, attached, cause>>

\* Too little memory, before or after the allocation, which is given back.
MemoryTight ==
  /\ prep.pc = "allocate" /\ cause' = TRUE
  /\ IF Kind \in Optional THEN Skip ELSE Fail
  /\ UNCHANGED <<route, eligible, packs, alive, packed, attached>>

\* The next layer is packed, or its pack is queued.
Pack ==
  /\ prep.pc = "pack" /\ prep.layers # {}
  /\ LET l == CHOOSE l \in prep.layers : TRUE IN
     /\ prep' = [prep EXCEPT !.layers = @ \ {l}]
     /\ IF Kind \in Blocking
        THEN packed' = [packed EXCEPT ![Kind] = @ \cup {l}] /\ UNCHANGED packs
        ELSE packs' = Append(packs, [kind |-> Kind, layer |-> l])
             /\ UNCHANGED packed
  /\ UNCHANGED <<route, eligible, todo, alive, attached, cause>>

\* The device runs a queued pack.
RunPack ==
  /\ packs # <<>> /\ packs' = Tail(packs)
  /\ LET p == Head(packs) IN
     packed' = [packed EXCEPT ![p.kind] = @ \cup {p.layer}]
  /\ UNCHANGED <<route, eligible, todo, prep, alive, attached, cause>>

\* Any CUDA call of a preparation fails; the memory it holds is to be released.
PrepareFails ==
  /\ prep.pc \in {"allocate", "pack"} /\ cause' = TRUE
  /\ prep' = [prep EXCEPT !.pc = IF @ = "pack" THEN "release" ELSE "failed"]
  /\ UNCHANGED <<route, eligible, todo, packs, alive, packed, attached>>

\* owner.release: the free waits for the packs that are still queued.
ReleaseOwner ==
  /\ prep.pc = "release" /\ packs = <<>>
  /\ alive' = alive \ {OwnerOf(Kind)}
  /\ packed' = [packed EXCEPT ![Kind] = {}]
  /\ Fail
  /\ UNCHANGED <<route, eligible, packs, attached, cause>>

\* cudaStreamSynchronize on the stream of the packs.
PacksDone == packs = <<>>

\* Where a refused attach leads: the preparation releases its owner, except for
\* target_aot, which build attaches itself and leaves to Impl's destructor.
Refused == IF Kind = "target_aot" THEN "failed" ELSE "release"

\* A layout is attached whole or not at all; attaching scale6 drops the
\* consumer-order pointers that depended on the old one.
Attach ==
  LET whole == [attached EXCEPT ![Kind] = Wanted(Kind)] IN
  /\ prep.pc = "pack" /\ prep.layers = {} /\ PacksDone
  /\ IF Compatible(Kind)
     THEN /\ attached' = IF Kind = "scale6"
                         THEN [whole EXCEPT !["consumer_order"] = {}] ELSE whole
          /\ prep' = [prep EXCEPT !.pc = "judge"]
     ELSE prep' = [prep EXCEPT !.pc = Refused] /\ UNCHANGED attached
  /\ UNCHANGED <<route, eligible, todo, packs, alive, packed, cause>>

\* What build requires of a finished preparation: the production consumer order
\* must cover exactly the pinned number of layers.
Judge ==
  /\ prep.pc = "judge"
  /\ IF Kind = "consumer_order" /\ ~route.testing
        /\ Cardinality(attached[Kind]) # PinnedLayers
     THEN Fail ELSE Skip
  /\ UNCHANGED <<route, eligible, packs, alive, packed, attached, cause>>

PrepareNext ==
  \/ Inventory \/ Allocate \/ MemoryTight \/ Pack \/ RunPack \/ PrepareFails
  \/ ReleaseOwner \/ Attach \/ Judge

-----------------------------------------------------------------------------
(* What a preparation may rely on.                                          *)

\* Every pointer in the model weights leads into memory that is held and fully
\* packed, and every queued pack writes into memory that is held.
PointersAreSound ==
  /\ \A k \in Layouts : /\ attached[k] \subseteq packed[k]
                        /\ attached[k] # {} => OwnerOf(k) \in alive
  /\ attached["consumer_order"] \subseteq attached["scale6"]
  /\ \A i \in DOMAIN packs : OwnerOf(packs[i].kind) \in alive
=============================================================================
