--------------------------- MODULE EngineLifetime ---------------------------
(***************************************************************************)
(* One engine from ReferenceEngine::create to its destruction: the loader   *)
(* fills the resident arena, the weights are bound to it, the request state *)
(* is created, the selected sidecar layouts are prepared, and the runner is *)
(* built on all of them; the decode graphs are then captured and requests   *)
(* served.  A failure anywhere destroys the members that exist, in the      *)
(* reverse order of their declaration, exactly as the engine's end does.    *)
(***************************************************************************)
EXTENDS ResidentLoader, SidecarAssets, DecodeGraph

VARIABLE
  life  \* how far build is: "load", "bind", "state", "assets", "runner",
        \* "built", then "destroy" and "gone"

lifeVars == <<loadVars, assetVars, vars, life>>

\* Impl's members that own something, in the order of their declaration.
Members == <<"resident">> \o Owners \o <<"weights", "request", "runner">>

LifeInit ==
  /\ LoadInit /\ AssetInit /\ Init /\ engine = "off" /\ life = "load"

-----------------------------------------------------------------------------
(* ReferenceEngine::Impl::build.                                            *)

\* load_pinned_qwen36_27b runs; nothing else exists yet.
LoadStep ==
  /\ life = "load" /\ LoadNext
  /\ UNCHANGED <<assetVars, vars, life>>

\* The loader has returned.  Only now does the route matter: build has checked
\* it, and the checkpoint decides which layers the scale6 layout can hold.
LoadReturned ==
  /\ life = "load" /\ main = "returned"
  /\ IF result = "ok"
     THEN /\ \E r \in {q \in Routes : ValidRoute(q)}, e \in SUBSET LayerIds :
               /\ route' = r /\ eligible' = e
               /\ cause' = (broken \/ Cardinality(e) # PinnedLayers)
          /\ result' = "moved" /\ alive' = {"resident"} /\ life' = "bind"
     ELSE life' = "gone" /\ UNCHANGED <<result, route, eligible, cause, alive>>
  /\ UNCHANGED <<manifest, main, held, staging, stream, broken, arena, next,
                 worker, outcome, faults, vars, todo, prep, packs, packed,
                 attached>>

\* build returns: what it was called with goes out of scope.
Forget == route' = NoRoute /\ eligible' = {}

BuildFails == life' = "destroy" /\ cause' = TRUE /\ Forget

\* bind_qwen36_27b_weights: a view of the arena, or the binding is rejected.
Bind ==
  /\ life = "bind"
  /\ \/ life' = "state" /\ alive' = alive \cup {"weights"}
        /\ UNCHANGED <<cause, route, eligible>>
     \/ BuildFails /\ UNCHANGED alive
  /\ UNCHANGED <<loadVars, vars, todo, prep, packs, packed, attached>>

\* create_request_state, on the device.
CreateState ==
  /\ life = "state"
  /\ \/ /\ ~broken /\ life' = "assets" /\ alive' = alive \cup {"request"}
        /\ todo' = Selection(route) /\ UNCHANGED <<cause, route, eligible>>
     \/ BuildFails /\ UNCHANGED <<alive, todo>>
  /\ UNCHANGED <<loadVars, vars, prep, packs, packed, attached>>

AssetStep ==
  /\ life = "assets" /\ PrepareNext
  /\ UNCHANGED <<loadVars, vars, life>>

\* A preparation the engine cannot do without has failed.
AssetsFail ==
  /\ life = "assets" /\ prep.pc = "failed"
  /\ life' = "destroy" /\ todo' = <<>> /\ prep' = NoPrep /\ Forget
  /\ UNCHANGED <<loadVars, vars, packs, alive, packed, attached, cause>>

\* create_reference_runner; the graph cache is never asked for with the
\* ahead-of-time layout.  From here on nothing reads the route.
CreateRunner ==
  /\ life = "assets" /\ prep.pc = "idle" /\ todo = <<>>
  /\ \/ /\ alive' = alive \cup {"runner"} /\ life' = "built"
        /\ engine' \in IF route.aot THEN {"off"} ELSE Configurations
        /\ Forget /\ UNCHANGED cause
     \/ BuildFails /\ UNCHANGED <<alive, engine>>
  /\ UNCHANGED <<loadVars, todo, prep, packs, packed, attached, phase, slots,
                 staged, graphs, owners, cap, cursor, entry, runner, ready,
                 req, served, ran, retired>>

\* The graph cache, the requests, and at last the runner's destructor.
RunnerStep ==
  /\ life = "built" /\ Next
  /\ IF phase' = "gone" THEN life' = "destroy" /\ alive' = alive \ {"runner"}
     ELSE UNCHANGED <<life, alive>>
  /\ UNCHANGED <<loadVars, route, eligible, todo, prep, packs, packed, attached,
                 cause>>

-----------------------------------------------------------------------------
(* Destruction.                                                             *)

NextMember == Members[Max({i \in DOMAIN Members : Members[i] \in alive})]

\* The weights take their pointers along, an owner its memory, the resident
\* weights the arena.
DestroyMember ==
  /\ life = "destroy" /\ alive # {}
  /\ alive' = alive \ {NextMember}
  /\ attached' = IF NextMember = "weights" THEN Nothing ELSE attached
  /\ packed' = [k \in Layouts |->
                  IF OwnerOf(k) = NextMember THEN {} ELSE packed[k]]
  /\ arena' = IF NextMember = "resident" THEN NoArena ELSE arena
  /\ UNCHANGED <<manifest, main, result, held, staging, stream, broken, next,
                 worker, outcome, faults, vars, route, eligible, todo, prep,
                 packs, cause, life>>

Destroyed ==
  /\ life = "destroy" /\ alive = {}
  /\ life' = "gone"
  /\ UNCHANGED <<loadVars, assetVars, vars>>

LifeNext ==
  \/ LoadStep \/ LoadReturned \/ Bind \/ CreateState \/ AssetStep \/ AssetsFail
  \/ CreateRunner \/ RunnerStep \/ DestroyMember \/ Destroyed

LifeSpec == LifeInit /\ [][LifeNext]_lifeVars

-----------------------------------------------------------------------------
(* Properties.                                                              *)

\* Nothing outlives what it points into, at any point of a build, of a build
\* that fails, and of the destruction.
LifetimesNest ==
  /\ PointersAreSound
  /\ \A k \in Layouts : attached[k] # {} => "weights" \in alive
  /\ "weights" \in alive \/ packs # <<>> => "resident" \in alive
  /\ "resident" \in alive => arena.live
  /\ "runner" \in alive => {"weights", "request"} \subseteq alive

\* The layouts that serve the NVFP4 and the FP8 projections of a prefill.
Nvfp4Layouts == {"nvfp4_marlin", "parity", "packed", "packed_v2", "target_aot"}
Fp8Layouts == {"supermatrix", "fp8_marlin", "packed"}
Served(ks) == {k \in ks : attached[k] # {}}

\* When the last preparation is done every projection has at most one prefill
\* layout, and a binary with the NVFP4 inventory gives a 512-token engine
\* exactly one.
LayoutsAreExclusive ==
  life = "assets" /\ prep.pc = "idle" /\ todo = <<>> =>
    /\ Cardinality(Served(Nvfp4Layouts)) <= 1
    /\ Cardinality(Served(Fp8Layouts)) <= 1
    /\ route.sm87 /\ route.chunk512 /\ route.nvfp4 => Served(Nvfp4Layouts) # {}
    /\ \A k \in Layouts \ Optional :
         k \in {Selection(route)[i] : i \in DOMAIN Selection(route)}
           <=> attached[k] # {}

\* ReferenceEngine::Impl: every lifetime nests in what it points into; the
\* layouts of an accepted route never exclude one another, so a build that
\* fails has a cause outside it; and nothing is left when the engine is gone.
EngineIsSound ==
  /\ LifetimesNest /\ LayoutsAreExclusive
  /\ prep.pc = "failed" => cause
  /\ life = "gone" => alive = {} /\ ~arena.live /\ packs = <<>>
=============================================================================
