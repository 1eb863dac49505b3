-------------------------- MODULE EngineInvariants --------------------------
(***************************************************************************)
(* The inductive invariants of one engine: what is true between any two     *)
(* steps of its loader, its layouts and its decode graphs, and makes the    *)
(* properties of EngineLifetime hold.  EngineProofs proves them.            *)
(***************************************************************************)
EXTENDS EngineLifetime, FiniteSets

-----------------------------------------------------------------------------
(* The loader: what is queued on a stream, and who may touch its buffers.   *)

\* A sequence of anything.
IsSeq(s) == s \in Seq({s[i] : i \in DOMAIN s})

WorkFields == {"pc", "shard", "offset", "pending", "hash", "copied", "copies"}
Chunk == [shard : Nat, begin : Nat, good : BOOLEAN]

Places == {"unborn", "start", "refused", "claim", "fill", "scatter", "sync",
           "ended"}
Idle == {"unborn", "refused", "ended"}

WorkerType(w) ==
  /\ IsSeq(stream[w])
  /\ DOMAIN worker[w] = WorkFields /\ worker[w].pc \in Places
  /\ worker[w].offset \in Nat /\ worker[w].copies \in Nat
  /\ worker[w].pc \in {"fill", "scatter", "sync"} => worker[w].shard \in Shards
  /\ staging[w] \in [0 .. StagingSlots - 1 -> Chunk]

\* The value sets of the loader, as far as the queues depend on them.
LoadTypes ==
  /\ manifest \in Manifests
  /\ main \in {"plan", "resources", "spawn", "join", "unwind", "returned"}
  /\ held \subseteq Threads
  /\ DOMAIN arena = {"live", "data"} /\ arena.live \in BOOLEAN
  /\ DOMAIN staging = Threads /\ DOMAIN stream = Threads
  /\ DOMAIN worker = Threads /\ next \in Nat \ {0}
  /\ \A w \in Threads : WorkerType(w)

\* Threads run while the caller spawns or joins them, in memory that is held.
Running ==
  /\ main = "plan" => held = {}
  /\ main \in {"plan", "resources"} =>
       \A w \in Threads : worker[w].pc = "unborn"
  /\ main \in {"spawn", "join"} => arena.live
  /\ main \in {"unwind", "returned"} =>
       \A w \in Threads : worker[w].pc \in Idle
  /\ main = "returned" => held = {}
  /\ life # "load" => main = "returned"
  /\ \A w \in Threads \ held :
       stream[w] = <<>> /\ worker[w].pc \in Idle

IsCopy(w, i) == stream[w][i].kind = "copy"

\* An event of the same buffer follows every copy of a worker that will fill
\* its buffers again, and the worker knows that the buffer is in use.
GuardedAt(w) ==
  /\ worker[w].pc \in {"unborn", "start", "refused", "claim"} => stream[w] = <<>>
  /\ worker[w].pc \in {"fill", "scatter", "sync"} =>
       \A i \in DOMAIN stream[w] : IsCopy(w, i) =>
         /\ stream[w][i].slot \in worker[w].pending
         /\ \E j \in DOMAIN stream[w] :
              /\ i < j /\ stream[w][j].kind = "event"
              /\ stream[w][j].slot = stream[w][i].slot

Guarded == \A w \in Threads : GuardedAt(w)

\* What is queued is still in its buffer.
Intact(w) ==
  \A i \in DOMAIN stream[w] :
    IsCopy(w, i) => /\ stream[w][i].slot \in 0 .. StagingSlots - 1
                    /\ staging[w][stream[w][i].slot] = stream[w][i].chunk

Queued == \A w \in Threads : Intact(w)

CopyInv == LoadTypes /\ Running /\ Guarded /\ Queued /\ CopiesAreSafe

-----------------------------------------------------------------------------
(* The decode graphs: what is true between any two calls.                   *)

Creating == {"create", "warmed", "probe", "prepare", "prepared", "rollback",
             "failed"}
Serving == {"serve", "request", "screening", "screen"}

GraphType == [pos : Int, tok : Tokens, nodes : {"none", "all", "embedding"}]
OwnerType == [refs : Int, shared : BOOLEAN, live : BOOLEAN, runs : GraphType]
CaptureType == [pc : {"none", "recording", "captured", "ready"},
                g : 0 .. MaxHandles, o : 0 .. MaxHandles, shared : BOOLEAN]

\* The value sets of the cache and of the runner.
HandleTypes ==
  /\ slots \in [Positions -> SlotType] /\ staged \in [Positions -> SlotType]
  /\ graphs \in [Handles -> GraphType] /\ owners \in [Handles -> OwnerType]
  /\ cap \in CaptureType

RunnerTypes ==
  /\ phase \in Creating \cup Serving \cup {"gone"}
  /\ cursor \in Nat /\ entry \in 0 .. Capacity
  /\ seq \in 0 .. Capacity /\ dirty \subseteq Positions
  /\ served \in Nat
  /\ req \in [mode : {"none", "ordinary", "prepared", "traced"}, replays : Nat]

FlagTypes ==
  /\ poisoned \in BOOLEAN /\ capturing \in BOOLEAN /\ ready \in BOOLEAN
  /\ retired \in BOOLEAN

\* Where a capture can be, and what creation has and has not done yet.
Flow ==
  /\ capturing <=> cap.pc = "recording"
  /\ cap.pc # "none" => phase \in {"prepare", "screening"} /\ seq \in Positions
  /\ phase = "screening" => cap.pc # "none"
  /\ phase = "prepare" => cursor \in First .. LastPosition + 1
  /\ cap.pc # "none" /\ phase = "prepare" => seq = cursor /\ cursor \in Window
  /\ phase \in Creating => served = 0 /\ ~ready /\ ~retired
  /\ phase \in Serving \ {"serve"} => served > 0
  /\ phase = "create" => seq = 0 /\ dirty = {} /\ ~poisoned
  /\ retired => ~ready

\* Slots exist only where the phase says so.  A preparation has filled the
\* positions before its cursor, all on the executable of the first one.
Filled ==
  /\ phase \in {"create", "warmed", "probe", "prepare"} =>
       \A p \in Positions : slots[p] = Empty
  /\ phase # "prepare" => \A p \in Positions : staged[p] = Empty
  /\ phase = "prepare" =>
       \A p \in Positions : /\ staged[p] # Empty <=> p \in First .. cursor - 1
                            /\ staged[p] # Empty => /\ staged[p].o = staged[First].o
                                                    /\ owners[staged[p].o].shared
  /\ phase = "gone" => \A p \in Positions : slots[p] = Empty
  /\ phase = "prepared" \/ (ready /\ phase # "gone") =>
       \A p \in Window : slots[p] # Empty

\* What a slot points at: a live executable and a graph of its own position; a
\* shared executable is brought to it from the whole graph, one of its own is at
\* this position already.
Sound(f) ==
  \A p \in Positions : f[p] # Empty =>
    /\ f[p].g \in Handles /\ f[p].o \in Handles
    /\ owners[f[p].o].live /\ graphs[f[p].g].pos = p
    /\ owners[f[p].o].shared => graphs[f[p].g].nodes = "all"
    /\ ~owners[f[p].o].shared => owners[f[p].o].runs.pos = p

\* The count of an executable is the number of its slots.
Counted ==
  \A h \in Handles :
    owners[h].refs = Refs(slots, Positions, h) + Refs(staged, Positions, h)

\* A slot of the cache, or of the running preparation, uses executable h.
Used(h) == \E p \in Positions : slots[p].o = h \/ staged[p].o = h
Kept(h) == \E p \in Positions : slots[p].g = h \/ staged[p].g = h

\* Nothing is leaked: every live handle is in a slot or in the capture.
NoOrphans ==
  \A h \in Handles : /\ owners[h].live => Used(h) \/ cap.o = h
                     /\ graphs[h] # Dead => Kept(h) \/ cap.g = h

\* What the capture in progress holds is in no slot, save the shared executable.
Capturing ==
  /\ cap.pc \in {"none", "recording"} => cap.g = 0
  /\ cap.pc \in {"captured", "ready"} =>
       /\ cap.g \in Handles /\ ~Kept(cap.g)
       /\ graphs[cap.g].pos = seq /\ graphs[cap.g].nodes = "all"
  /\ cap.pc # "ready" => cap.o = 0
  /\ cap.pc # "none" => (cap.shared <=> ForCache /\ cursor # First)
  /\ cap.pc = "ready" =>
       /\ cap.o \in Handles /\ owners[cap.o].live
       /\ cap.shared => cap.o = staged[First].o
       /\ ~cap.shared => /\ ~Used(cap.o) /\ (owners[cap.o].shared <=> ForCache)
                         /\ owners[cap.o].runs.pos = seq

GraphInv ==
  /\ HandleTypes /\ RunnerTypes /\ FlagTypes /\ Flow /\ Filled
  /\ Sound(slots) /\ Sound(staged) /\ Counted /\ NoOrphans /\ Capturing
  /\ CreationLeavesNoTrace /\ ReplaysOwnStep

-----------------------------------------------------------------------------
(* Build and destruction: who is alive, and what the preparations have done. *)

Elems(s) == {s[i] : i \in DOMAIN s}
MemberSet == Elems(Members)
Lives == {"load", "bind", "state", "assets", "built", "destroy", "gone"}
PrepPlaces == {"idle", "allocate", "pack", "release", "judge", "failed"}

\* The value sets of a build.
AssetTypes ==
  /\ route \in Route /\ eligible \in SUBSET LayerIds
  /\ todo \in Seq(Layouts)
  /\ prep \in [pc : PrepPlaces, kind : Layouts \cup {"none"},
               layers : SUBSET LayerIds]
  /\ packs \in Seq([kind : Layouts, layer : LayerIds])
  /\ alive \in SUBSET MemberSet
  /\ packed \in [Layouts -> SUBSET LayerIds]
  /\ attached \in [Layouts -> SUBSET LayerIds]
  /\ cause \in BOOLEAN /\ life \in Lives

\* The arena exists while the loader needs it, then while its owner does.
ArenaHeld ==
  /\ main \in {"plan", "resources"} => ~arena.live /\ result = "none"
  /\ main = "spawn" => result = "none"
  /\ main = "join" => result \in {"none", "failed"}
  /\ main = "unwind" => (result = "ok" => arena.live)
  /\ main = "returned" /\ life = "load" => (result = "ok" <=> arena.live)
  /\ life # "load" => ("resident" \in alive <=> arena.live)

\* The members that exist at each stage of build.
Stages ==
  /\ life = "load" => alive = {}
  /\ life = "bind" => alive = {"resident"}
  /\ life = "state" => alive = {"resident", "weights"}
  /\ life = "assets" => /\ {"resident", "weights", "request"} \subseteq alive
                        /\ "runner" \notin alive
  /\ life = "built" => {"resident", "weights", "request", "runner"} \subseteq alive
  /\ life = "gone" => alive = {}
  /\ life # "assets" => todo = <<>> /\ prep = NoPrep /\ packs = <<>>
  /\ life \in {"load", "bind", "state"} => attached = Nothing
  /\ life \in {"bind", "state", "assets"} =>
       ValidRoute(route) /\ (~cause => Cardinality(eligible) = PinnedLayers)

\* One preparation: what it still has to pack, what is queued, what it holds.
Preparing ==
  /\ prep.pc = "idle" => prep = NoPrep
  /\ prep.pc # "idle" => todo # <<>> /\ Kind = Head(todo)
  /\ prep.pc = "allocate" => OwnerOf(Kind) \notin alive /\ prep.layers = Wanted(Kind)
  /\ prep.pc \in {"pack", "release"} => OwnerOf(Kind) \in alive
  /\ prep.pc \in {"allocate", "pack"} => Wanted(Kind) # {}
  /\ prep.pc = "pack" =>
       \A l \in Wanted(Kind) : \/ l \in packed[Kind] \/ l \in prep.layers
                               \/ \E i \in DOMAIN packs : packs[i].layer = l
  /\ prep.pc \notin {"pack", "release"} => packs = <<>>
  /\ \A i \in DOMAIN packs : packs[i].kind = Kind
  /\ prep.pc \in {"release", "failed"} => cause
  /\ prep.pc = "judge" => attached[Kind] = Wanted(Kind)

\* Layouts that may follow one another: no two of one owner, and the consumer
\* order after the scales it is built from.
Fits(a, b) ==
  OwnerOf(a) # OwnerOf(b) /\ ~(a = "consumer_order" /\ b = "scale6")
Arranged(s) == \A i, j \in DOMAIN s : i < j => Fits(s[i], s[j])

\* A layout not attached yet: the one being judged is, the rest of todo is not.
Left(k) == k \in Elems(todo) /\ ~(prep.pc = "judge" /\ k = Kind)
Chosen == Elems(Selection(route))
Held(k) ==
  attached[k] # {} \/ (prep.pc \in {"pack", "release"} /\ k = Kind)

\* All preparations: every selected layout is still to come or attached, save an
\* optional one, and an owner's memory belongs to a selected layout.
Selected ==
  life = "assets" /\ prep.pc # "failed" =>
    /\ Arranged(todo) /\ Elems(todo) \subseteq Chosen
    /\ \A k \in Layouts : attached[k] # {} => k \in Chosen /\ ~Left(k)
    /\ \A k \in Chosen \ Optional : Left(k) \/ attached[k] # {}
    /\ "scale6" \in Chosen /\ ~Left("scale6") /\ ~cause =>
         attached["scale6"] = eligible
    /\ \A o \in alive \ {"resident", "weights", "request"} :
         \E k \in Chosen : OwnerOf(k) = o /\ Held(k)

AssetInv ==
  /\ AssetTypes /\ ArenaHeld /\ Stages /\ Preparing /\ Selected /\ LifetimesNest

-----------------------------------------------------------------------------
(* The plan of a load: the text tensors, and the sums over them.            *)

\* The text tensors, in the order of the plan.
TextTensors == {t \in manifest.tensors : t.text}
Before(t, u) == t.shard < u.shard \/ (t.shard = u.shard /\ t.begin < u.begin)
Indices == 1 .. Cardinality(TextTensors)

\* A checkpoint the plan accepts.
Planned == manifest \in Manifests /\ ValidManifest

\* The text tensors of a shard.
Index(s) == {i \in Indices : Tensors[i].shard = s}

\* The room each tensor takes in the arena.
Room == [i \in Indices |-> Aligned(Tensors[i])]

\* The bytes of tensor i before place o of its file, and the chunks among the
\* first q that touch it.
Part(i, o) ==
  IF o =< Tensors[i].begin THEN 0
  ELSE IF o >= Tensors[i].end THEN Bytes(Tensors[i]) ELSE o - Tensors[i].begin
FirstChunk(i) == Tensors[i].begin \div ChunkBytes
LastChunk(i) == (Tensors[i].end - 1) \div ChunkBytes
Hits(i, q) ==
  IF q =< FirstChunk(i) THEN 0
  ELSE IF q > LastChunk(i) THEN LastChunk(i) - FirstChunk(i) + 1
  ELSE q - FirstChunk(i)

Parts(o) == [i \in Indices |-> Part(i, o)]
HitsOf(q) == [i \in Indices |-> Hits(i, q)]
PartSum(s, o) == SumFunctionOnSet(Parts(o), Index(s))
HitSum(s, q) == SumFunctionOnSet(HitsOf(q), Index(s))

\* Where the first q chunks of a shard end.
EndOfChunk(s, q) ==
  LET o == q * ChunkBytes IN
  IF o =< manifest.sizes[s] THEN o ELSE manifest.sizes[s]

\* What the plan expects of every tensor.
ByteCounts == [i \in Indices |-> Bytes(Tensors[i])]
Spans == [i \in Indices |-> LastChunk(i) - FirstChunk(i) + 1]

-----------------------------------------------------------------------------
(* What a load keeps true.                                                  *)

Busy == {"fill", "scatter", "sync"}

\* The threads have been started, or may be: outcomes and arena exist.
Started == main \in {"spawn", "join", "unwind"} /\ arena.live

\* A byte of tensor i is where it belongs.
InArena(i, b) ==
  arena.data[ArenaOffset(i) + b] = <<Tensors[i].shard, Tensors[i].begin + b>>

\* A copy brings bytes of tensor i to where they belong.
Carries(op, i) ==
  /\ op.at \in Nat /\ op.from \in Nat /\ op.bytes \in Nat
  /\ ArenaOffset(i) =< op.at
  /\ op.at + op.bytes =< ArenaOffset(i) + Bytes(Tensors[i])
  /\ op.chunk.shard = Tensors[i].shard
  /\ op.chunk.begin + op.from + ArenaOffset(i) = Tensors[i].begin + op.at

Covers(op, i, b) ==
  Carries(op, i) /\ op.at =< ArenaOffset(i) + b /\ ArenaOffset(i) + b < op.at + op.bytes

\* A copy that is queued is of the worker's shard and within one tensor, and a
\* corrupt chunk has spoilt the hash.
AimedAt(w) ==
  \A n \in DOMAIN stream[w] : IsCopy(w, n) =>
    /\ stream[w][n].chunk.shard = worker[w].shard
    /\ stream[w][n].chunk.good \/ ~ worker[w].hash
    /\ \E i \in Indices : Carries(stream[w][n], i)

\* A worker has read whole chunks and counted what it copied of them.
CountedAt(w) ==
  worker[w].pc \in Busy =>
    /\ \E q \in Nat : /\ worker[w].offset = EndOfChunk(worker[w].shard, q)
                      /\ worker[w].copies = HitSum(worker[w].shard, q)
    /\ worker[w].copied = PartSum(worker[w].shard, worker[w].offset)
    /\ worker[w].offset =< Size(w)
    /\ worker[w].pc = "scatter" =>
         /\ worker[w].offset < Size(w)
         /\ staging[w][Slot(w)].shard = worker[w].shard
         /\ staging[w][Slot(w)].begin = worker[w].offset
         /\ staging[w][Slot(w)].good \/ ~ worker[w].hash
    /\ worker[w].pc = "sync" => worker[w].offset = Size(w) /\ worker[w].hash

\* What a worker has read is in the arena or on its way.
LandingAt(w) ==
  worker[w].pc \in Busy /\ worker[w].hash /\ ~ broken =>
    \A i \in Index(worker[w].shard) : \A b \in 0 .. Bytes(Tensors[i]) - 1 :
      Tensors[i].begin + b < worker[w].offset =>
        \/ InArena(i, b)
        \/ \E n \in DOMAIN stream[w] : IsCopy(w, n) /\ Covers(stream[w][n], i, b)

\* A shard reported as loaded is in the arena, with the statistics of the plan.
Arrived(s) ==
  outcome[s].status = "ok" =>
    /\ \A i \in Index(s) : \A b \in 0 .. Bytes(Tensors[i]) - 1 : InArena(i, b)
    /\ outcome[s].read = manifest.sizes[s]
    /\ outcome[s].copied = SumFunctionOnSet(ByteCounts, Index(s))
    /\ outcome[s].copies = SumFunctionOnSet(Spans, Index(s))

\* Which worker has which shard.
ClaimedBy(w) ==
  /\ worker[w].hash \in BOOLEAN
  /\ worker[w].pc \in Busy => worker[w].shard # 0
  /\ worker[w].pc \notin Busy \cup {"ended"} => worker[w].shard = 0
  /\ worker[w].shard = 0 => stream[w] = <<>>
  /\ worker[w].shard # 0 =>
       /\ worker[w].shard \in Shards /\ worker[w].shard < next
       /\ outcome[worker[w].shard].status =
            IF worker[w].pc \in Busy THEN "none" ELSE "failed"
  /\ worker[w].pc = "ended" /\ worker[w].shard = 0 => next > Len(manifest.sizes)

\* Shards are claimed in order, each by one worker, which reports it.
Claims ==
  /\ DOMAIN outcome = Shards
  /\ \A s \in Shards :
       /\ "status" \in DOMAIN outcome[s]
       /\ outcome[s].status \in {"none", "ok", "failed"}
       /\ s >= next => outcome[s].status = "none"
       /\ s < next /\ outcome[s].status = "none" =>
            \E w \in Threads : worker[w].pc \in Busy /\ worker[w].shard = s
  /\ \A v, w \in Threads : worker[v].shard = worker[w].shard =>
       v = w \/ worker[v].shard = 0

\* Nothing fails without a cause.
Causes ==
  /\ faults \in Nat /\ broken \in BOOLEAN
  /\ main # "returned" =>
       /\ broken => faults > 0
       /\ \A w \in Threads :
            worker[w].pc = "refused" \/ ~ worker[w].hash => faults > 0
       /\ Started => \A s \in Shards : outcome[s].status = "failed" => faults > 0
  /\ result = "failed" => faults > 0

\* Where the calling thread is and what it knows.
Progress ==
  /\ main \in {"plan", "resources"} =>
       result = "none" /\ worker = NoWorkers /\ next = 1 /\ ~ arena.live
  /\ main \in {"spawn", "join"} => held # {}
  /\ main = "spawn" => result = "none"
  /\ main = "join" =>
       /\ result \in {"none", "failed"}
       /\ result = "none" => \A w \in held : worker[w].pc # "unborn"
  /\ main = "unwind" =>
       /\ result \in {"ok", "failed"}
       /\ result = "ok" => arena.live /\ \A s \in Shards : outcome[s].status = "ok"
  /\ main = "returned" =>
       /\ result \in {"ok", "refused", "failed", "moved"}
       /\ result = "ok" => arena.live /\ Resident
       /\ result \in {"refused", "failed"} => ~ arena.live
  /\ life = "load" => result # "moved"
  /\ life # "load" => \/ result = "moved"
                      \/ life = "gone" /\ result \in {"refused", "failed"}

LoadInv ==
  /\ main \notin {"plan", "returned"} => Planned /\ PlannedCopies =< MaxCopies
  /\ Causes /\ Progress
  /\ Started =>
       /\ DOMAIN arena.data = 0 .. ArenaBytes - 1
       /\ Claims
       /\ \A s \in Shards : Arrived(s)
       /\ \A w \in Threads :
            ClaimedBy(w) /\ AimedAt(w) /\ CountedAt(w) /\ LandingAt(w)

\* Every thread has one queue of its own, whatever is in it.
OneQueueEach == stream = [w \in Threads |-> stream[w]]

=============================================================================
