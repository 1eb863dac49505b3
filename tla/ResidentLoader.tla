--------------------------- MODULE ResidentLoader ---------------------------
(***************************************************************************)
(* load_resident_weights: the parallel loader that authenticates every      *)
(* checkpoint shard and scatters its text tensors into one device arena.    *)
(*                                                                          *)
(* Each worker thread owns a CUDA stream and two pinned staging buffers.    *)
(* It claims shards from a shared counter, reads a shard in chunks, hashes  *)
(* each chunk, and queues copies from the staging buffer to the arena; the  *)
(* device runs the queue later.  An event recorded after the copies of a    *)
(* chunk tells when its buffer may be filled again.  The main thread joins  *)
(* the workers, judges what they report, and unwinds: threads, then streams *)
(* and staging, then - after a failure - the arena.                         *)
(***************************************************************************)
EXTENDS Integers, Sequences, FiniteSetsExt

CONSTANTS
  Workers,     \* number of worker threads: max_parallel_shards
  ChunkBytes,  \* options.chunk_bytes
  Alignment,   \* kResidentTensorAlignment
  MaxCopies,   \* options.max_memcpy_operations
  Manifests,   \* checkpoints: the size of each shard and the tensors in them
  MaxFaults    \* bound: failing calls, corrupt reads and device errors

StagingSlots == 2

\* A manifest: sizes of the shards, in name order, and its tensor locators.
Locator == [name : STRING, shard : Nat, begin : Nat, end : Nat, text : BOOLEAN]

ASSUME LoaderAssumption ==
  /\ Workers \in Nat \ {0} /\ ChunkBytes \in Nat \ {0}
  /\ Alignment \in Nat \ {0} /\ MaxCopies \in Nat /\ MaxFaults \in Nat
  /\ \A m \in Manifests :
       /\ m.sizes \in Seq(Nat \ {0})
       /\ m.tensors \subseteq Locator /\ IsFiniteSet(m.tensors)

Threads == 1 .. Workers

VARIABLES
  manifest,  \* the checkpoint this call loads
  main,      \* where the calling thread is
  result,    \* what the call returns: "none" until it does
  held,      \* workers whose stream and staging exist
  staging,   \* staging[w][slot]: the chunk the buffer holds
  stream,    \* copies and events queued on each worker's stream
  broken,    \* a device error: every stream is dead and says so
  arena,     \* the device arena and the bytes in it
  next,      \* next_shard
  worker,    \* each worker thread
  outcome,   \* shard_outcomes and shard_exceptions
  faults     \* calls that failed so far

threadVars == <<next, worker, outcome>>
deviceVars == <<staging, stream, broken, arena>>
loadVars == <<manifest, main, result, held, staging, stream, broken, arena,
              next, worker, outcome, faults>>

NoChunk == [shard |-> 0, begin |-> 0, good |-> TRUE]
NoArena == [live |-> FALSE, data |-> <<>>]
NoWork == [pc |-> "unborn", shard |-> 0, offset |-> 0, pending |-> {},
           hash |-> TRUE, copied |-> 0, copies |-> 0]
NoOutcome == [status |-> "none", read |-> 0, copied |-> 0, copies |-> 0]

EmptyStaging == [w \in Threads |-> [s \in 0 .. StagingSlots - 1 |-> NoChunk]]
NoStreams == [w \in Threads |-> <<>>]
NoWorkers == [w \in Threads |-> NoWork]

LoadInit ==
  /\ manifest \in Manifests /\ main = "plan" /\ result = "none"
  /\ held = {} /\ staging = EmptyStaging /\ stream = NoStreams
  /\ broken = FALSE /\ arena = NoArena
  /\ next = 1 /\ worker = NoWorkers /\ outcome = <<>> /\ faults = 0

-----------------------------------------------------------------------------
(* build_resident_load_plan.                                                *)

Shards == 1 .. Len(manifest.sizes)
Locators(s) == {t \in manifest.tensors : t.shard = s}

\* Every tensor lies in a known shard, ranges are not empty and do not overlap,
\* every shard holds a tensor, and some tensor is text.
ValidManifest ==
  /\ Shards # {}
  /\ \A t \in manifest.tensors :
       t.shard \in Shards /\ t.begin < t.end /\ t.end <= manifest.sizes[t.shard]
  /\ \A s \in Shards : Locators(s) # {}
  /\ \A t, u \in manifest.tensors :
       t.shard = u.shard /\ t # u => t.end <= u.begin \/ u.end <= t.begin
  /\ \E t \in manifest.tensors : t.text

\* The members of S in the order of before: each has its rank as its index.
InOrder(S, before(_, _)) ==
  [i \in 1 .. Cardinality(S) |->
     CHOOSE x \in S : Cardinality({y \in S : before(y, x)}) = i - 1]

\* The text tensors in arena order: by shard, then by position in the file.
Tensors ==
  InOrder({t \in manifest.tensors : t.text},
          LAMBDA t, u : \/ t.shard < u.shard
                        \/ t.shard = u.shard /\ t.begin < u.begin)

AlignUp(n) == ((n + Alignment - 1) \div Alignment) * Alignment
Total(f(_), seq) == SumFunction([i \in DOMAIN seq |-> f(seq[i])])
Bytes(t) == t.end - t.begin
Aligned(t) == AlignUp(Bytes(t))

ArenaOffset(i) == Total(Aligned, SubSeq(Tensors, 1, i - 1))
ArenaBytes == Total(Aligned, Tensors)
CopiedBytes == Total(Bytes, Tensors)
SourceBytes == SumFunction(manifest.sizes)

\* One copy for every chunk of the file a tensor touches.
PlannedCopies ==
  Total(LAMBDA t : (t.end - 1) \div ChunkBytes - t.begin \div ChunkBytes + 1,
        Tensors)

\* The scatter loop: the part of every text tensor of the shard in a chunk.
Scatter(s, from, to) ==
  LET touched == InOrder({i \in DOMAIN Tensors :
                            /\ Tensors[i].shard = s
                            /\ Tensors[i].begin < to /\ from < Tensors[i].end}, <)
      copy(i) == LET t == Tensors[i]
                     begin == Max({t.begin, from})
                 IN  [at |-> ArenaOffset(i) + (begin - t.begin),
                      from |-> begin - from,
                      bytes |-> Min({t.end, to}) - begin]
  IN  [k \in 1 .. Len(touched) |-> copy(touched[k])]

-----------------------------------------------------------------------------
(* The device.                                                              *)

\* A queued copy reads the buffer when it runs, not when it was queued.
Copied(w, c) ==
  LET chunk == staging[w][c.slot]
      byte(b) == IF chunk.good THEN <<chunk.shard, chunk.begin + c.from + b>>
                 ELSE <<0, 0>>
  IN  [a \in DOMAIN arena.data |->
         IF a \in c.at .. c.at + c.bytes - 1 THEN byte(a - c.at)
         ELSE arena.data[a]]

Execute(w) ==
  /\ stream[w] # <<>>
  /\ stream' = [stream EXCEPT ![w] = Tail(@)]
  /\ LET op == Head(stream[w])
     IN  arena' = IF op.kind = "copy" /\ arena.live
                  THEN [arena EXCEPT !.data = Copied(w, op)] ELSE arena
  /\ UNCHANGED <<manifest, main, result, held, staging, broken, next, worker,
                 outcome, faults>>

Faulty == faults < MaxFaults /\ faults' = faults + 1

\* A device error drops what is queued; later calls report it.
DeviceBreaks ==
  /\ ~broken /\ held # {} /\ Faulty
  /\ broken' = TRUE /\ stream' = NoStreams
  /\ UNCHANGED <<manifest, main, result, held, staging, arena, next, worker,
                 outcome>>

-----------------------------------------------------------------------------
(* load_one_shard, by worker w.                                             *)

Size(w) == manifest.sizes[worker[w].shard]
Slot(w) == (worker[w].offset \div ChunkBytes) % StagingSlots
ChunkEnd(w) == Min({worker[w].offset + ChunkBytes, Size(w)})

\* The thread records the shard's outcome and ends: a failed shard may have
\* copies outstanding, so its buffers must not be filled again.
Abandon(w) ==
  /\ outcome' = [outcome EXCEPT ![worker[w].shard].status = "failed"]
  /\ worker' = [worker EXCEPT ![w].pc = "ended"]
  /\ UNCHANGED next

\* cudaSetDevice in the new thread.
Start(w) ==
  /\ worker[w].pc = "start"
  /\ \/ Faulty /\ worker' = [worker EXCEPT ![w].pc = "refused"]
     \/ ~broken /\ worker' = [worker EXCEPT ![w].pc = "claim"] /\ UNCHANGED faults
     \/ broken /\ worker' = [worker EXCEPT ![w].pc = "refused"] /\ UNCHANGED faults
  /\ UNCHANGED <<manifest, main, result, held, deviceVars, next, outcome>>

\* next_shard.fetch_add: shards are claimed in order, each once.
Claim(w) ==
  /\ worker[w].pc = "claim"
  /\ next' = next + 1
  /\ worker' = [worker EXCEPT ![w] =
                  IF next \in Shards
                  THEN [NoWork EXCEPT !.pc = "fill", !.shard = next]
                  ELSE [@ EXCEPT !.pc = "ended"]]
  /\ UNCHANGED <<manifest, main, result, held, deviceVars, outcome, faults>>

\* Mutant: the buffer is filled without waiting for its event.
SlotFreeAlways(w) == TRUE

\* cudaEventSynchronize: a used buffer is free once its last event has run.
SlotFree(w) ==
  Slot(w) \in worker[w].pending =>
    \A i \in DOMAIN stream[w] :
      ~(stream[w][i].kind = "event" /\ stream[w][i].slot = Slot(w))

\* Wait for the buffer, read the next chunk into it and hash it.  The bytes may
\* differ from the authenticated ones; a failing or short read ends the shard.
Fill(w) ==
  /\ worker[w].pc = "fill" /\ worker[w].offset < Size(w) /\ SlotFree(w)
  /\ \/ \E good \in BOOLEAN :
          /\ IF good THEN UNCHANGED faults ELSE Faulty
          /\ ~(broken /\ Slot(w) \in worker[w].pending)
          /\ staging' = [staging EXCEPT ![w][Slot(w)] =
                           [shard |-> worker[w].shard,
                            begin |-> worker[w].offset, good |-> good]]
          /\ worker' = [worker EXCEPT ![w].pc = "scatter",
                                      ![w].hash = @ /\ good]
          /\ UNCHANGED <<next, outcome>>
     \/ /\ \/ Faulty
           \/ broken /\ Slot(w) \in worker[w].pending /\ UNCHANGED faults
        /\ Abandon(w) /\ UNCHANGED staging
  /\ UNCHANGED <<manifest, main, result, held, stream, broken, arena>>

\* Queue the copies of the chunk, then the event that frees its buffer.  Any of
\* the calls may fail and leave the copies before it queued.
Enqueue(w) ==
  LET copies == Scatter(worker[w].shard, worker[w].offset, ChunkEnd(w))
      ops(n) == [k \in 1 .. n |->
                   [kind |-> "copy", slot |-> Slot(w), at |-> copies[k].at,
                    from |-> copies[k].from, bytes |-> copies[k].bytes,
                    chunk |-> staging[w][Slot(w)]]]
      event == [kind |-> "event", slot |-> Slot(w)]
      allowed == Min({Len(copies), MaxCopies - worker[w].copies})
  IN
  /\ worker[w].pc = "scatter"
  /\ \/ /\ ~broken /\ allowed = Len(copies)
        /\ stream' = [stream EXCEPT ![w] = (@ \o ops(allowed)) \o <<event>>]
        /\ worker' = [worker EXCEPT
             ![w].pc = "fill", ![w].offset = ChunkEnd(w),
             ![w].pending = @ \cup {Slot(w)},
             ![w].copied = @ + Total(LAMBDA c : c.bytes, copies),
             ![w].copies = @ + Len(copies)]
        /\ UNCHANGED <<next, outcome, faults>>
     \/ /\ \E n \in 0 .. allowed :
             stream' = IF broken THEN stream
                       ELSE [stream EXCEPT ![w] = @ \o ops(n)]
        /\ \/ Faulty
           \/ (broken \/ allowed < Len(copies)) /\ UNCHANGED faults
        /\ Abandon(w)
  /\ UNCHANGED <<manifest, main, result, held, staging, broken, arena>>

\* The whole file was read: it must end here, have kept its size, and its
\* digest must be the authenticated one.
Authenticate(w) ==
  /\ worker[w].pc = "fill" /\ worker[w].offset = Size(w)
  /\ \/ worker[w].hash /\ worker' = [worker EXCEPT ![w].pc = "sync"]
        /\ UNCHANGED <<next, outcome, faults>>
     \/ ~worker[w].hash /\ Abandon(w) /\ UNCHANGED faults
     \/ Faulty /\ Abandon(w)
  /\ UNCHANGED <<manifest, main, result, held, deviceVars>>

\* Mutant: the shard is reported while its copies are queued.
DrainedNot(w) == TRUE

\* cudaStreamSynchronize returns when the queue has run, or with its error.
Drained(w) == stream[w] = <<>>

\* The stream is drained before the shard counts as loaded: the next shard
\* starts with no buffer marked as in use.
Sync(w) ==
  /\ worker[w].pc = "sync" /\ Drained(w)
  /\ \/ /\ ~broken
        /\ outcome' = [outcome EXCEPT ![worker[w].shard] =
             [status |-> "ok", read |-> Size(w), copied |-> worker[w].copied,
              copies |-> worker[w].copies]]
        /\ worker' = [worker EXCEPT ![w] = [NoWork EXCEPT !.pc = "claim"]]
        /\ UNCHANGED <<next, faults>>
     \/ (Faulty \/ (broken /\ UNCHANGED faults)) /\ Abandon(w)
  /\ UNCHANGED <<manifest, main, result, held, deviceVars>>

WorkerStep(w) ==
  Start(w) \/ Claim(w) \/ Fill(w) \/ Enqueue(w) \/ Authenticate(w) \/ Sync(w)

-----------------------------------------------------------------------------
(* load_resident_weights, on the calling thread.                            *)

\* Options, plan, limits, hash backend, directory and shard files: any of them
\* may refuse the call before something is allocated.
Plan ==
  /\ main = "plan"
  /\ \/ /\ ValidManifest /\ PlannedCopies <= MaxCopies
        /\ main' = "resources" /\ UNCHANGED <<result, faults>>
     \/ /\ ~(ValidManifest /\ PlannedCopies <= MaxCopies)
        /\ main' = "returned" /\ result' = "refused" /\ UNCHANGED faults
     \/ Faulty /\ main' = "returned" /\ result' = "failed"
  /\ UNCHANGED <<manifest, held, deviceVars, threadVars>>

\* Stream, events and staging of the next worker; a failing call unwinds.
AllocateWorker ==
  /\ main = "resources" /\ Cardinality(held) < Min({Workers, Len(manifest.sizes)})
  /\ \/ ~broken /\ held' = held \cup {Cardinality(held) + 1}
        /\ UNCHANGED <<main, result, faults>>
     \/ /\ (Faulty \/ (broken /\ UNCHANGED faults))
        /\ main' = "unwind" /\ result' = "failed" /\ UNCHANGED held
  /\ UNCHANGED <<manifest, deviceVars, threadVars>>

\* The memory check, the arena, and the vectors of outcomes.
AllocateArena ==
  /\ main = "resources" /\ Cardinality(held) = Min({Workers, Len(manifest.sizes)})
  /\ \/ /\ ~broken
        /\ arena' = [live |-> TRUE,
                     data |-> [a \in 0 .. ArenaBytes - 1 |-> <<0, 0>>]]
        /\ outcome' = [s \in Shards |-> NoOutcome]
        /\ main' = "spawn" /\ UNCHANGED <<result, faults>>
     \/ /\ (Faulty \/ (broken /\ UNCHANGED faults))
        /\ main' = "unwind" /\ result' = "failed" /\ UNCHANGED <<arena, outcome>>
  /\ UNCHANGED <<manifest, held, staging, stream, broken, next, worker>>

Unborn == {w \in held : worker[w].pc = "unborn"}

\* The next worker thread; when none can be created the exception unwinds
\* through JoiningThreads, with the threads before it still running.
Spawn ==
  /\ main = "spawn" /\ Unborn # {}
  /\ \/ worker' = [worker EXCEPT ![Min(Unborn)].pc = "start"]
        /\ UNCHANGED <<main, result, faults>>
     \/ Faulty /\ main' = "join" /\ result' = "failed" /\ UNCHANGED worker
  /\ UNCHANGED <<manifest, held, deviceVars, next, outcome>>

Spawned ==
  /\ main = "spawn" /\ Unborn = {} /\ main' = "join"
  /\ UNCHANGED <<manifest, result, held, deviceVars, threadVars, faults>>

\* The bad shard reported first, in index order; 0 when every one is loaded.
FirstBad ==
  LET bad == {s \in Shards : outcome[s].status # "ok"}
  IN  IF bad = {} THEN 0 ELSE Min(bad)

\* The statistics of the shards must agree with the plan.
Agrees ==
  /\ Total(LAMBDA o : o.read, outcome) = SourceBytes
  /\ Total(LAMBDA o : o.copied, outcome) = CopiedBytes
  /\ Total(LAMBDA o : o.copies, outcome) = PlannedCopies
  /\ CopiedBytes =< SourceBytes

\* What the joined threads report: a refused worker, then the first bad shard,
\* then the statistics.
Verdict ==
  IF \E w \in held : worker[w].pc = "refused" THEN "failed"
  ELSE IF FirstBad # 0
       THEN IF outcome[FirstBad].status = "none" THEN "unattempted" ELSE "failed"
  ELSE IF Agrees THEN "ok" ELSE "disagrees"

\* threads.join_all and the judgement; or the join of an unwinding exception.
Join ==
  /\ main = "join"
  /\ \A w \in held : worker[w].pc \in {"unborn", "ended", "refused"}
  /\ result' = IF result = "none" THEN Verdict ELSE result
  /\ main' = "unwind"
  /\ UNCHANGED <<manifest, held, deviceVars, threadVars, faults>>

\* ~CudaWorkerResources: drain the stream, then free events and staging.
FreeWorker(w) ==
  /\ main = "unwind" /\ w \in held /\ w = Min(held) /\ Drained(w)
  /\ held' = held \ {w}
  /\ staging' = [staging EXCEPT ![w] = EmptyStaging[w]]
  /\ UNCHANGED <<manifest, main, result, stream, broken, arena, threadVars,
                 faults>>

\* The arena was declared before the workers' resources, so it goes last.
Unwound == held = {}

\* The result takes the arena over; after a failure ~CudaArena frees it.  What
\* the call kept on its stack is gone.
Return ==
  /\ main = "unwind" /\ Unwound
  /\ main' = "returned"
  /\ arena' = IF result = "ok" THEN arena ELSE NoArena
  /\ next' = 1 /\ worker' = NoWorkers /\ outcome' = <<>>
  /\ faults' = IF result = "ok" THEN 0 ELSE faults
  /\ UNCHANGED <<manifest, result, held, staging, stream, broken>>

LoadNext ==
  \/ Plan \/ AllocateWorker \/ AllocateArena \/ Spawn \/ Spawned \/ Join
  \/ Return \/ DeviceBreaks
  \/ \E w \in Threads : Execute(w) \/ WorkerStep(w) \/ FreeWorker(w)

-----------------------------------------------------------------------------
(* Properties.                                                              *)

\* load_one_shard, ~CudaWorkerResources and ~CudaArena: a copy that the device
\* has yet to run finds in its staging buffer the chunk it was queued for, and
\* both the buffer and the arena still allocated - across chunks, across the
\* shards of one worker, and on every failing path.
CopiesAreSafe ==
  \A w \in Threads : \A i \in DOMAIN stream[w] :
    stream[w][i].kind = "copy" =>
      /\ w \in held /\ arena.live
      /\ staging[w][stream[w][i].slot] = stream[w][i].chunk

\* The arena holds every text tensor at its own aligned place.
Resident ==
  \A i \in DOMAIN Tensors : \A b \in 0 .. Bytes(Tensors[i]) - 1 :
    /\ ArenaOffset(i) % Alignment = 0
    /\ arena.data[ArenaOffset(i) + b] = <<Tensors[i].shard, Tensors[i].begin + b>>

\* load_resident_weights: a successful call hands over an arena that holds the
\* authenticated bytes of every text tensor, with nothing queued; any other
\* frees it.  A call fails only when something did fail, and never with the two
\* diagnostics it keeps for impossible cases: a shard nobody attempted, and
\* statistics that disagree with the plan.
LoadIsSound ==
  /\ result \notin {"unattempted", "disagrees"}
  /\ result = "failed" => faults > 0
  /\ main = "returned" =>
       /\ held = {} /\ stream = NoStreams
       /\ result = "ok" => arena.live /\ Resident
       /\ result \in {"refused", "failed"} => ~arena.live
=============================================================================
