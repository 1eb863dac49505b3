---------------------------- MODULE EngineProofs ----------------------------
(***************************************************************************)
(* One engine from its creation to its destruction, for every checkpoint,   *)
(* number of workers, chunk size, window and number of requests:            *)
(*                                                                          *)
(*  - a queued copy of the loader finds its buffer, its bytes and its arena *)
(*    (CopiesAreSafe): an event follows every copy of a worker that will    *)
(*    fill its buffers again, and the worker waits for it (Guarded);        *)
(*  - the decode graph cache frees every handle exactly once                *)
(*    (HandlesAreSound), replays the step it is asked for (ReplaysOwnStep)  *)
(*    and leaves creation clean (CreationIsSound): the count of a shared    *)
(*    executable is the number of its slots (Counted), and every slot has a *)
(*    graph of its own position (Sound);                                    *)
(*  - a built engine has exactly the layouts its route selected, each whole *)
(*    and of one owner, and no pointer outlives the memory it points into   *)
(*    (EngineIsSound): every selected layout is still to come, in an order  *)
(*    its owners allow, or attached (Selected, Preparing);                  *)
(*  - a load that succeeds hands over an arena with the bytes of every text *)
(*    tensor, one that fails had a cause and frees it, and the impossible   *)
(*    diagnostics stay impossible (LoadIsSound): a byte a worker has read   *)
(*    is in the arena or in a queued copy (LandingAt), and what it counted  *)
(*    is the sum over the chunks it has read (CountedAt).                   *)
(***************************************************************************)
EXTENDS EngineInvariants, FiniteSetTheorems, SequenceTheorems, TLAPS

-----------------------------------------------------------------------------
\* The least number principle, for a set.
LEMMA Least ==
  ASSUME NEW T, T \subseteq Nat, T # {}
  PROVE  Min(T) \in T /\ \A y \in T : Min(T) =< y
<1>1. \E x \in T : \A y \in T : <<y, x>> \notin OpToRel(<, Nat)
  <2> DEFINE R == OpToRel(<, Nat)
  <2>1. IsWellFoundedOn(R, Nat)
    BY NatLessThanWellFounded
  <2> HIDE DEF R
  <2>2. \E x \in T : \A y \in T : <<y, x>> \notin R
    BY <2>1, WFMin
  <2> QED BY <2>2 DEF R
<1>2. \A x, y \in Nat : <<y, x>> \notin OpToRel(<, Nat) => x =< y
  BY DEF OpToRel
<1>3. \E x \in T : \A y \in T : x =< y
  BY <1>1, <1>2
<1> QED BY <1>3 DEF Min

USE LoaderAssumption

\* The smaller of two.
LEMMA MinOfTwo ==
  ASSUME NEW a \in Int, NEW b \in Int
  PROVE  Min({a, b}) \in {a, b} /\ Min({a, b}) =< a /\ Min({a, b}) =< b
<1>1. \E x \in {a, b} : \A y \in {a, b} : x =< y
  <2>1. a =< b \/ b =< a
    OBVIOUS
  <2> QED BY <2>1
<1> QED BY <1>1 DEF Min

\* The staging buffer of an offset is one of the two.
LEMMA SlotRange ==
  ASSUME NEW a \in Nat, NEW b \in Nat \ {0}
  PROVE  (a \div b) % 2 \in 0 .. 1
<1>1. a \div b \in Nat
  OBVIOUS
<1> QED BY <1>1

\* A sequence over any set is one over its own members.
LEMMA IsSeqOf ==
  ASSUME NEW S, NEW s \in Seq(S)
  PROVE  IsSeq(s) /\ DOMAIN s = 1 .. Len(s) /\ Len(s) \in Nat
<1>1. DOMAIN s = 1 .. Len(s) /\ Len(s) \in Nat
  OBVIOUS
<1> DEFINE R == {s[i] : i \in DOMAIN s}
<1>2. s = [i \in 1 .. Len(s) |-> s[i]]
  OBVIOUS
<1>3. \A i \in 1 .. Len(s) : s[i] \in R
  BY <1>1
<1>4. s \in Seq(R)
  <2> HIDE DEF R
  <2> QED BY <1>1, <1>2, <1>3
<1> QED BY <1>1, <1>4 DEF IsSeq

\* Queuing behind what is queued.
LEMMA ConcatFacts ==
  ASSUME NEW s, IsSeq(s), NEW t, IsSeq(t)
  PROVE  /\ IsSeq(s \o t) /\ Len(s) \in Nat /\ Len(t) \in Nat
         /\ DOMAIN s = 1 .. Len(s) /\ DOMAIN t = 1 .. Len(t)
         /\ DOMAIN (s \o t) = 1 .. Len(s) + Len(t)
         /\ \A i \in 1 .. Len(s) + Len(t) :
              (s \o t)[i] = IF i =< Len(s) THEN s[i] ELSE t[i - Len(s)]
<1> DEFINE S == {s[i] : i \in DOMAIN s} \cup {t[i] : i \in DOMAIN t}
<1>1. s \in Seq(S) /\ t \in Seq(S)
  <2>1. s \in Seq({s[i] : i \in DOMAIN s}) /\ t \in Seq({t[i] : i \in DOMAIN t})
    BY DEF IsSeq
  <2> QED BY <2>1
<1> HIDE DEF S
<1>2. s \o t \in Seq(S)
  BY <1>1
<1>3. IsSeq(s \o t)
  BY <1>2, IsSeqOf
<1>4. /\ Len(s) \in Nat /\ Len(t) \in Nat
      /\ DOMAIN s = 1 .. Len(s) /\ DOMAIN t = 1 .. Len(t)
  BY <1>1
<1>5. Len(s \o t) = Len(s) + Len(t)
  BY <1>1
<1>6. \A i \in 1 .. Len(s) + Len(t) :
        (s \o t)[i] = IF i =< Len(s) THEN s[i] ELSE t[i - Len(s)]
  BY <1>1, <1>4
<1>7. DOMAIN (s \o t) = 1 .. Len(s) + Len(t)
  BY <1>2, <1>5
<1> QED BY <1>3, <1>4, <1>6, <1>7

\* The first members of a queue are gone one by one.
LEMMA TailFacts ==
  ASSUME NEW s, IsSeq(s), s # <<>>
  PROVE  /\ IsSeq(Tail(s))
         /\ \A i \in DOMAIN Tail(s) : i + 1 \in DOMAIN s /\ Tail(s)[i] = s[i + 1]
         /\ \A i \in DOMAIN s : i > 1 => i - 1 \in DOMAIN Tail(s)
         /\ DOMAIN s = 1 .. Len(s) /\ DOMAIN Tail(s) = 1 .. Len(s) - 1
         /\ Len(s) \in Nat
<1> DEFINE S == {s[i] : i \in DOMAIN s}
<1>1. s \in Seq(S)
  BY DEF IsSeq
<1>2. /\ DOMAIN s = 1 .. Len(s) /\ Len(s) \in Nat
  <2> HIDE DEF S
  <2> QED BY <1>1
<1>3. /\ Tail(s) \in Seq(S) /\ DOMAIN Tail(s) = 1 .. Len(s) - 1
      /\ \A i \in 1 .. Len(s) - 1 : Tail(s)[i] = s[i + 1]
  <2> HIDE DEF S
  <2> QED BY <1>1
<1>4. IsSeq(Tail(s))
  BY <1>2, <1>3, IsSeqOf
<1> QED BY <1>2, <1>3, <1>4

-----------------------------------------------------------------------------
(* The loader keeps its queues safe.                                        *)

\* The scatter loop of a chunk is a finite list of copies.
LEMMA ScatterIsSeq ==
  ASSUME LoadTypes, NEW s, NEW from, NEW to
  PROVE  /\ Len(Scatter(s, from, to)) \in Nat
         /\ DOMAIN Scatter(s, from, to) = 1 .. Len(Scatter(s, from, to))
<1> DEFINE Text == {t \in manifest.tensors : t.text}
           I == {i \in DOMAIN Tensors : /\ Tensors[i].shard = s
                                        /\ Tensors[i].begin < to
                                        /\ from < Tensors[i].end}
           n == Cardinality(Text)
           m == Cardinality(I)
<1>1. IsFiniteSet(Text) /\ n \in Nat
  <2>1. IsFiniteSet(manifest.tensors) /\ Text \subseteq manifest.tensors
    BY DEF LoadTypes
  <2> HIDE DEF Text
  <2> QED BY <2>1, FS_Subset, FS_CardinalityType
<1>2. DOMAIN Tensors = 1 .. n
  BY DEF Tensors, InOrder
<1>3. m \in Nat
  <2>1. IsFiniteSet(1 .. n)
    <3> HIDE DEF n
    <3> QED BY <1>1, FS_Interval
  <2>2. I \subseteq 1 .. n
    BY <1>2
  <2> HIDE DEF I, n
  <2> QED BY <2>1, <2>2, FS_Subset, FS_CardinalityType
<1> DEFINE e(i) == CHOOSE x \in I : Cardinality({y \in I : y < x}) = i - 1
           touched == [i \in 1 .. m |-> e(i)]
<1>4. Len(touched) = m
  <2> HIDE DEF m, e
  <2> QED BY <1>3
<1>5. DOMAIN Scatter(s, from, to) = 1 .. Len(touched)
  BY DEF Scatter, InOrder
<1>6. \E c : Scatter(s, from, to) = [k \in 1 .. m |-> c[k]]
  <2>1. Scatter(s, from, to) = [k \in 1 .. m |-> Scatter(s, from, to)[k]]
    <3> HIDE DEF touched, m
    <3> QED BY <1>4, <1>5 DEF Scatter
  <2> QED BY <2>1
<1>7. PICK c : Scatter(s, from, to) = [k \in 1 .. m |-> c[k]]
  BY <1>6
<1> HIDE DEF m
<1>8. Len([k \in 1 .. m |-> c[k]]) = m /\ DOMAIN [k \in 1 .. m |-> c[k]] = 1 .. m
  BY <1>3
<1> QED BY <1>3, <1>7, <1>8

\* The empty queue is one.
LEMMA NothingQueued == IsSeq(<<>>) /\ DOMAIN <<>> = {}
<1>1. <<>> \in Seq({})
  OBVIOUS
<1>2. IsSeq(<<>>) /\ DOMAIN <<>> = 1 .. Len(<<>>)
  BY <1>1, IsSeqOf
<1>3. 1 .. Len(<<>>) = {}
  OBVIOUS
<1> QED BY <1>2, <1>3

\* A worker that is at work has its stream, its buffers and the arena.
LEMMA AtWork ==
  ASSUME CopyInv, NEW w \in Threads, worker[w].pc \notin Idle
  PROVE  /\ w \in held /\ arena.live /\ main \in {"spawn", "join"}
         /\ life = "load" /\ WorkerType(w) /\ GuardedAt(w) /\ Intact(w)
<1>1. w \in held
  BY DEF CopyInv, Running
<1>2. main \notin {"plan", "resources", "unwind", "returned"}
  BY <1>1 DEF CopyInv, Running, Idle
<1>3. main \in {"spawn", "join"} /\ arena.live /\ life = "load"
  BY <1>2 DEF CopyInv, Running, LoadTypes
<1>4. WorkerType(w) /\ GuardedAt(w)
  BY DEF CopyInv, LoadTypes, Guarded
<1>5. Intact(w)
  BY DEF CopyInv, Queued
<1> QED BY <1>1, <1>3, <1>4, <1>5

\* A worker's step is a matter of that worker.
LEMMA WorkerMoves ==
  ASSUME CopyInv, NEW w \in Threads, worker[w].pc \notin Idle,
         UNCHANGED <<manifest, main, held, arena, life>>,
         DOMAIN worker' = Threads, DOMAIN stream' = Threads,
         DOMAIN staging' = Threads, next' \in Nat \ {0},
         \A v \in Threads \ {w} : /\ worker'[v] = worker[v]
                                  /\ stream'[v] = stream[v]
                                  /\ staging'[v] = staging[v],
         WorkerType(w)', GuardedAt(w)', Intact(w)'
  PROVE  CopyInv'
<1>1. /\ w \in held /\ arena.live /\ main \in {"spawn", "join"}
      /\ life = "load"
  BY AtWork
<1>2. \A v \in Threads \ {w} : WorkerType(v)'
  BY DEF CopyInv, LoadTypes, WorkerType, Shards
<1>3. LoadTypes'
  BY <1>2 DEF CopyInv, LoadTypes
<1>4. Running'
  BY <1>1 DEF CopyInv, Running
<1>5. \A v \in Threads \ {w} : GuardedAt(v)'
  BY DEF CopyInv, Guarded, GuardedAt, IsCopy
<1>6. Guarded'
  BY <1>5 DEF Guarded
<1>7. CopiesAreSafe'
  BY <1>1 DEF CopyInv, CopiesAreSafe, Intact, IsCopy
<1>8. \A v \in Threads \ {w} : Intact(v)'
  BY DEF CopyInv, Queued, Intact, IsCopy
<1>9. Queued'
  BY <1>8 DEF Queued
<1> QED BY <1>3, <1>4, <1>6, <1>7, <1>9 DEF CopyInv

\* cudaSetDevice in the new thread.
LEMMA StartKeeps ==
  ASSUME CopyInv, NEW w \in Threads, Start(w), life' = life
  PROVE  CopyInv'
<1> USE DEF Start, deviceVars
<1>1. worker[w].pc \notin Idle
  BY DEF Idle
<1>2. WorkerType(w) /\ GuardedAt(w) /\ Intact(w) /\ DOMAIN worker = Threads
      /\ DOMAIN stream = Threads /\ DOMAIN staging = Threads
      /\ next \in Nat \ {0}
  BY <1>1, AtWork DEF CopyInv, LoadTypes
<1>3. \E p \in {"refused", "claim"} : worker' = [worker EXCEPT ![w].pc = p]
  OBVIOUS
<1>4. /\ DOMAIN worker' = Threads
      /\ \A v \in Threads \ {w} : worker'[v] = worker[v]
      /\ DOMAIN worker'[w] = WorkFields
      /\ worker'[w].pc \in {"refused", "claim"}
      /\ worker'[w].offset = worker[w].offset
      /\ worker'[w].copies = worker[w].copies
  BY <1>2, <1>3 DEF WorkerType, WorkFields
<1>5. stream[w] = <<>>
  BY <1>2 DEF GuardedAt
<1>6. WorkerType(w)'
  BY <1>2, <1>4 DEF WorkerType, Places
<1>7. GuardedAt(w)'
  BY <1>4, <1>5 DEF GuardedAt
<1>8. Intact(w)'
  BY <1>2 DEF Intact, IsCopy
<1> QED BY <1>1, <1>2, <1>4, <1>6, <1>7, <1>8, WorkerMoves

\* next_shard.fetch_add: a new shard finds nothing queued.
LEMMA ClaimKeeps ==
  ASSUME CopyInv, NEW w \in Threads, Claim(w), life' = life
  PROVE  CopyInv'
<1> USE DEF Claim, deviceVars
<1>1. worker[w].pc \notin Idle
  BY DEF Idle
<1>2. WorkerType(w) /\ GuardedAt(w) /\ Intact(w) /\ DOMAIN worker = Threads
      /\ DOMAIN stream = Threads /\ DOMAIN staging = Threads
      /\ next \in Nat \ {0}
  BY <1>1, AtWork DEF CopyInv, LoadTypes
<1>3. /\ DOMAIN worker' = Threads
      /\ \A v \in Threads \ {w} : worker'[v] = worker[v]
      /\ DOMAIN worker'[w] = WorkFields
      /\ worker'[w].pc \in {"fill", "ended"}
      /\ worker'[w].pc = "fill" => worker'[w].shard \in Shards
      /\ worker'[w].offset \in Nat /\ worker'[w].copies \in Nat
  BY <1>2 DEF WorkerType, WorkFields, NoWork
<1>4. stream[w] = <<>>
  BY <1>2 DEF GuardedAt
<1>5. WorkerType(w)'
  BY <1>2, <1>3 DEF WorkerType, Places, Shards
<1>6. GuardedAt(w)'
  BY <1>3, <1>4, NothingQueued DEF GuardedAt
<1>7. Intact(w)'
  BY <1>2 DEF Intact, IsCopy
<1> QED BY <1>1, <1>2, <1>3, <1>5, <1>6, <1>7, WorkerMoves

\* The chunk a worker is at lies in its shard.
LEMMA ChunkTypes ==
  ASSUME LoadTypes, NEW w \in Threads, WorkerType(w), worker[w].shard \in Shards
  PROVE  /\ Size(w) \in Nat /\ ChunkEnd(w) \in Nat /\ Slot(w) \in 0 .. 1
         /\ worker[w].shard \in Nat
<1>1. Size(w) \in Nat /\ worker[w].shard \in Nat
  <2>1. manifest.sizes \in Seq(Nat \ {0})
    BY DEF LoadTypes
  <2> QED BY <2>1 DEF Size, Shards
<1>2. worker[w].offset \in Nat /\ ChunkBytes \in Nat \ {0}
  BY LoaderAssumption DEF WorkerType
<1>3. ChunkEnd(w) \in Nat
  <2> DEFINE x == worker[w].offset + ChunkBytes
             y == Size(w)
  <2>1. x \in Nat /\ y \in Nat /\ x \in Int /\ y \in Int
    BY <1>1, <1>2
  <2>2. ChunkEnd(w) = Min({x, y})
    BY DEF ChunkEnd
  <2> HIDE DEF x, y
  <2>3. Min({x, y}) \in {x, y}
    BY <2>1, MinOfTwo
  <2> QED BY <2>1, <2>2, <2>3
<1>4. Slot(w) \in 0 .. 1
  BY <1>2, SlotRange DEF Slot, StagingSlots
<1> QED BY <1>1, <1>3, <1>4

\* A shard that failed: the thread ends, whatever is queued stays queued.
LEMMA Abandoned ==
  ASSUME CopyInv, NEW w \in Threads, worker[w].pc \notin Idle, Abandon(w),
         UNCHANGED <<manifest, main, held, arena, life>>,
         DOMAIN stream' = Threads, DOMAIN staging' = Threads,
         \A v \in Threads \ {w} : /\ stream'[v] = stream[v]
                                  /\ staging'[v] = staging[v],
         IsSeq(stream'[w]), staging'[w] = staging[w], Intact(w)'
  PROVE  CopyInv'
<1>1. WorkerType(w) /\ DOMAIN worker = Threads /\ next' \in Nat \ {0}
  BY AtWork DEF CopyInv, LoadTypes, Abandon
<1>2. /\ DOMAIN worker' = Threads
      /\ \A v \in Threads \ {w} : worker'[v] = worker[v]
      /\ DOMAIN worker'[w] = WorkFields /\ worker'[w].pc = "ended"
      /\ worker'[w].offset = worker[w].offset
      /\ worker'[w].copies = worker[w].copies
  BY <1>1 DEF WorkerType, WorkFields, Abandon
<1>3. WorkerType(w)'
  BY <1>1, <1>2 DEF WorkerType, Places
<1>4. GuardedAt(w)'
  BY <1>2 DEF GuardedAt
<1> QED BY <1>1, <1>2, <1>3, <1>4, WorkerMoves

\* cudaEventSynchronize and the read: the buffer has no copy queued when it is
\* filled, for a queued copy has its event behind it and the event has run.
LEMMA FillKeeps ==
  ASSUME CopyInv, NEW w \in Threads, Fill(w), life' = life
  PROVE  CopyInv'
<1>1. /\ worker[w].pc = "fill" /\ worker[w].pc \notin Idle /\ SlotFree(w)
      /\ UNCHANGED <<manifest, main, held, stream, arena>>
  BY DEF Fill, Idle
<1>2. WorkerType(w) /\ GuardedAt(w) /\ Intact(w) /\ DOMAIN worker = Threads
      /\ DOMAIN stream = Threads /\ DOMAIN staging = Threads
      /\ next \in Nat \ {0} /\ LoadTypes
  BY <1>1, AtWork DEF CopyInv, LoadTypes
<1>3. worker[w].shard \in Shards
  BY <1>1, <1>2 DEF WorkerType
<1>4. Slot(w) \in 0 .. 1 /\ worker[w].shard \in Nat
  BY <1>2, <1>3, ChunkTypes
<1>5. \A i \in DOMAIN stream[w] : IsCopy(w, i) => stream[w][i].slot # Slot(w)
  BY <1>1, <1>2 DEF GuardedAt, SlotFree
<1>6. CASE Abandon(w) /\ UNCHANGED staging
  <2>1. Intact(w)'
    BY <1>1, <1>2, <1>6 DEF Intact, IsCopy
  <2>2. IsSeq(stream'[w])
    BY <1>1, <1>2 DEF WorkerType
  <2> QED BY <1>1, <1>2, <1>6, <2>1, <2>2, Abandoned
<1>7. ASSUME NEW good \in BOOLEAN,
             staging' = [staging EXCEPT ![w][Slot(w)] =
                           [shard |-> worker[w].shard,
                            begin |-> worker[w].offset, good |-> good]],
             worker' = [worker EXCEPT ![w].pc = "scatter",
                                      ![w].hash = @ /\ good],
             UNCHANGED <<next, outcome>>
      PROVE  CopyInv'
  <2> DEFINE c == [shard |-> worker[w].shard, begin |-> worker[w].offset,
                   good |-> good]
  <2>1. /\ DOMAIN worker' = Threads
        /\ \A v \in Threads \ {w} : worker'[v] = worker[v]
        /\ DOMAIN worker'[w] = WorkFields /\ worker'[w].pc = "scatter"
        /\ worker'[w].offset = worker[w].offset
        /\ worker'[w].copies = worker[w].copies
        /\ worker'[w].shard = worker[w].shard
        /\ worker'[w].pending = worker[w].pending
    BY <1>2, <1>7 DEF WorkerType, WorkFields
  <2>2. c \in Chunk
    BY <1>2, <1>4 DEF WorkerType, Chunk
  <2>3. /\ DOMAIN staging' = Threads
        /\ \A v \in Threads \ {w} : staging'[v] = staging[v]
        /\ staging'[w] = [staging[w] EXCEPT ![Slot(w)] = c]
    BY <1>2, <1>7
  <2>4. staging'[w] \in [0 .. StagingSlots - 1 -> Chunk]
    <3> HIDE DEF c
    <3> QED BY <1>2, <1>4, <2>2, <2>3 DEF WorkerType, StagingSlots
  <2>5. WorkerType(w)'
    BY <1>1, <1>2, <1>3, <2>1, <2>4 DEF WorkerType, Places, Shards
  <2>6. GuardedAt(w)'
    BY <1>1, <1>2, <2>1 DEF GuardedAt, IsCopy
  <2>7. Intact(w)'
    <3> SUFFICES ASSUME NEW i \in DOMAIN stream[w], IsCopy(w, i)
                 PROVE  /\ stream[w][i].slot \in 0 .. StagingSlots - 1
                        /\ staging'[w][stream[w][i].slot] = stream[w][i].chunk
      BY <1>1 DEF Intact, IsCopy
    <3>1. stream[w][i].slot # Slot(w)
      BY <1>5
    <3>2. /\ stream[w][i].slot \in 0 .. StagingSlots - 1
          /\ staging[w][stream[w][i].slot] = stream[w][i].chunk
      BY <1>2 DEF Intact
    <3>3. staging'[w][stream[w][i].slot] = staging[w][stream[w][i].slot]
      <4> DEFINE k == stream[w][i].slot
      <4>1. k \in DOMAIN staging[w] /\ k # Slot(w)
        BY <1>2, <3>1, <3>2 DEF WorkerType
      <4> HIDE DEF c, k
      <4>2. staging'[w][k] = staging[w][k]
        BY <2>3, <4>1
      <4> QED BY <4>2 DEF k
    <3> QED BY <3>2, <3>3
  <2>8. next' \in Nat \ {0} /\ DOMAIN stream' = Threads
        /\ \A v \in Threads : stream'[v] = stream[v]
    BY <1>1, <1>2, <1>7
  <2> HIDE DEF c
  <2> QED BY <1>1, <2>1, <2>3, <2>5, <2>6, <2>7, <2>8, WorkerMoves
<1> QED BY <1>6, <1>7 DEF Fill

\* The copies of a chunk, then its event: what was queued stays in front.
LEMMA EnqueueKeeps ==
  ASSUME CopyInv, NEW w \in Threads, Enqueue(w), life' = life
  PROVE  CopyInv'
<1> DEFINE copies == Scatter(worker[w].shard, worker[w].offset, ChunkEnd(w))
           op(k) == [kind |-> "copy", slot |-> Slot(w), at |-> copies[k].at,
                     from |-> copies[k].from, bytes |-> copies[k].bytes,
                     chunk |-> staging[w][Slot(w)]]
           ops(n) == [k \in 1 .. n |-> op(k)]
           event == [kind |-> "event", slot |-> Slot(w)]
           allowed == Min({Len(copies), MaxCopies - worker[w].copies})
           q == stream[w]
<1>1. /\ worker[w].pc = "scatter" /\ worker[w].pc \notin Idle
      /\ UNCHANGED <<manifest, main, held, staging, arena>>
  BY DEF Enqueue, Idle
<1>2. WorkerType(w) /\ GuardedAt(w) /\ Intact(w) /\ DOMAIN worker = Threads
      /\ DOMAIN stream = Threads /\ DOMAIN staging = Threads
      /\ next \in Nat \ {0} /\ LoadTypes
  BY <1>1, AtWork DEF CopyInv, LoadTypes
<1>3. worker[w].shard \in Shards
  BY <1>1, <1>2 DEF WorkerType
<1>4. /\ Slot(w) \in 0 .. 1 /\ worker[w].shard \in Nat /\ ChunkEnd(w) \in Nat
  BY <1>2, <1>3, ChunkTypes
<1>5. Len(copies) \in Nat
  BY <1>2, ScatterIsSeq
<1>6. \A n \in Nat : IsSeq(ops(n)) /\ Len(ops(n)) = n
  <2> TAKE n \in Nat
  <2> DEFINE R == {op(k) : k \in 1 .. n}
  <2>1. \A k \in 1 .. n : op(k) \in R
    OBVIOUS
  <2> HIDE DEF op, R
  <2>2. ops(n) \in Seq(R) /\ Len(ops(n)) = n
    BY <2>1
  <2> QED BY <2>2, IsSeqOf
<1>7. \A k : op(k).kind = "copy" /\ op(k).slot = Slot(w)
             /\ op(k).chunk = staging[w][Slot(w)]
  OBVIOUS
<1>8. IsSeq(q)
  BY <1>2 DEF WorkerType
\* What both outcomes have in common: the queue with n copies behind it.
<1>9. ASSUME NEW n \in Nat
      PROVE  /\ IsSeq(q \o ops(n)) /\ Len(q) \in Nat
             /\ DOMAIN q = 1 .. Len(q)
             /\ DOMAIN (q \o ops(n)) = 1 .. Len(q) + n
             /\ \A i \in 1 .. Len(q) : (q \o ops(n))[i] = q[i]
             /\ \A i \in Len(q) + 1 .. Len(q) + n :
                  /\ (q \o ops(n))[i].kind = "copy"
                  /\ (q \o ops(n))[i].slot = Slot(w)
                  /\ (q \o ops(n))[i].chunk = staging[w][Slot(w)]
  <2>1. IsSeq(ops(n)) /\ Len(ops(n)) = n
    BY <1>6
  <2>2. \A i \in 1 .. n : ops(n)[i] = op(i)
    <3> HIDE DEF op
    <3> QED OBVIOUS
  <2> HIDE DEF ops, op, q
  <2>3. /\ IsSeq(q \o ops(n)) /\ Len(q) \in Nat
        /\ DOMAIN q = 1 .. Len(q)
        /\ DOMAIN (q \o ops(n)) = 1 .. Len(q) + n
        /\ \A i \in 1 .. Len(q) + n :
             (q \o ops(n))[i] = IF i =< Len(q) THEN q[i] ELSE ops(n)[i - Len(q)]
    BY <1>8, <2>1, ConcatFacts
  <2>4. \A i \in 1 .. Len(q) : (q \o ops(n))[i] = q[i]
    BY <2>3
  <2>5. \A i \in Len(q) + 1 .. Len(q) + n : (q \o ops(n))[i] = op(i - Len(q))
    <3> TAKE i \in Len(q) + 1 .. Len(q) + n
    <3>1. i - Len(q) \in 1 .. n /\ i \in 1 .. Len(q) + n /\ ~(i =< Len(q))
      BY <2>3
    <3> QED BY <2>2, <2>3, <3>1
  <2>6. \A i \in Len(q) + 1 .. Len(q) + n :
          /\ (q \o ops(n))[i].kind = "copy"
          /\ (q \o ops(n))[i].slot = Slot(w)
          /\ (q \o ops(n))[i].chunk = staging[w][Slot(w)]
    BY <1>7, <2>5
  <2> QED BY <2>3, <2>4, <2>6
<1>10. ASSUME NEW n \in Nat, Abandon(w),
              stream' = [stream EXCEPT ![w] = @ \o ops(n)]
       PROVE  CopyInv'
  <2> HIDE DEF ops
  <2>1. /\ DOMAIN stream' = Threads /\ stream'[w] = q \o ops(n)
        /\ \A v \in Threads \ {w} : stream'[v] = stream[v]
    BY <1>2, <1>10
  <2>2. IsSeq(stream'[w])
    BY <1>9, <2>1
  <2>3. Intact(w)'
    <3> SUFFICES ASSUME NEW i \in DOMAIN stream'[w], stream'[w][i].kind = "copy"
                 PROVE  /\ stream'[w][i].slot \in 0 .. StagingSlots - 1
                        /\ staging[w][stream'[w][i].slot] = stream'[w][i].chunk
      BY <1>1 DEF Intact, IsCopy
    <3>1. i \in 1 .. Len(q) \/ i \in Len(q) + 1 .. Len(q) + n
      <4>1. i \in 1 .. Len(q) + n /\ Len(q) \in Nat
        BY <1>9, <2>1
      <4> HIDE DEF q
      <4> QED BY <4>1
    <3>2. CASE i \in 1 .. Len(q)
      <4>1. stream'[w][i] = stream[w][i] /\ i \in DOMAIN stream[w]
        BY <1>9, <2>1, <3>2
      <4> QED BY <1>2, <4>1 DEF Intact, IsCopy
    <3>3. CASE i \in Len(q) + 1 .. Len(q) + n
      BY <1>4, <1>9, <2>1, <3>3 DEF StagingSlots
    <3> QED BY <3>1, <3>2, <3>3
  <2> QED BY <1>1, <1>2, <1>10, <2>1, <2>2, <2>3, Abandoned
<1>11. CASE Abandon(w) /\ UNCHANGED stream
  <2>1. Intact(w)'
    BY <1>1, <1>2, <1>11 DEF Intact, IsCopy
  <2>2. IsSeq(stream'[w])
    BY <1>8, <1>11
  <2> QED BY <1>1, <1>2, <1>11, <2>1, <2>2, Abandoned
<1>12. ASSUME allowed = Len(copies),
              stream' = [stream EXCEPT ![w] = (@ \o ops(allowed)) \o <<event>>],
              worker' = [worker EXCEPT
                ![w].pc = "fill", ![w].offset = ChunkEnd(w),
                ![w].pending = @ \cup {Slot(w)},
                ![w].copied = @ + Total(LAMBDA c : c.bytes, copies),
                ![w].copies = @ + Len(copies)],
              UNCHANGED <<next, outcome, faults>>
       PROVE  CopyInv'
  <2> DEFINE n == allowed
             r == q \o ops(n)
  <2>1. n \in Nat
    BY <1>5, <1>12
  <2>2. /\ DOMAIN worker' = Threads
        /\ \A v \in Threads \ {w} : worker'[v] = worker[v]
        /\ DOMAIN worker'[w] = WorkFields /\ worker'[w].pc = "fill"
        /\ worker'[w].offset = ChunkEnd(w)
        /\ worker'[w].copies = worker[w].copies + Len(copies)
        /\ worker'[w].shard = worker[w].shard
        /\ worker'[w].pending = worker[w].pending \cup {Slot(w)}
    <3> HIDE DEF copies
    <3> QED BY <1>2, <1>12 DEF WorkerType, WorkFields
  <2>3. IsSeq(<<event>>) /\ Len(<<event>>) = 1 /\ <<event>>[1] = event
    <3>1. <<event>> \in Seq({event})
      OBVIOUS
    <3> QED BY <3>1, IsSeqOf
  <2> HIDE DEF copies, allowed, ops
  <2>4. /\ DOMAIN stream' = Threads /\ stream'[w] = r \o <<event>>
        /\ \A v \in Threads \ {w} : stream'[v] = stream[v]
    BY <1>2, <1>12
  <2>5. /\ IsSeq(r) /\ Len(r) = Len(q) + n
    <3>1. IsSeq(r) /\ DOMAIN r = 1 .. Len(q) + n /\ Len(q) \in Nat
      BY <1>9, <2>1
    <3>2. DOMAIN r = 1 .. Len(r) /\ Len(r) \in Nat
      <4> HIDE DEF r
      <4> QED BY <2>3, <3>1, ConcatFacts
    <3> HIDE DEF r, q, n
    <3>3. Len(r) = Len(q) + n
      BY <2>1, <3>1, <3>2
    <3> QED BY <3>1, <3>3
  <2>6. /\ IsSeq(r \o <<event>>)
        /\ DOMAIN (r \o <<event>>) = 1 .. Len(q) + n + 1
        /\ \A i \in 1 .. Len(q) + n : (r \o <<event>>)[i] = r[i]
        /\ (r \o <<event>>)[Len(q) + n + 1] = event
        /\ Len(q) \in Nat
    <3>1. Len(q) \in Nat
      BY <1>9, <2>1
    <3> HIDE DEF r, q, n, event
    <3>2. /\ IsSeq(r \o <<event>>) /\ Len(r) \in Nat
          /\ DOMAIN (r \o <<event>>) = 1 .. Len(r) + 1
          /\ \A i \in 1 .. Len(r) + 1 :
               (r \o <<event>>)[i] = IF i =< Len(r) THEN r[i]
                                     ELSE <<event>>[i - Len(r)]
      BY <2>3, <2>5, ConcatFacts
    <3>3. (r \o <<event>>)[Len(r) + 1] = <<event>>[1]
      <4>1. Len(r) + 1 \in 1 .. Len(r) + 1 /\ ~(Len(r) + 1 =< Len(r))
            /\ Len(r) + 1 - Len(r) = 1
        BY <3>2
      <4> QED BY <3>2, <4>1
    <3> QED BY <2>1, <2>3, <2>5, <3>1, <3>2, <3>3
  <2>7. /\ \A i \in 1 .. Len(q) : stream'[w][i] = q[i]
        /\ \A i \in Len(q) + 1 .. Len(q) + n :
             /\ stream'[w][i].kind = "copy" /\ stream'[w][i].slot = Slot(w)
             /\ stream'[w][i].chunk = staging[w][Slot(w)]
        /\ stream'[w][Len(q) + n + 1] = event
        /\ DOMAIN stream'[w] = 1 .. Len(q) + n + 1
        /\ DOMAIN q = 1 .. Len(q)
    <3>1. /\ DOMAIN q = 1 .. Len(q)
          /\ \A i \in 1 .. Len(q) : r[i] = q[i]
          /\ \A i \in Len(q) + 1 .. Len(q) + n :
                  /\ r[i].kind = "copy"
                  /\ r[i].slot = Slot(w)
                  /\ r[i].chunk = staging[w][Slot(w)]
      BY <1>9, <2>1
    <3> HIDE DEF r, q, n, event
    <3> QED BY <2>1, <2>4, <2>6, <3>1
  <2>8. WorkerType(w)'
    <3>1. worker'[w].copies \in Nat /\ worker'[w].offset \in Nat
      BY <1>2, <1>4, <1>5, <2>2 DEF WorkerType
    <3> QED BY <1>1, <1>2, <1>3, <2>2, <2>4, <2>6, <3>1
         DEF WorkerType, Places, Shards
  <2>9. event.kind = "event" /\ event.slot = Slot(w)
    OBVIOUS
  <2> HIDE DEF event, n, r
  <2>10. GuardedAt(w)'
    <3> SUFFICES ASSUME NEW i \in DOMAIN stream'[w], stream'[w][i].kind = "copy"
                 PROVE  /\ stream'[w][i].slot \in worker'[w].pending
                        /\ \E j \in DOMAIN stream'[w] :
                             /\ i < j /\ stream'[w][j].kind = "event"
                             /\ stream'[w][j].slot = stream'[w][i].slot
      BY <2>2 DEF GuardedAt, IsCopy
    <3>1. CASE i \in 1 .. Len(q)
      <4>1. stream'[w][i] = q[i] /\ i \in DOMAIN q
        BY <2>7, <3>1
      <4>2. /\ q[i].slot \in worker[w].pending
            /\ \E j \in DOMAIN q : /\ i < j /\ q[j].kind = "event"
                                   /\ q[j].slot = q[i].slot
        BY <1>1, <1>2, <4>1 DEF GuardedAt, IsCopy
      <4>3. \A j \in DOMAIN q : j \in DOMAIN stream'[w] /\ stream'[w][j] = q[j]
        BY <2>1, <2>6, <2>7
      <4> QED BY <2>2, <4>1, <4>2, <4>3
    <3>2. CASE i \in Len(q) + 1 .. Len(q) + n
      <4>1. stream'[w][i].slot = Slot(w)
        BY <2>7, <3>2
      <4>2. /\ Len(q) + n + 1 \in DOMAIN stream'[w] /\ i < Len(q) + n + 1
            /\ stream'[w][Len(q) + n + 1].kind = "event"
            /\ stream'[w][Len(q) + n + 1].slot = Slot(w)
        BY <2>1, <2>6, <2>7, <2>9, <3>2
      <4> QED BY <2>2, <4>1, <4>2
    <3>3. i # Len(q) + n + 1
      BY <2>7, <2>9
    <3>4. i \in 1 .. Len(q) \/ i \in Len(q) + 1 .. Len(q) + n
      BY <2>1, <2>6, <2>7, <3>3
    <3> QED BY <3>1, <3>2, <3>4
  <2>11. Intact(w)'
    <3> SUFFICES ASSUME NEW i \in DOMAIN stream'[w], stream'[w][i].kind = "copy"
                 PROVE  /\ stream'[w][i].slot \in 0 .. StagingSlots - 1
                        /\ staging[w][stream'[w][i].slot] = stream'[w][i].chunk
      BY <1>1 DEF Intact, IsCopy
    <3>1. CASE i \in 1 .. Len(q)
      <4>1. stream'[w][i] = stream[w][i] /\ i \in DOMAIN stream[w]
        BY <2>7, <3>1
      <4> QED BY <1>2, <4>1 DEF Intact, IsCopy
    <3>2. CASE i \in Len(q) + 1 .. Len(q) + n
      BY <1>4, <2>7, <3>2 DEF StagingSlots
    <3>3. i # Len(q) + n + 1
      BY <2>7, <2>9
    <3>4. i \in 1 .. Len(q) \/ i \in Len(q) + 1 .. Len(q) + n
      BY <2>1, <2>6, <2>7, <3>3
    <3> QED BY <3>1, <3>2, <3>4
  <2>12. next' \in Nat \ {0} /\ DOMAIN staging' = Threads
         /\ \A v \in Threads : staging'[v] = staging[v]
    BY <1>1, <1>2, <1>12
  <2> QED BY <1>1, <2>2, <2>4, <2>8, <2>10, <2>11, <2>12, WorkerMoves
<1>13. \A n \in 0 .. allowed : n \in Nat
  <2>1. worker[w].copies \in Nat /\ MaxCopies \in Nat
    BY <1>2, LoaderAssumption DEF WorkerType
  <2>2. Len(copies) \in Int /\ MaxCopies - worker[w].copies \in Int
    BY <1>5, <2>1
  <2>3. allowed \in Int
    <3> HIDE DEF copies
    <3> QED BY <2>2, MinOfTwo
  <2> HIDE DEF allowed
  <2> QED BY <2>3
<1>14. \/ /\ allowed = Len(copies)
          /\ stream' = [stream EXCEPT ![w] = (@ \o ops(allowed)) \o <<event>>]
          /\ worker' = [worker EXCEPT
               ![w].pc = "fill", ![w].offset = ChunkEnd(w),
               ![w].pending = @ \cup {Slot(w)},
               ![w].copied = @ + Total(LAMBDA c : c.bytes, copies),
               ![w].copies = @ + Len(copies)]
          /\ UNCHANGED <<next, outcome, faults>>
       \/ /\ \E n \in 0 .. allowed :
               stream' = IF broken THEN stream
                         ELSE [stream EXCEPT ![w] = @ \o ops(n)]
          /\ Abandon(w)
  BY Zenon DEF Enqueue
<1> HIDE DEF allowed, ops, event, copies
<1> QED BY <1>10, <1>11, <1>12, <1>13, <1>14

\* The end of the file: the thread goes on to wait for its copies, or gives up.
LEMMA AuthenticateKeeps ==
  ASSUME CopyInv, NEW w \in Threads, Authenticate(w), life' = life
  PROVE  CopyInv'
<1>1. /\ worker[w].pc = "fill" /\ worker[w].pc \notin Idle
      /\ UNCHANGED <<manifest, main, held, staging, stream, arena>>
  BY DEF Authenticate, Idle, deviceVars
<1>2. WorkerType(w) /\ GuardedAt(w) /\ Intact(w) /\ DOMAIN worker = Threads
      /\ DOMAIN stream = Threads /\ DOMAIN staging = Threads
      /\ next \in Nat \ {0}
  BY <1>1, AtWork DEF CopyInv, LoadTypes
<1>3. Intact(w)' /\ IsSeq(stream'[w])
  BY <1>1, <1>2 DEF Intact, IsCopy, WorkerType
<1>4. CASE Abandon(w)
  BY <1>1, <1>2, <1>3, <1>4, Abandoned
<1>5. CASE worker' = [worker EXCEPT ![w].pc = "sync"] /\ UNCHANGED next
  <2>1. /\ DOMAIN worker' = Threads
        /\ \A v \in Threads \ {w} : worker'[v] = worker[v]
        /\ DOMAIN worker'[w] = WorkFields /\ worker'[w].pc = "sync"
        /\ worker'[w].offset = worker[w].offset
        /\ worker'[w].copies = worker[w].copies
        /\ worker'[w].shard = worker[w].shard
        /\ worker'[w].pending = worker[w].pending
    BY <1>2, <1>5 DEF WorkerType, WorkFields
  <2>2. WorkerType(w)'
    BY <1>1, <1>2, <2>1 DEF WorkerType, Places, Shards
  <2>3. GuardedAt(w)'
    BY <1>1, <1>2, <2>1 DEF GuardedAt, IsCopy
  <2> QED BY <1>1, <1>2, <1>3, <1>5, <2>1, <2>2, <2>3, WorkerMoves
<1> QED BY <1>4, <1>5 DEF Authenticate

\* cudaStreamSynchronize: the next shard starts with an empty queue.
LEMMA SyncKeeps ==
  ASSUME CopyInv, NEW w \in Threads, Sync(w), life' = life
  PROVE  CopyInv'
<1>1. /\ worker[w].pc = "sync" /\ worker[w].pc \notin Idle /\ stream[w] = <<>>
      /\ UNCHANGED <<manifest, main, held, staging, stream, arena>>
  BY DEF Sync, Idle, deviceVars, Drained
<1>2. WorkerType(w) /\ Intact(w) /\ DOMAIN worker = Threads
      /\ DOMAIN stream = Threads /\ DOMAIN staging = Threads
      /\ next \in Nat \ {0}
  BY <1>1, AtWork DEF CopyInv, LoadTypes
<1>3. Intact(w)' /\ IsSeq(stream'[w])
  BY <1>1, <1>2 DEF Intact, IsCopy, WorkerType
<1>4. CASE Abandon(w)
  BY <1>1, <1>2, <1>3, <1>4, Abandoned
<1>5. CASE /\ worker' = [worker EXCEPT ![w] = [NoWork EXCEPT !.pc = "claim"]]
           /\ UNCHANGED next
  <2>1. /\ DOMAIN worker' = Threads
        /\ \A v \in Threads \ {w} : worker'[v] = worker[v]
        /\ DOMAIN worker'[w] = WorkFields /\ worker'[w].pc = "claim"
        /\ worker'[w].offset \in Nat /\ worker'[w].copies \in Nat
    BY <1>2, <1>5 DEF WorkFields, NoWork
  <2>2. WorkerType(w)'
    BY <1>1, <1>2, <2>1 DEF WorkerType, Places
  <2>3. GuardedAt(w)'
    BY <1>1, <2>1 DEF GuardedAt
  <2> QED BY <1>1, <1>2, <1>3, <1>5, <2>1, <2>2, <2>3, WorkerMoves
<1> QED BY <1>4, <1>5 DEF Sync

\* The device runs the first of a queue; the events behind it stay behind it.
LEMMA ExecuteKeeps ==
  ASSUME CopyInv, NEW w \in Threads, Execute(w), life' = life
  PROVE  CopyInv'
<1> DEFINE q == stream[w]
<1>1. /\ q # <<>> /\ stream' = [stream EXCEPT ![w] = Tail(@)]
      /\ UNCHANGED <<manifest, main, held, staging, next, worker>>
      /\ \/ arena' = [arena EXCEPT !.data = Copied(w, Head(q))]
         \/ arena' = arena
  BY DEF Execute
<1>2. DOMAIN arena' = {"live", "data"} /\ arena'.live = arena.live
  <2>1. DOMAIN arena = {"live", "data"}
    BY DEF CopyInv, LoadTypes
  <2> DEFINE d == Copied(w, Head(q))
  <2>2. \/ arena' = [arena EXCEPT !.data = d]
        \/ arena' = arena
    BY <1>1
  <2> HIDE DEF d
  <2> QED BY <2>1, <2>2
<1>3. /\ DOMAIN stream' = Threads /\ stream'[w] = Tail(q)
      /\ \A v \in Threads \ {w} : stream'[v] = stream[v]
  BY <1>1 DEF CopyInv, LoadTypes
<1>4. /\ IsSeq(Tail(q))
      /\ \A i \in DOMAIN Tail(q) : i + 1 \in DOMAIN q /\ Tail(q)[i] = q[i + 1]
      /\ \A i \in DOMAIN q : i > 1 => i - 1 \in DOMAIN Tail(q)
      /\ DOMAIN q = 1 .. Len(q) /\ DOMAIN Tail(q) = 1 .. Len(q) - 1
      /\ Len(q) \in Nat
  <2>1. IsSeq(q)
    BY DEF CopyInv, LoadTypes, WorkerType
  <2> QED BY <1>1, <2>1, TailFacts
<1>5. LoadTypes'
  <2>1. \A v \in Threads : WorkerType(v)'
    BY <1>1, <1>3, <1>4 DEF CopyInv, LoadTypes, WorkerType, Shards
  <2> QED BY <1>1, <1>2, <1>3, <2>1 DEF CopyInv, LoadTypes
<1>6. w \in held
  BY <1>1 DEF CopyInv, Running
<1>7. Running'
  BY <1>1, <1>2, <1>3, <1>6 DEF CopyInv, Running
<1>8. Guarded'
  <2> SUFFICES ASSUME NEW v \in Threads PROVE GuardedAt(v)'
    BY DEF Guarded
  <2>1. CASE v # w
    BY <1>1, <1>3, <2>1 DEF CopyInv, Guarded, GuardedAt, IsCopy
  <2>2. CASE v = w
    <3>1. worker[w].pc \notin {"unborn", "start", "refused", "claim"}
      BY <1>1 DEF CopyInv, Guarded, GuardedAt
    <3>2. ASSUME NEW i \in DOMAIN Tail(q), Tail(q)[i].kind = "copy",
                 worker[w].pc \in {"fill", "scatter", "sync"}
          PROVE  /\ Tail(q)[i].slot \in worker[w].pending
                 /\ \E j \in DOMAIN Tail(q) :
                      /\ i < j /\ Tail(q)[j].kind = "event"
                      /\ Tail(q)[j].slot = Tail(q)[i].slot
      <4>1. i + 1 \in DOMAIN q /\ Tail(q)[i] = q[i + 1]
        BY <1>4
      <4>2. /\ q[i + 1].slot \in worker[w].pending
            /\ \E j \in DOMAIN q : /\ i + 1 < j /\ q[j].kind = "event"
                                   /\ q[j].slot = q[i + 1].slot
        BY <3>2, <4>1 DEF CopyInv, Guarded, GuardedAt, IsCopy
      <4>3. PICK j \in DOMAIN q : /\ i + 1 < j /\ q[j].kind = "event"
                                  /\ q[j].slot = q[i + 1].slot
        BY <4>2
      <4> HIDE DEF q
      <4>4. /\ j - 1 \in DOMAIN Tail(q) /\ i < j - 1 /\ j - 1 + 1 = j
        BY <1>4, <4>3
      <4>5. Tail(q)[j - 1] = q[j]
        BY <1>4, <4>4
      <4> QED BY <4>1, <4>2, <4>3, <4>4, <4>5
    <3> QED BY <1>1, <1>3, <2>2, <3>1, <3>2 DEF GuardedAt, IsCopy
  <2> QED BY <2>1, <2>2
<1>9. Queued'
  <2> SUFFICES ASSUME NEW v \in Threads PROVE Intact(v)'
    BY DEF Queued
  <2>1. CASE v # w
    BY <1>1, <1>3, <2>1 DEF CopyInv, Queued, Intact, IsCopy
  <2>2. CASE v = w
    <3>1. \A i \in DOMAIN Tail(q) : Tail(q)[i].kind = "copy" =>
            /\ Tail(q)[i].slot \in 0 .. StagingSlots - 1
            /\ staging[w][Tail(q)[i].slot] = Tail(q)[i].chunk
      BY <1>4 DEF CopyInv, Queued, Intact, IsCopy
    <3> QED BY <1>1, <1>3, <2>2, <3>1 DEF Intact, IsCopy
  <2> QED BY <2>1, <2>2
<1>10. CopiesAreSafe'
  <2>1. \A v \in Threads : \A i \in DOMAIN stream'[v] :
          stream'[v][i].kind = "copy" => v \in held /\ arena.live
    <3> TAKE v \in Threads
    <3>1. CASE v # w
      BY <1>3, <3>1 DEF CopyInv, CopiesAreSafe
    <3>2. CASE v = w
      <4>1. \A i \in DOMAIN q : q[i].kind = "copy" => w \in held /\ arena.live
        BY DEF CopyInv, CopiesAreSafe
      <4> QED BY <1>3, <1>4, <3>2, <4>1
    <3> QED BY <3>1, <3>2
  <2>2. \A v \in Threads : \A i \in DOMAIN stream'[v] :
          stream'[v][i].kind = "copy" =>
            staging'[v][stream'[v][i].slot] = stream'[v][i].chunk
    BY <1>9 DEF Queued, Intact, IsCopy
  <2> QED BY <1>1, <1>2, <2>1, <2>2 DEF CopiesAreSafe
<1> QED BY <1>5, <1>7, <1>8, <1>9, <1>10 DEF CopyInv

\* A step of the calling thread that leaves the threads and their queues alone.
LEMMA CallerMoves ==
  ASSUME CopyInv, UNCHANGED <<manifest, staging, stream, worker, next>>,
         main' \in {"plan", "resources", "spawn", "join", "unwind", "returned"},
         held \subseteq held', held' \subseteq Threads,
         DOMAIN arena' = {"live", "data"}, arena'.live \in BOOLEAN,
         (\E w \in Threads : stream[w] # <<>>) /\ arena.live => arena'.live,
         Running'
  PROVE  CopyInv'
<1>1. \A v \in Threads : WorkerType(v)' /\ GuardedAt(v)' /\ Intact(v)'
  BY DEF CopyInv, LoadTypes, WorkerType, Shards, Guarded, GuardedAt, Queued,
         Intact, IsCopy
<1>2. LoadTypes'
  BY <1>1 DEF CopyInv, LoadTypes
<1>3. Guarded' /\ Queued'
  BY <1>1 DEF Guarded, Queued
<1>4. CopiesAreSafe'
  <2> SUFFICES ASSUME NEW w \in Threads, NEW i \in DOMAIN stream[w],
                      stream[w][i].kind = "copy"
               PROVE  /\ w \in held' /\ arena'.live
                      /\ staging[w][stream[w][i].slot] = stream[w][i].chunk
    BY DEF CopiesAreSafe
  <2>1. /\ w \in held /\ arena.live
        /\ staging[w][stream[w][i].slot] = stream[w][i].chunk
    BY DEF CopyInv, CopiesAreSafe
  <2>2. stream[w] # <<>>
    BY NothingQueued
  <2> QED BY <2>1, <2>2
<1> QED BY <1>2, <1>3, <1>4 DEF CopyInv

\* The plan and its refusals; the end of the spawn loop; the join.
LEMMA PlanKeeps ==
  ASSUME CopyInv, Plan \/ Spawned \/ Join, life = "load", life' = life
  PROVE  CopyInv'
<1>1. /\ UNCHANGED <<manifest, staging, stream, worker, next, held, arena>>
      /\ main' \in {"resources", "returned", "join", "unwind"}
  BY DEF Plan, Spawned, Join, deviceVars, threadVars
<1>2. CASE Plan
  <2>1. Running'
    BY <1>1, <1>2 DEF CopyInv, Running, Plan, Idle
  <2> QED BY <1>1, <2>1, CallerMoves DEF CopyInv, LoadTypes
<1>3. CASE Spawned
  <2>1. Running'
    BY <1>1, <1>3 DEF CopyInv, Running, Spawned
  <2> QED BY <1>1, <2>1, CallerMoves DEF CopyInv, LoadTypes
<1>4. CASE Join
  <2>1. \A w \in Threads : worker[w].pc \in Idle
    BY <1>4 DEF CopyInv, Running, Join, Idle
  <2>2. Running'
    BY <1>1, <1>4, <2>1 DEF CopyInv, Running, Join
  <2> QED BY <1>1, <2>2, CallerMoves DEF CopyInv, LoadTypes
<1> QED BY <1>2, <1>3, <1>4

\* The resources of the next worker.
LEMMA AllocateWorkerKeeps ==
  ASSUME CopyInv, AllocateWorker, life = "load", life' = life
  PROVE  CopyInv'
<1>1. /\ UNCHANGED <<manifest, staging, stream, worker, next, arena>>
      /\ main = "resources"
  BY DEF AllocateWorker, deviceVars, threadVars
<1>2. \A w \in Threads : worker[w].pc = "unborn" /\ stream[w] = <<>>
  BY <1>1 DEF CopyInv, Running, Guarded, GuardedAt
<1>3. CASE main' = "unwind" /\ UNCHANGED held
  <2>1. Running'
    BY <1>1, <1>2, <1>3 DEF CopyInv, Running, Idle
  <2> QED BY <1>1, <1>3, <2>1, CallerMoves DEF CopyInv, LoadTypes
<1>4. CASE held' = held \cup {Cardinality(held) + 1} /\ main' = main
  <2>1. Cardinality(held) + 1 \in Threads
    <3>1. manifest.sizes \in Seq(Nat \ {0}) /\ Workers \in Nat \ {0}
      BY LoaderAssumption DEF CopyInv, LoadTypes
    <3> DEFINE n == Len(manifest.sizes)
    <3>2. n \in Nat /\ n \in Int /\ Workers \in Int
      BY <3>1
    <3> HIDE DEF n
    <3>3. Min({Workers, n}) \in {Workers, n} /\ Min({Workers, n}) =< Workers
      BY <3>2, MinOfTwo
    <3>4. IsFiniteSet(Threads) /\ held \subseteq Threads
      BY <3>2, FS_Interval DEF CopyInv, LoadTypes, Threads
    <3>5. Cardinality(held) \in Nat
      BY <3>4, FS_Subset, FS_CardinalityType
    <3>6. Cardinality(held) < Min({Workers, n})
      BY DEF AllocateWorker, n
    <3> DEFINE k == Min({Workers, n})
               c == Cardinality(held)
    <3>7. k \in Int /\ k =< Workers /\ c < k /\ c \in Nat
      BY <3>2, <3>3, <3>5, <3>6
    <3> HIDE DEF k, c
    <3>8. c + 1 \in 1 .. Workers
      BY <3>2, <3>7
    <3> QED BY <3>8 DEF c, Threads
  <2>2. Running'
    BY <1>1, <1>2, <1>4 DEF CopyInv, Running, Idle
  <2>3. held \subseteq held' /\ held' \subseteq Threads
    BY <1>4, <2>1 DEF CopyInv, LoadTypes
  <2> QED BY <1>1, <1>4, <2>2, <2>3, CallerMoves DEF CopyInv, LoadTypes
<1> QED BY <1>3, <1>4 DEF AllocateWorker

\* The arena.
LEMMA AllocateArenaKeeps ==
  ASSUME CopyInv, AllocateArena, life = "load", life' = life
  PROVE  CopyInv'
<1>1. /\ UNCHANGED <<manifest, staging, stream, worker, next, held>>
      /\ main = "resources"
  BY DEF AllocateArena
<1>2. \A w \in Threads : worker[w].pc = "unborn" /\ stream[w] = <<>>
  BY <1>1 DEF CopyInv, Running, Guarded, GuardedAt
<1>3. \/ /\ DOMAIN arena' = {"live", "data"} /\ arena'.live = TRUE
         /\ main' = "spawn"
      \/ main' = "unwind" /\ UNCHANGED arena
  BY DEF AllocateArena
<1>4. Running'
  BY <1>1, <1>2, <1>3 DEF CopyInv, Running, Idle
<1> QED BY <1>1, <1>2, <1>3, <1>4, CallerMoves DEF CopyInv, LoadTypes

\* A new thread has nothing queued.
LEMMA SpawnKeeps ==
  ASSUME CopyInv, Spawn, life = "load", life' = life
  PROVE  CopyInv'
<1>1. /\ UNCHANGED <<manifest, staging, stream, next, held, arena>>
      /\ main = "spawn" /\ Unborn # {}
  BY DEF Spawn, deviceVars
<1>2. CASE main' = "join" /\ UNCHANGED worker
  <2>1. Running'
    BY <1>1, <1>2 DEF CopyInv, Running
  <2> QED BY <1>1, <1>2, <2>1, CallerMoves DEF CopyInv, LoadTypes
<1>3. CASE worker' = [worker EXCEPT ![Min(Unborn)].pc = "start"] /\ main' = main
  <2> DEFINE w == Min(Unborn)
  <2>1. w \in Unborn
    <3>1. Unborn \subseteq Nat
      <4>1. held \subseteq Threads /\ Workers \in Nat
        BY LoaderAssumption DEF CopyInv, LoadTypes
      <4>2. Threads \subseteq Nat
        BY <4>1 DEF Threads
      <4> QED BY <4>1, <4>2 DEF Unborn
    <3> QED BY <1>1, <3>1, Least
  <2>2. w \in held /\ w \in Threads /\ worker[w].pc = "unborn"
    BY <2>1 DEF Unborn, CopyInv, LoadTypes
  <2>3. worker' = [worker EXCEPT ![w].pc = "start"]
    BY <1>3
  <2> HIDE DEF w
  <2>4. /\ WorkerType(w) /\ GuardedAt(w) /\ DOMAIN worker = Threads
    BY <2>2 DEF CopyInv, LoadTypes, Guarded
  <2>5. /\ DOMAIN worker' = Threads
        /\ \A v \in Threads \ {w} : worker'[v] = worker[v]
        /\ DOMAIN worker'[w] = WorkFields /\ worker'[w].pc = "start"
        /\ worker'[w].offset = worker[w].offset
        /\ worker'[w].copies = worker[w].copies
    BY <2>2, <2>3, <2>4 DEF WorkerType, WorkFields
  <2>6. \A v \in Threads : WorkerType(v)'
    BY <1>1, <2>4, <2>5 DEF CopyInv, LoadTypes, WorkerType, Places, Shards
  <2>7. LoadTypes'
    BY <1>1, <1>3, <2>5, <2>6 DEF CopyInv, LoadTypes
  <2>8. Running'
    BY <1>1, <1>3, <2>2, <2>5 DEF CopyInv, Running
  <2>9. \A v \in Threads : GuardedAt(v)'
    BY <1>1, <2>2, <2>4, <2>5 DEF CopyInv, Guarded, GuardedAt, IsCopy
  <2>10. Queued' /\ CopiesAreSafe'
    BY <1>1 DEF CopyInv, Queued, Intact, IsCopy, CopiesAreSafe
  <2> QED BY <2>7, <2>8, <2>9, <2>10 DEF CopyInv, Guarded
<1> QED BY <1>2, <1>3 DEF Spawn

\* Once every queue is empty nothing can be unsafe.
LEMMA NothingToDo ==
  ASSUME LoadTypes, Running, \A w \in Threads : stream[w] = <<>>
  PROVE  CopyInv
<1>1. Guarded
  BY NothingQueued DEF Guarded, GuardedAt
<1>2. Queued /\ CopiesAreSafe
  BY NothingQueued DEF Queued, Intact, CopiesAreSafe
<1> QED BY <1>1, <1>2 DEF CopyInv

\* A device error drops what is queued.
LEMMA DeviceBreaksKeeps ==
  ASSUME CopyInv, DeviceBreaks, life' = life
  PROVE  CopyInv'
<1>1. /\ UNCHANGED <<manifest, main, held, staging, arena, next, worker>>
      /\ stream' = NoStreams
  BY DEF DeviceBreaks
<1>2. DOMAIN stream' = Threads /\ \A w \in Threads : stream'[w] = <<>>
  BY <1>1 DEF NoStreams
<1>3. \A w \in Threads : WorkerType(w)'
  BY <1>1, <1>2, NothingQueued DEF CopyInv, LoadTypes, WorkerType, Shards
<1>4. LoadTypes'
  BY <1>1, <1>2, <1>3 DEF CopyInv, LoadTypes
<1>5. Running'
  BY <1>1, <1>2 DEF CopyInv, Running
<1>6. (LoadTypes /\ Running /\ (\A w \in Threads : stream[w] = <<>>) => CopyInv)'
  BY NothingToDo, PTL
<1> QED BY <1>2, <1>4, <1>5, <1>6

\* Unwinding: the stream is empty when its buffers go.
LEMMA FreeWorkerKeeps ==
  ASSUME CopyInv, NEW w \in Threads, FreeWorker(w), life' = life
  PROVE  CopyInv'
<1>1. /\ UNCHANGED <<manifest, main, stream, arena, next, worker>>
      /\ main = "unwind" /\ stream[w] = <<>> /\ held' = held \ {w}
      /\ staging' = [staging EXCEPT ![w] = EmptyStaging[w]]
  BY DEF FreeWorker, Drained, threadVars
<1>2. \A v \in Threads : worker[v].pc \in Idle
  BY <1>1 DEF CopyInv, Running
<1>3. /\ DOMAIN staging' = Threads
      /\ \A v \in Threads \ {w} : staging'[v] = staging[v]
      /\ staging'[w] \in [0 .. StagingSlots - 1 -> Chunk]
  <2>1. EmptyStaging[w] \in [0 .. StagingSlots - 1 -> Chunk]
    BY DEF EmptyStaging, NoChunk, Chunk
  <2> QED BY <1>1, <2>1 DEF CopyInv, LoadTypes
<1>4. \A v \in Threads : WorkerType(v)'
  BY <1>1, <1>3 DEF CopyInv, LoadTypes, WorkerType, Shards
<1>5. LoadTypes'
  BY <1>1, <1>3, <1>4 DEF CopyInv, LoadTypes
<1>6. Running'
  BY <1>1, <1>2 DEF CopyInv, Running
<1>7. Guarded'
  BY <1>1 DEF CopyInv, Guarded, GuardedAt, IsCopy
<1>8. Queued'
  BY <1>1, <1>3, NothingQueued DEF CopyInv, Queued, Intact, IsCopy
<1>9. CopiesAreSafe'
  BY <1>1, <1>3, NothingQueued DEF CopyInv, CopiesAreSafe
<1> QED BY <1>5, <1>6, <1>7, <1>8, <1>9 DEF CopyInv

\* The return: what was on the stack is gone, and nobody holds a stream.
LEMMA ReturnKeeps ==
  ASSUME CopyInv, Return, life = "load", life' = life
  PROVE  CopyInv'
<1>1. /\ UNCHANGED <<manifest, held, staging, stream>>
      /\ held = {} /\ main' = "returned" /\ next' = 1 /\ worker' = NoWorkers
      /\ arena' \in {arena, NoArena}
  BY DEF Return, Unwound
<1>2. \A w \in Threads : stream[w] = <<>>
  BY <1>1 DEF CopyInv, Running
<1>3. DOMAIN worker' = Threads /\ \A w \in Threads : worker'[w] = NoWork
  BY <1>1 DEF NoWorkers
<1>4. \A w \in Threads : WorkerType(w)'
  <2> TAKE w \in Threads
  <2>1. /\ DOMAIN worker'[w] = WorkFields /\ worker'[w].pc = "unborn"
        /\ worker'[w].offset \in Nat /\ worker'[w].copies \in Nat
    BY <1>3 DEF NoWork, WorkFields
  <2>2. WorkerType(w)
    BY DEF CopyInv, LoadTypes
  <2> QED BY <1>1, <2>1, <2>2 DEF WorkerType, Places
<1>5. DOMAIN arena' = {"live", "data"} /\ arena'.live \in BOOLEAN
  <2>1. DOMAIN NoArena = {"live", "data"} /\ NoArena.live = FALSE
    BY DEF NoArena
  <2>2. DOMAIN arena = {"live", "data"} /\ arena.live \in BOOLEAN
    BY DEF CopyInv, LoadTypes
  <2> QED BY <1>1, <2>1, <2>2
<1>6. LoadTypes'
  BY <1>1, <1>3, <1>4, <1>5 DEF CopyInv, LoadTypes
<1>7. Running'
  BY <1>1, <1>2, <1>3 DEF Running, NoWork, Idle
<1>8. (LoadTypes /\ Running /\ (\A w \in Threads : stream[w] = <<>>) => CopyInv)'
  BY NothingToDo, PTL
<1> QED BY <1>1, <1>2, <1>6, <1>7, <1>8

-----------------------------------------------------------------------------
(* Counting the slots of an executable.                                     *)

HIDE LoaderAssumption
USE WindowAssumption

\* Counts of slots are numbers; none is counted where none points.
LEMMA RefsType ==
  ASSUME NEW f, NEW ps \in SUBSET Positions, NEW o
  PROVE  /\ Refs(f, ps, o) \in 0 .. Capacity
         /\ Refs(f, ps, o) > 0 <=> \E p \in ps : f[p].o = o
<1> DEFINE S == {p \in ps : f[p].o = o}
<1>1. IsFiniteSet(Positions) /\ Cardinality(Positions) = Capacity
  <2>1. 0 \in Int /\ Capacity - 1 \in Int /\ Capacity \in Nat \ {0}
    OBVIOUS
  <2>2. /\ IsFiniteSet(0 .. Capacity - 1)
        /\ Cardinality(0 .. Capacity - 1) =
             IF 0 > Capacity - 1 THEN 0 ELSE Capacity - 1 - 0 + 1
    BY <2>1, FS_Interval
  <2> QED BY <2>1, <2>2 DEF Positions
<1>2. S \subseteq Positions
  OBVIOUS
<1>3. Refs(f, ps, o) = Cardinality(S)
  BY DEF Refs
<1>4. S # {} <=> \E p \in ps : f[p].o = o
  OBVIOUS
<1> HIDE DEF S
<1>5. IsFiniteSet(S) /\ Cardinality(S) \in Nat /\ Cardinality(S) =< Capacity
  BY <1>1, <1>2, FS_Subset, FS_CardinalityType
<1>6. Cardinality(S) = 0 <=> S = {}
  BY <1>5, FS_EmptySet
<1> QED BY <1>3, <1>4, <1>5, <1>6

\* One slot counts for one executable.
LEMMA RefsOne ==
  ASSUME NEW f, NEW p \in Positions, NEW o
  PROVE  Refs(f, {p}, o) = IF f[p].o = o THEN 1 ELSE 0
<1>1. CASE f[p].o = o
  <2>1. {x \in {p} : f[x].o = o} = {p}
    BY <1>1
  <2> QED BY <1>1, <2>1, FS_Singleton DEF Refs
<1>2. CASE f[p].o # o
  <2>1. {x \in {p} : f[x].o = o} = {}
    BY <1>2
  <2> QED BY <1>2, <2>1, FS_EmptySet DEF Refs
<1> QED BY <1>1, <1>2

\* What slot s counts for executable o.
One(s, o) == IF s.o = o THEN 1 ELSE 0

\* Replacing a slot moves one count.
LEMMA RefsUpdate ==
  ASSUME NEW f, NEW g, NEW p \in Positions, NEW o,
         \A x \in Positions \ {p} : g[x] = f[x]
  PROVE  Refs(g, Positions, o) = Refs(f, Positions, o) - One(f[p], o) + One(g[p], o)
<1> DEFINE A == {x \in Positions : f[x].o = o}
           B == {x \in Positions : g[x].o = o}
           R == {x \in Positions \ {p} : f[x].o = o}
<1>1. IsFiniteSet(Positions)
  <2>1. 0 \in Int /\ Capacity - 1 \in Int
    OBVIOUS
  <2> QED BY <2>1, FS_Interval DEF Positions
<1>2. R \subseteq Positions /\ p \notin R
  OBVIOUS
<1>3. A = IF f[p].o = o THEN R \cup {p} ELSE R
  OBVIOUS
<1>4. B = IF g[p].o = o THEN R \cup {p} ELSE R
  OBVIOUS
<1>5. Refs(f, Positions, o) = Cardinality(A) /\ Refs(g, Positions, o) = Cardinality(B)
  BY DEF Refs
<1> HIDE DEF A, B, R
<1>6. IsFiniteSet(R) /\ Cardinality(R) \in Nat
  BY <1>1, <1>2, FS_Subset, FS_CardinalityType
<1>7. Cardinality(R \cup {p}) = Cardinality(R) + 1
  BY <1>2, <1>6, FS_AddElement
<1> DEFINE a == IF f[p].o = o THEN 1 ELSE 0
           b == IF g[p].o = o THEN 1 ELSE 0
<1>8. Cardinality(A) = Cardinality(R) + a /\ Cardinality(B) = Cardinality(R) + b
      /\ a \in Nat /\ b \in Nat
  BY <1>3, <1>4, <1>6, <1>7
<1>9. Refs(g, Positions, o) = Refs(f, Positions, o) - a + b
  <2> HIDE DEF a, b
  <2> QED BY <1>5, <1>6, <1>8
<1> QED BY <1>9 DEF One

\* Two users count for two.
LEMMA RefsTwo ==
  ASSUME NEW f, NEW o, NEW p \in Positions, NEW q \in Positions, p # q,
         f[p].o = o, f[q].o = o
  PROVE  Refs(f, Positions, o) >= 2
<1> DEFINE S == {x \in Positions : f[x].o = o}
<1>1. IsFiniteSet(S)
  <2>1. 0 \in Int /\ Capacity - 1 \in Int
    OBVIOUS
  <2>2. IsFiniteSet(Positions)
    BY <2>1, FS_Interval DEF Positions
  <2>3. S \subseteq Positions
    OBVIOUS
  <2> HIDE DEF S
  <2> QED BY <2>2, <2>3, FS_Subset
<1>2. p \in S /\ q \in S
  OBVIOUS
<1>3. Refs(f, Positions, o) = Cardinality(S)
  BY DEF Refs
<1> HIDE DEF S
<1>4. /\ IsFiniteSet(S \ {p}) /\ Cardinality(S \ {p}) = Cardinality(S) - 1
      /\ Cardinality(S) \in Nat
  BY <1>1, <1>2, FS_RemoveElement, FS_CardinalityType
<1>5. Cardinality(S \ {p}) \in Nat /\ Cardinality(S \ {p}) # 0
  <2> DEFINE T == S \ {p}
  <2>1. T # {} /\ IsFiniteSet(T)
    BY <1>2, <1>4
  <2> HIDE DEF T
  <2>2. Cardinality(T) \in Nat /\ Cardinality(T) # 0
    BY <2>1, FS_EmptySet, FS_CardinalityType
  <2> QED BY <2>2 DEF T
<1> QED BY <1>3, <1>4, <1>5

-----------------------------------------------------------------------------
(* The graph cache keeps its books.                                         *)

\* The window lies in the arena.
LEMMA WindowFacts ==
  /\ LastPosition \in Nat /\ First =< LastPosition /\ LastPosition < Capacity
  /\ First \in Positions /\ LastPosition \in Positions
  /\ Window = First .. LastPosition /\ Window \subseteq Positions
<1>1. Last \in Int /\ Capacity - 1 \in Int /\ First \in Nat /\ Capacity \in Nat
      /\ First =< Last /\ First < Capacity
  OBVIOUS
<1> DEFINE c == Capacity - 1
           m == Min({Last, c})
<1>2. m \in {Last, c} /\ m =< Last /\ m =< c
  <2> HIDE DEF c
  <2>1. c \in Int
    BY <1>1 DEF c
  <2> QED BY <1>1, <2>1, MinOfTwo
<1>3. LastPosition = m
  BY DEF LastPosition
<1> HIDE DEF m
<1> QED BY <1>1, <1>2, <1>3 DEF Positions, Window

\* What a destroyed graph, a destroyed executable and an empty slot look like.
LEMMA GoneFacts ==
  /\ Dead \in GraphType /\ Dead.pos = -1 /\ Dead.nodes = "none"
  /\ Gone \in OwnerType /\ Gone.live = FALSE /\ Gone.refs = 0
  /\ Empty \in SlotType /\ Empty.g = 0 /\ Empty.o = 0
  /\ 0 \notin Handles /\ -1 \notin Positions /\ Handles \subseteq 0 .. MaxHandles
BY DEF Dead, GraphType, Gone, OwnerType, Empty, SlotType, Handles, Positions

\* A slot that is used leads to a live executable and a graph of its position.
LEMMA SlotFacts ==
  ASSUME GraphInv, NEW f \in {slots, staged}, NEW p \in Positions,
         NEW h \in Handles
  PROVE  /\ f[p].o = h => f[p] # Empty /\ owners[h].live
         /\ f[p].g = h => f[p] # Empty /\ graphs[h] # Dead /\ graphs[h].pos = p
<1>1. Sound(f)
  BY DEF GraphInv
<1> QED BY <1>1, GoneFacts DEF Sound

\* Slots are counted exactly when they are used.
LEMMA UsedFacts ==
  ASSUME NEW h
  PROVE  /\ Used(h) <=> \/ Refs(slots, Positions, h) > 0
                        \/ Refs(staged, Positions, h) > 0
         /\ Refs(slots, Positions, h) \in Nat /\ Refs(staged, Positions, h) \in Nat
<1>1. Positions \in SUBSET Positions
  OBVIOUS
<1>2. /\ Refs(slots, Positions, h) \in 0 .. Capacity
      /\ Refs(slots, Positions, h) > 0 <=> \E p \in Positions : slots[p].o = h
      /\ Refs(staged, Positions, h) \in 0 .. Capacity
      /\ Refs(staged, Positions, h) > 0 <=> \E p \in Positions : staged[p].o = h
  BY <1>1, RefsType
<1> QED BY <1>2 DEF Used

\* Steps between captures that touch no handle.
LEMMA RunnerMoves ==
  ASSUME GraphInv, UNCHANGED <<slots, staged, graphs, owners, cap>>,
         cap.pc = "none", RunnerTypes', FlagTypes', Flow', Filled',
         CreationLeavesNoTrace', ReplaysOwnStep'
  PROVE  GraphInv'
<1>1. Sound(slots)' /\ Sound(staged)'
  BY DEF GraphInv, Sound
<1>2. Counted' /\ NoOrphans'
  BY DEF GraphInv, Counted, NoOrphans, Used, Kept, Refs
<1>3. Capturing'
  BY DEF GraphInv, Capturing
<1>4. HandleTypes'
  BY DEF GraphInv, HandleTypes
<1> QED BY <1>1, <1>2, <1>3, <1>4 DEF GraphInv

\* Creation, where it leaves the cache alone.
LEMMA CreationKeeps ==
  ASSUME GraphInv,
         WarmUp \/ WarmReset \/ SkipWarmUp \/ Probe \/ Admit \/ Refuse
  PROVE  GraphInv'
<1>1. /\ UNCHANGED <<slots, staged, graphs, owners, cap, req, ran, served,
                     retired, capturing>>
      /\ phase \in {"create", "warmed", "probe", "prepared"}
  BY DEF WarmUp, WarmReset, SkipWarmUp, Probe, Admit, Refuse, handles, runner
<1>2. cap.pc = "none"
  BY <1>1 DEF GraphInv, Flow
<1>3. RunnerTypes
  BY DEF GraphInv
<1>4. RunnerTypes'
  <2> USE <1>3, <1>1 DEF RunnerTypes, Creating, Serving
  <2>1. CASE WarmUp
    <3>1. LastPosition + 1 \in 0 .. Capacity /\ {LastPosition} \subseteq Positions
      BY WindowFacts
    <3> QED BY <2>1, <3>1 DEF WarmUp
  <2>2. CASE WarmReset
    BY <2>2 DEF WarmReset, Wiped
  <2>3. CASE SkipWarmUp
    BY <2>3 DEF SkipWarmUp, runner
  <2>4. CASE Probe
    <3>1. /\ phase' \in {"rollback", "prepare"} /\ UNCHANGED <<runner, ready>>
          /\ cursor' \in {cursor, First} /\ entry' \in {entry, seq}
      BY <2>4 DEF Probe
    <3>2. cursor' \in Nat /\ entry' \in 0 .. Capacity
      BY <3>1
    <3> QED BY <3>1, <3>2 DEF runner
  <2>5. CASE Admit
    BY <2>5 DEF Admit, Wiped
  <2>6. CASE Refuse
    BY <2>6 DEF Refuse, runner
  <2> QED BY <2>1, <2>2, <2>3, <2>4, <2>5, <2>6
<1>5. FlagTypes'
  BY <1>1 DEF GraphInv, FlagTypes, WarmUp, WarmReset, SkipWarmUp, Probe, Admit,
     Refuse, runner, Wiped
<1>6. Flow'
  <2> USE <1>1, <1>2 DEF GraphInv, RunnerTypes, Flow, Creating, Serving
  <2>1. CASE WarmUp
    BY <2>1 DEF WarmUp
  <2>2. CASE WarmReset
    BY <2>2 DEF WarmReset, Wiped
  <2>3. CASE SkipWarmUp
    BY <2>3 DEF SkipWarmUp, runner
  <2>4. CASE Probe
    BY <2>4, WindowFacts DEF Probe, runner
  <2>5. CASE Admit
    BY <2>5 DEF Admit, Wiped
  <2>6. CASE Refuse
    BY <2>6 DEF Refuse, runner
  <2> QED BY <2>1, <2>2, <2>3, <2>4, <2>5, <2>6
<1>7. Filled'
  <2>1. CASE Probe
    <3>1. /\ phase = "probe" /\ UNCHANGED ready
          /\ phase' = "rollback" \/ (phase' = "prepare" /\ cursor' = First)
      BY <2>1 DEF Probe
    <3>2. ~ready /\ \A p \in Positions : slots[p] = Empty /\ staged[p] = Empty
      BY <3>1 DEF GraphInv, Flow, Filled, Creating
    <3>3. \A p \in Positions : p \notin First .. First - 1
      OBVIOUS
    <3> QED BY <1>1, <3>1, <3>2, <3>3 DEF Filled
  <2>2. CASE WarmUp \/ WarmReset \/ SkipWarmUp
    <3>1. /\ phase \in {"create", "warmed"} /\ UNCHANGED ready
          /\ phase' \in {"warmed", "probe", "failed", "serve", "rollback"}
      BY <2>2 DEF WarmUp, WarmReset, SkipWarmUp
    <3>2. ~ready
      BY <3>1 DEF GraphInv, Flow, Creating
    <3> QED BY <1>1, <3>1, <3>2 DEF GraphInv, Filled
  <2>3. CASE Admit \/ Refuse
    BY <1>1, <2>3 DEF GraphInv, Filled, Flow, Admit, Refuse, Creating
  <2> QED BY <2>1, <2>2, <2>3
<1>8. CreationLeavesNoTrace' /\ ReplaysOwnStep'
  <2>1. ReplaysOwnStep'
    BY <1>1 DEF GraphInv, ReplaysOwnStep
  <2>2. CreationLeavesNoTrace'
    BY <1>1 DEF GraphInv, Flow, CreationLeavesNoTrace, WarmUp, WarmReset,
       SkipWarmUp, Probe, Admit, Refuse, runner, Wiped
  <2> QED BY <2>1, <2>2
<1> QED BY <1>1, <1>2, <1>4, <1>6, <1>7, <1>8, <1>5, RunnerMoves

\* Requests, where they replay nothing.
LEMMA ServingKeeps ==
  ASSUME GraphInv, BeginRequest \/ SerialStep \/ RequestEnds
  PROVE  GraphInv'
<1>1. /\ UNCHANGED <<slots, staged, graphs, owners, cap, ran, capturing, ready,
                     retired, cursor, entry>>
      /\ phase \in {"serve", "request"} /\ phase' \in {"serve", "request"}
  BY DEF BeginRequest, SerialStep, RequestEnds, handles, runner
<1>2. cap.pc = "none" /\ RunnerTypes /\ Flow
  BY <1>1 DEF GraphInv, Flow
<1>3. RunnerTypes'
  <2> USE <1>1, <1>2 DEF RunnerTypes, Creating, Serving
  <2>1. CASE BeginRequest
    <3>1. PICK p \in Positions, m \in {"ordinary", "prepared", "traced"} :
            /\ seq' = p /\ dirty' = 0 .. p - 1
            /\ req' = [mode |-> m, replays |-> 0]
      BY <2>1 DEF BeginRequest
    <3>2. seq' \in 0 .. Capacity /\ dirty' \subseteq Positions
      BY <3>1 DEF Positions
    <3>3. req' \in [mode : {"none", "ordinary", "prepared", "traced"}, replays : Nat]
      BY <3>1
    <3>4. served' \in Nat
      BY <2>1 DEF BeginRequest
    <3> QED BY <3>2, <3>3, <3>4
  <2>2. CASE SerialStep
    <3>1. seq \in Positions /\ seq' \in {seq, seq + 1} /\ dirty' = dirty \cup {seq}
          /\ UNCHANGED <<req, served>>
      BY <2>2 DEF SerialStep, CapacityLeft, Positions
    <3>2. seq' \in 0 .. Capacity
      BY <3>1 DEF Positions
    <3> QED BY <3>1, <3>2
  <2>3. CASE RequestEnds
    BY <2>3 DEF RequestEnds, runner, NoRequest
  <2> QED BY <2>1, <2>2, <2>3
<1>4. FlagTypes'
  BY <1>1 DEF GraphInv, FlagTypes, BeginRequest, SerialStep, RequestEnds, runner
<1>5. Flow'
  <2> USE <1>1, <1>2 DEF Flow, Creating, Serving
  <2>1. CASE BeginRequest
    BY <2>1 DEF BeginRequest, RunnerTypes
  <2>2. CASE SerialStep
    BY <2>2 DEF SerialStep
  <2>3. CASE RequestEnds
    BY <2>3 DEF RequestEnds
  <2> QED BY <2>1, <2>2, <2>3
<1>6. Filled'
  BY <1>1 DEF GraphInv, Filled
<1>7. CreationLeavesNoTrace'
  <2>1. served' # 0
    BY <1>2 DEF BeginRequest, SerialStep, RequestEnds, Flow, Serving, RunnerTypes
  <2> QED BY <2>1 DEF CreationLeavesNoTrace
<1>8. ReplaysOwnStep'
  <2>1. CASE BeginRequest
    <3>1. req'.replays = 0
      BY <2>1 DEF BeginRequest
    <3> QED BY <1>1, <3>1 DEF GraphInv, ReplaysOwnStep
  <2>2. CASE SerialStep
    BY <1>1, <2>2 DEF GraphInv, ReplaysOwnStep, SerialStep
  <2>3. CASE RequestEnds
    <3>1. req'.replays = 0
      BY <2>3 DEF RequestEnds, NoRequest
    <3> QED BY <1>1, <3>1 DEF GraphInv, ReplaysOwnStep
  <2> QED BY <2>1, <2>2, <2>3
<1> QED BY <1>1, <1>2, <1>3, <1>4, <1>5, <1>6, <1>7, <1>8, RunnerMoves

\* The begin of a capture records, and holds nothing yet.
LEMMA BeginKeeps ==
  ASSUME GraphInv, PrepareCapture \/ ScreenCapture
  PROVE  GraphInv'
<1>1. /\ UNCHANGED <<slots, staged, graphs, owners, ran, ready, retired, cursor,
                     entry, dirty, poisoned, req>>
      /\ cap.pc = "none" /\ BeginCapture
  BY DEF PrepareCapture, ScreenCapture, BeginCapture, handles
<1>2. /\ cap'.pc = "recording" /\ cap'.g = 0 /\ cap'.o = 0
      /\ cap'.shared = (SharedOwner # 0) /\ capturing' = TRUE
      /\ cap' \in CaptureType
  <2> DEFINE b == SharedOwner # 0
  <2>1. /\ cap' = [NoCapture EXCEPT !.pc = "recording", !.shared = b]
        /\ capturing' = TRUE /\ b \in BOOLEAN
    BY <1>1 DEF BeginCapture
  <2> HIDE DEF b
  <2>2. cap' = [pc |-> "recording", g |-> 0, o |-> 0, shared |-> b]
    BY <2>1 DEF NoCapture
  <2>3. cap' \in CaptureType
    BY <2>1, <2>2 DEF CaptureType
  <2>4. cap'.pc = "recording" /\ cap'.g = 0 /\ cap'.o = 0 /\ cap'.shared = b
    BY <2>2
  <2> QED BY <2>1, <2>3, <2>4 DEF b
<1>3. cap.g = 0 /\ cap.o = 0 /\ RunnerTypes /\ Flow
  BY <1>1 DEF GraphInv, Capturing
<1>4. Sound(slots)' /\ Sound(staged)'
  BY <1>1 DEF GraphInv, Sound
<1>5. Counted' /\ NoOrphans'
  BY <1>1, <1>2, <1>3 DEF GraphInv, Counted, NoOrphans, Used, Kept, Refs
<1>6. HandleTypes'
  BY <1>1, <1>2 DEF GraphInv, HandleTypes
<1>7. FlagTypes'
  BY <1>1, <1>2 DEF GraphInv, FlagTypes
<1>8. ReplaysOwnStep'
  BY <1>1 DEF GraphInv, ReplaysOwnStep
<1>9. CASE PrepareCapture
  <2>1. /\ phase = "prepare" /\ phase' = "prepare" /\ cursor =< LastPosition
        /\ seq' = cursor /\ UNCHANGED served
    BY <1>3, <1>9, WindowFacts
       DEF PrepareCapture, ForCache, AllCaptured, Flow, RunnerTypes
  <2>2. cursor \in Window /\ cursor \in Positions
    BY <1>3, <2>1, WindowFacts DEF Flow, RunnerTypes
  <2>3. RunnerTypes'
    <3>1. cursor \in 0 .. Capacity
      BY <2>2 DEF Positions
    <3> QED BY <1>1, <1>3, <2>1, <3>1 DEF RunnerTypes
  <2>4. Flow'
    BY <1>1, <1>2, <1>3, <2>1, <2>2 DEF Flow
  <2>5. Filled'
    BY <1>1, <2>1 DEF GraphInv, Filled
  <2>6. cap'.shared <=> cursor # First
    <3>1. CASE cursor # First
      <4>1. First \in First .. cursor - 1
        BY <1>3, <2>2, <3>1, WindowFacts DEF RunnerTypes
      <4>2. staged[First] # Empty
        BY <2>1, <4>1, WindowFacts DEF GraphInv, Filled
      <4>3. staged[First].o \in Handles
        BY <4>2, WindowFacts DEF GraphInv, Sound
      <4> QED BY <1>2, <2>1, <3>1, <4>3, GoneFacts DEF SharedOwner, ForCache
    <3>2. CASE cursor = First
      BY <1>2, <3>2 DEF SharedOwner
    <3> QED BY <3>1, <3>2
  <2>7. Capturing'
    BY <1>1, <1>2, <2>1, <2>6 DEF Capturing, ForCache
  <2>8. CreationLeavesNoTrace'
    BY <2>1 DEF CreationLeavesNoTrace
  <2> QED BY <1>4, <1>5, <1>6, <1>7, <1>8, <2>3, <2>4, <2>5, <2>7, <2>8
       DEF GraphInv
<1>10. CASE ScreenCapture
  <2>1. /\ phase = "serve" /\ phase' = "screening" /\ seq \in Positions
        /\ UNCHANGED seq /\ served' = served + 1
    BY <1>10 DEF ScreenCapture
  <2>2. RunnerTypes'
    BY <1>1, <1>3, <2>1 DEF RunnerTypes, Serving
  <2>3. Flow'
    BY <1>1, <1>2, <1>3, <2>1 DEF Flow, Creating, Serving, RunnerTypes
  <2>4. Filled'
    BY <1>1, <2>1 DEF GraphInv, Filled
  <2>5. ~cap'.shared
    BY <1>2, <2>1 DEF SharedOwner, ForCache
  <2>6. Capturing'
    BY <1>2, <2>1, <2>5 DEF Capturing, ForCache
  <2>7. CreationLeavesNoTrace'
    BY <2>1 DEF CreationLeavesNoTrace
  <2> QED BY <1>4, <1>5, <1>6, <1>7, <1>8, <2>2, <2>3, <2>4, <2>6, <2>7
       DEF GraphInv
<1> QED BY <1>9, <1>10

\* The end of a capture: its graph is in no slot yet.
LEMMA EndCaptureKeeps ==
  ASSUME GraphInv, EndCapture
  PROVE  GraphInv'
<1> DEFINE new == [pos |-> seq, tok |-> CaptureToken, nodes |-> "all"]
<1>1. PICK h0 \in Handles : graphs[h0] = Dead /\ h0 = FreeGraph
  BY DEF EndCapture, FreeGraph
<1>2. /\ UNCHANGED <<phase, slots, staged, owners, cursor, entry, seq, dirty,
                     poisoned, ready, req, served, ran, retired>>
      /\ cap.pc = "recording" /\ graphs' = [graphs EXCEPT ![h0] = new]
      /\ capturing' = FALSE /\ cap' = [cap EXCEPT !.pc = "captured", !.g = h0]
  BY <1>1 DEF EndCapture
<1>3. cap.g = 0 /\ cap.o = 0 /\ HandleTypes /\ RunnerTypes /\ Flow /\ seq \in Positions
  BY <1>2 DEF GraphInv, Capturing, Flow
<1>4. /\ cap'.pc = "captured" /\ cap'.g = h0 /\ cap'.o = 0
      /\ cap'.shared = cap.shared
  BY <1>2, <1>3 DEF HandleTypes, CaptureType
<1>5. /\ graphs'[h0] = new
      /\ \A h \in Handles \ {h0} : graphs'[h] = graphs[h]
  BY <1>1, <1>2, <1>3 DEF HandleTypes
<1>6. ~Kept(h0)
  BY <1>1, SlotFacts DEF Kept
<1>7. Sound(slots)' /\ Sound(staged)'
  <2>1. \A f \in {slots, staged} : \A p \in Positions : f[p].g # h0
    BY <1>6 DEF Kept
  <2> QED BY <1>2, <1>5, <2>1 DEF GraphInv, Sound
<1>8. Counted'
  BY <1>2 DEF GraphInv, Counted, Refs
<1>9. NoOrphans'
  BY <1>2, <1>3, <1>4, <1>5, GoneFacts DEF GraphInv, NoOrphans, Used, Kept
<1>10. Capturing'
  <2>1. ~Kept(h0)' /\ h0 # 0
    BY <1>1, <1>2, <1>6, GoneFacts DEF Kept
  <2>2. graphs'[h0].pos = seq /\ graphs'[h0].nodes = "all"
    BY <1>5
  <2> QED BY <1>1, <1>2, <1>4, <2>1, <2>2 DEF GraphInv, Capturing, ForCache
<1>11. HandleTypes'
  <2>1. new \in GraphType
    BY <1>3 DEF GraphType, Positions
  <2>2. graphs' \in [Handles -> GraphType]
    BY <1>1, <1>2, <1>3, <2>1 DEF HandleTypes
  <2>3. cap' \in CaptureType
    BY <1>1, <1>2, <1>3, GoneFacts DEF HandleTypes, CaptureType
  <2> QED BY <1>2, <1>3, <2>2, <2>3 DEF HandleTypes
<1>12. RunnerTypes' /\ Filled' /\ CreationLeavesNoTrace' /\ ReplaysOwnStep'
  BY <1>2 DEF GraphInv, RunnerTypes, Filled, CreationLeavesNoTrace, ReplaysOwnStep
<1>13. FlagTypes'
  BY <1>2 DEF GraphInv, FlagTypes
<1>14. Flow'
  BY <1>2, <1>3, <1>4 DEF Flow
<1> QED BY <1>7, <1>8, <1>9, <1>10, <1>11, <1>12, <1>13, <1>14 DEF GraphInv

\* A new position or token in an executable: whatever a shared one is brought
\* to, one of its own stays at its position.
LEMMA RunsKeep ==
  ASSUME GraphInv, UNCHANGED <<slots, staged>>,
         owners' \in [Handles -> OwnerType], graphs' \in [Handles -> GraphType],
         \A h \in Handles : /\ owners'[h].refs = owners[h].refs
                            /\ owners'[h].shared = owners[h].shared
                            /\ owners'[h].live = owners[h].live
                            /\ \/ owners[h].shared
                               \/ owners'[h].runs.pos = owners[h].runs.pos,
         \A h \in Handles : /\ graphs'[h].pos = graphs[h].pos
                            /\ graphs'[h].nodes = graphs[h].nodes
                            /\ graphs'[h] # Dead => graphs[h] # Dead
  PROVE  /\ Sound(slots)' /\ Sound(staged)' /\ Counted'
         /\ \A h \in Handles : /\ Used(h)' <=> Used(h)
                               /\ Kept(h)' <=> Kept(h)
<1>1. Sound(slots)'
  BY DEF GraphInv, Sound
<1>2. Sound(staged)'
  BY DEF GraphInv, Sound
<1>3. Counted'
  BY DEF GraphInv, Counted, Refs
<1>4. \A h \in Handles : (Used(h)' <=> Used(h)) /\ (Kept(h)' <=> Kept(h))
  BY DEF Used, Kept
<1> QED BY <1>1, <1>2, <1>3, <1>4

\* The executable that a preparation shares.
LEMMA SharedFacts ==
  ASSUME GraphInv, cap.pc # "none", cap.shared
  PROVE  /\ phase = "prepare" /\ cursor # First /\ cursor \in Window
         /\ SharedOwner = staged[First].o /\ SharedOwner \in Handles
         /\ owners[SharedOwner].live /\ owners[SharedOwner].shared
         /\ staged[First] # Empty
<1>1. phase = "prepare" /\ cursor # First
  BY DEF GraphInv, Capturing, ForCache
<1>2. cursor \in Window
  BY <1>1 DEF GraphInv, Flow
<1>3. First \in First .. cursor - 1
  BY <1>1, <1>2, WindowFacts
<1>4. staged[First] # Empty
  BY <1>1, <1>3, WindowFacts DEF GraphInv, Filled
<1>5. /\ staged[First].o \in Handles /\ owners[staged[First].o].live
      /\ owners[staged[First].o].shared
  <2>1. staged[First].o \in Handles /\ owners[staged[First].o].live
    BY <1>4, WindowFacts DEF GraphInv, Sound
  <2>2. owners[staged[First].o].shared
    BY <1>1, <1>4, WindowFacts DEF GraphInv, Filled
  <2> QED BY <2>1, <2>2
<1>6. SharedOwner = staged[First].o
  BY <1>1 DEF SharedOwner, ForCache
<1> QED BY <1>1, <1>2, <1>4, <1>5, <1>6

\* The capture gets its executable: the shared one, brought to its position, or
\* a new one that no slot uses.
LEMMA InstantiateKeeps ==
  ASSUME GraphInv, Instantiate
  PROVE  GraphInv'
<1>1. /\ UNCHANGED <<phase, slots, staged, graphs, cursor, entry, seq, dirty,
                     poisoned, capturing, ready, req, served, ran, retired>>
      /\ cap.pc = "captured"
  BY DEF Instantiate
<1>2. /\ cap.o = 0 /\ HandleTypes /\ RunnerTypes /\ Flow /\ seq \in Positions
      /\ cap.g \in Handles /\ ~Kept(cap.g) /\ graphs[cap.g].pos = seq
      /\ graphs[cap.g].nodes = "all" /\ Capturing
  BY <1>1 DEF GraphInv, Capturing, Flow
<1>3. graphs[cap.g] \in GraphType
  BY <1>2 DEF HandleTypes
<1>4. RunnerTypes' /\ CreationLeavesNoTrace' /\ ReplaysOwnStep'
  BY <1>1 DEF GraphInv, RunnerTypes, CreationLeavesNoTrace, ReplaysOwnStep
<1>5. FlagTypes'
  BY <1>1 DEF GraphInv, FlagTypes
<1>6. ASSUME cap'.pc = "ready" PROVE Flow'
  BY <1>1, <1>2, <1>6 DEF Flow
<1>7. CASE cap.shared
  <2> DEFINE o == SharedOwner
  <2>1. /\ owners' = [owners EXCEPT ![o].runs = graphs[cap.g]]
        /\ cap' = [cap EXCEPT !.pc = "ready", !.o = o]
    BY <1>7 DEF Instantiate
  <2>2. /\ phase = "prepare" /\ cursor # First /\ o = staged[First].o
        /\ o \in Handles /\ owners[o].live /\ owners[o].shared
    BY <1>1, <1>7, SharedFacts
  <2> HIDE DEF o
  <2>3. /\ cap'.pc = "ready" /\ cap'.g = cap.g /\ cap'.o = o
        /\ cap'.shared = cap.shared /\ cap' \in CaptureType
    BY <1>2, <2>1, <2>2, GoneFacts DEF HandleTypes, CaptureType
  <2>4. owners \in [Handles -> OwnerType]
    BY <1>2 DEF HandleTypes
  <2>5. owners' \in [Handles -> OwnerType]
    BY <1>3, <2>1, <2>2, <2>4 DEF OwnerType
  <2>6. \A h \in Handles : /\ owners'[h].refs = owners[h].refs
                           /\ owners'[h].shared = owners[h].shared
                           /\ owners'[h].live = owners[h].live
                           /\ \/ owners[h].shared
                              \/ owners'[h].runs.pos = owners[h].runs.pos
    BY <2>1, <2>2, <2>4 DEF OwnerType
  <2>7. /\ Sound(slots)' /\ Sound(staged)' /\ Counted'
        /\ \A h \in Handles : /\ Used(h)' <=> Used(h)
                              /\ Kept(h)' <=> Kept(h)
    <3>1. graphs' \in [Handles -> GraphType]
      BY <1>1, <1>2 DEF HandleTypes
    <3> QED BY <1>1, <2>5, <2>6, <3>1, RunsKeep
  <2>8. NoOrphans'
    BY <1>1, <1>2, <2>3, <2>6, <2>7, GoneFacts DEF GraphInv, NoOrphans
  <2>9. Capturing'
    <3>1. owners'[o].live
      BY <2>2, <2>6
    <3>2. ~Kept(cap.g)'
      BY <1>1, <1>2, <2>3 DEF Kept
    <3> QED BY <1>1, <1>2, <1>7, <2>2, <2>3, <3>1, <3>2 DEF Capturing, ForCache
  <2>10. Filled'
    BY <1>1, <2>6 DEF GraphInv, Filled, Sound
  <2>11. HandleTypes'
    BY <1>1, <1>2, <2>3, <2>5 DEF HandleTypes
  <2> QED BY <1>4, <1>5, <1>6, <2>3, <2>7, <2>8, <2>9, <2>10, <2>11 DEF GraphInv
<1>8. CASE ~cap.shared
  <2> DEFINE new == [refs |-> 0, shared |-> ForCache, live |-> TRUE,
                     runs |-> graphs[cap.g]]
  <2>1. PICK o \in Handles : ~owners[o].live /\ o = FreeOwner
    BY <1>8 DEF Instantiate, FreeOwner
  <2>2. /\ owners' = [owners EXCEPT ![o] = new]
        /\ cap' = [cap EXCEPT !.pc = "ready", !.o = o]
    BY <1>8, <2>1 DEF Instantiate
  <2>3. /\ cap'.pc = "ready" /\ cap'.g = cap.g /\ cap'.o = o
        /\ cap'.shared = cap.shared /\ cap' \in CaptureType
    BY <1>2, <2>2, <2>1, GoneFacts DEF HandleTypes, CaptureType
  <2>4. ~Used(o)
    BY <2>1, SlotFacts DEF Used
  <2>5. /\ owners'[o] = new
        /\ \A h \in Handles \ {o} : owners'[h] = owners[h]
    BY <1>2, <2>2, <2>1 DEF HandleTypes
  <2>6. new \in OwnerType
    <3>1. ForCache \in BOOLEAN
      BY DEF ForCache
    <3> QED BY <1>3, <3>1 DEF OwnerType
  <2>7. /\ new.refs = 0 /\ new.live = TRUE /\ new.runs.pos = seq
        /\ new.shared = ForCache
    BY <1>2
  <2> HIDE DEF new
  <2>8. \A p \in Positions : slots[p].o # o /\ staged[p].o # o
    BY <2>4 DEF Used
  <2>9. Sound(slots)' /\ Sound(staged)'
    BY <1>1, <2>5, <2>8 DEF GraphInv, Sound
  <2>10. Counted'
    <3>1. Refs(slots, Positions, o) = 0 /\ Refs(staged, Positions, o) = 0
      BY <2>4, UsedFacts
    <3>2. owners'[o].refs = 0
      BY <2>5, <2>7
    <3>3. \A h \in Handles : /\ Refs(slots, Positions, h)' = Refs(slots, Positions, h)
                             /\ Refs(staged, Positions, h)' = Refs(staged, Positions, h)
      BY <1>1 DEF Refs
    <3>4. \A h \in Handles : owners'[h].refs = Refs(slots, Positions, h)
                                               + Refs(staged, Positions, h)
      BY <2>5, <3>1, <3>2 DEF GraphInv, Counted
    <3> QED BY <3>3, <3>4 DEF Counted
  <2>11. NoOrphans'
    BY <1>1, <1>2, <2>3, <2>5, GoneFacts DEF GraphInv, NoOrphans, Used, Kept
  <2>12. Capturing'
    <3>1. ~Kept(cap.g)' /\ ~Used(cap.o)'
      BY <1>1, <1>2, <2>3, <2>4 DEF Kept, Used
    <3>2. owners'[o].live /\ owners'[o].runs.pos = seq
      BY <2>5, <2>7
    <3>3. owners'[o].shared <=> ForCache
      BY <2>5, <2>7
    <3>4. ForCache' <=> ForCache
      BY <1>1 DEF ForCache
    <3> QED BY <1>1, <1>2, <1>8, <2>1, <2>3, <3>1, <3>2, <3>3, <3>4 DEF Capturing
  <2>13. Filled'
    BY <1>1, <2>5, <2>8 DEF GraphInv, Filled, Sound
  <2>14. HandleTypes'
    BY <1>1, <1>2, <2>2, <2>1, <2>3, <2>6 DEF HandleTypes
  <2> QED BY <1>4, <1>5, <1>6, <2>3, <2>9, <2>10, <2>11, <2>12, <2>13, <2>14
       DEF GraphInv
<1> QED BY <1>7, <1>8

\* A slot without a handle leads nowhere.
LEMMA EmptyCounts ==
  ASSUME NEW f, \A p \in Positions : f[p] = Empty, NEW h \in Handles
  PROVE  Refs(f, Positions, h) = 0
<1>1. Positions \in SUBSET Positions
  OBVIOUS
<1>2. /\ Refs(f, Positions, h) \in 0 .. Capacity
      /\ Refs(f, Positions, h) > 0 <=> \E p \in Positions : f[p].o = h
  BY <1>1, RefsType
<1>3. ~ \E p \in Positions : f[p].o = h
  BY GoneFacts
<1> QED BY <1>2, <1>3

\* A preparation publishes into its own, empty slot.
LEMMA PublishStagedKeeps ==
  ASSUME GraphInv, Publish, phase = "prepare"
  PROVE  GraphInv'
<1> DEFINE c == cursor
           slot == [g |-> cap.g, o |-> cap.o]
<1>1. /\ cap.pc = "ready" /\ ForCache /\ KeptNodes = "all"
      /\ owners' = [OwnersWithout(staged, {c}) EXCEPT ![cap.o].refs = @ + 1]
      /\ graphs' = [GraphsWithout(staged, {c}) EXCEPT ![cap.g].nodes = "all"]
      /\ staged' = [staged EXCEPT ![c] = slot] /\ cursor' = c + 1
      /\ cap' = NoCapture
      /\ UNCHANGED <<slots, phase, entry, seq, dirty, poisoned, capturing,
                     ready, req, served, ran, retired>>
  BY DEF Publish, ForCache, KeptNodes
<1>2. HandleTypes /\ RunnerTypes /\ FlagTypes /\ Flow /\ Filled /\ Counted
      /\ NoOrphans /\ Capturing /\ Sound(staged)
  BY DEF GraphInv
<1>3. seq = c /\ c \in Window /\ c \in Positions /\ c \in Nat
  BY <1>1, <1>2, WindowFacts DEF Flow, RunnerTypes
<1>4. \A p \in Positions : slots[p] = Empty
  BY <1>2 DEF Filled
<1>5. staged[c] = Empty
  <2>1. c \notin First .. c - 1
    BY <1>3
  <2> QED BY <1>2, <1>3, <2>1 DEF Filled
<1>6. OwnersWithout(staged, {c}) = owners
  <2>1. \A h \in Handles : Refs(staged, {c}, h) = 0
    BY <1>3, <1>5, RefsOne, GoneFacts
  <2>2. \A h \in Handles : ~(Refs(staged, {c}, h) > 0)
    BY <2>1
  <2>3. OwnersWithout(staged, {c}) = [h \in Handles |-> owners[h]]
    BY <2>2 DEF OwnersWithout
  <2> QED BY <1>2, <2>3 DEF HandleTypes
<1>7. GraphsWithout(staged, {c}) = graphs
  <2>1. \A h \in Handles : ~ \E p \in {c} : staged[p].g = h
    BY <1>5, GoneFacts
  <2>2. GraphsWithout(staged, {c}) = [h \in Handles |-> graphs[h]]
    BY <2>1 DEF GraphsWithout
  <2> QED BY <1>2, <2>2 DEF HandleTypes
<1>8. /\ cap.g \in Handles /\ cap.o \in Handles /\ owners[cap.o].live
      /\ graphs[cap.g].pos = c /\ graphs[cap.g].nodes = "all"
  BY <1>1, <1>2, <1>3 DEF Capturing
<1>9. owners[cap.o].shared
  <2>1. CASE cap.shared
    BY <1>1, <1>2, <2>1, SharedFacts DEF Capturing
  <2>2. CASE ~cap.shared
    BY <1>1, <1>2, <2>2 DEF Capturing
  <2> QED BY <2>1, <2>2
<1>10. c # First => cap.o = staged[First].o
  BY <1>1, <1>2 DEF Capturing
<1>11. owners \in [Handles -> OwnerType] /\ graphs \in [Handles -> GraphType]
       /\ staged \in [Positions -> SlotType]
  BY <1>2 DEF HandleTypes
<1>12. /\ owners' \in [Handles -> OwnerType]
       /\ owners'[cap.o].refs = owners[cap.o].refs + 1
       /\ \A h \in Handles \ {cap.o} : owners'[h].refs = owners[h].refs
       /\ \A h \in Handles : /\ owners'[h].shared = owners[h].shared
                             /\ owners'[h].live = owners[h].live
                             /\ owners'[h].runs = owners[h].runs
  <2>1. owners' = [owners EXCEPT ![cap.o].refs = @ + 1]
    BY <1>1, <1>6
  <2> QED BY <1>8, <1>11, <2>1 DEF OwnerType
<1>13. /\ graphs' \in [Handles -> GraphType]
       /\ \A h \in Handles \ {cap.g} : graphs'[h] = graphs[h]
       /\ graphs'[cap.g].pos = c /\ graphs'[cap.g].nodes = "all"
  <2>1. graphs' = [graphs EXCEPT ![cap.g].nodes = "all"]
    BY <1>1, <1>7
  <2> QED BY <1>8, <1>11, <2>1 DEF GraphType
<1>14. /\ staged'[c] = slot /\ slot.g = cap.g /\ slot.o = cap.o
       /\ \A p \in Positions \ {c} : staged'[p] = staged[p]
       /\ staged' \in [Positions -> SlotType]
  <2>1. slot \in SlotType
    BY <1>8, GoneFacts DEF SlotType
  <2> QED BY <1>1, <1>3, <1>11, <2>1
<1>15. slot # Empty
  BY <1>8, <1>14, GoneFacts
<1> HIDE DEF slot
<1>16. Sound(slots)'
  BY <1>1, <1>4 DEF Sound
<1>17. Sound(staged)'
  <2> SUFFICES ASSUME NEW p \in Positions, staged'[p] # Empty
               PROVE  /\ staged'[p].g \in Handles /\ staged'[p].o \in Handles
                      /\ owners'[staged'[p].o].live /\ graphs'[staged'[p].g].pos = p
                      /\ owners'[staged'[p].o].shared =>
                           graphs'[staged'[p].g].nodes = "all"
                      /\ ~owners'[staged'[p].o].shared =>
                           owners'[staged'[p].o].runs.pos = p
    BY DEF Sound
  <2>1. CASE p = c
    <3>1. /\ staged'[p].g = cap.g /\ staged'[p].o = cap.o
          /\ owners'[cap.o].live /\ owners'[cap.o].shared
      BY <1>8, <1>9, <1>12, <1>14, <2>1
    <3> QED BY <1>8, <1>13, <2>1, <3>1
  <2>2. CASE p # c
    <3>1. staged'[p] = staged[p] /\ staged[p] # Empty
      BY <1>14, <2>2
    <3>2. /\ staged[p].g \in Handles /\ staged[p].o \in Handles
          /\ owners[staged[p].o].live /\ graphs[staged[p].g].pos = p
          /\ owners[staged[p].o].shared => graphs[staged[p].g].nodes = "all"
          /\ ~owners[staged[p].o].shared => owners[staged[p].o].runs.pos = p
      BY <1>2, <3>1 DEF Sound
    <3>3. staged[p].g # cap.g
      BY <1>8, <2>2, <3>2
    <3> QED BY <1>12, <1>13, <3>1, <3>2, <3>3
  <2> QED BY <2>1, <2>2
<1>18. Counted'
  <2> SUFFICES ASSUME NEW h \in Handles
               PROVE  owners'[h].refs = Refs(slots', Positions, h)
                                        + Refs(staged', Positions, h)
    BY DEF Counted, Refs
  <2>1. /\ owners[h].refs = Refs(slots, Positions, h) + Refs(staged, Positions, h)
        /\ Refs(slots, Positions, h) \in Nat /\ Refs(staged, Positions, h) \in Nat
    BY <1>2, UsedFacts DEF Counted
  <2>2. Refs(staged', Positions, h) =
          Refs(staged, Positions, h) - One(staged[c], h) + One(slot, h)
    <3>1. Refs(staged', Positions, h) =
            Refs(staged, Positions, h) - One(staged[c], h) + One(staged'[c], h)
      BY <1>3, <1>14, RefsUpdate
    <3> QED BY <1>14, <3>1
  <2>3. One(staged[c], h) = 0 /\ One(slot, h) \in Nat
    BY <1>5, GoneFacts DEF One
  <2>4. owners'[h].refs = owners[h].refs + One(slot, h)
    BY <1>11, <1>12, <1>14 DEF OwnerType, One
  <2>5. Refs(slots', Positions, h) = Refs(slots, Positions, h)
    BY <1>1
  <2> QED BY <2>1, <2>2, <2>3, <2>4, <2>5
<1>19. NoOrphans'
  <2> SUFFICES ASSUME NEW h \in Handles
               PROVE  /\ owners'[h].live => Used(h)'
                      /\ graphs'[h] # Dead => Kept(h)'
    BY DEF NoOrphans
  <2>1. staged[c].o # h /\ staged[c].g # h
    BY <1>5, GoneFacts
  <2>2. Used(h) \/ cap.o = h => Used(h)'
    BY <1>1, <1>3, <1>14, <2>1 DEF Used
  <2>3. Kept(h) \/ cap.g = h => Kept(h)'
    BY <1>1, <1>3, <1>14, <2>1 DEF Kept
  <2>4. owners'[h].live => Used(h) \/ cap.o = h
    BY <1>2, <1>12 DEF NoOrphans
  <2>5. graphs'[h] # Dead => Kept(h) \/ cap.g = h
    BY <1>2, <1>13 DEF NoOrphans
  <2> QED BY <2>2, <2>3, <2>4, <2>5
<1>20. Capturing'
  BY <1>1 DEF Capturing, NoCapture
<1>21. HandleTypes'
  <2>1. NoCapture \in CaptureType
    BY DEF NoCapture, CaptureType
  <2> QED BY <1>1, <1>2, <1>12, <1>13, <1>14, <2>1 DEF HandleTypes
<1>22. RunnerTypes'
  BY <1>1, <1>2, <1>3 DEF RunnerTypes
<1>23. FlagTypes'
  BY <1>1, <1>2 DEF FlagTypes
<1>24. Flow'
  <2>1. c + 1 \in First .. LastPosition + 1
    BY <1>3, WindowFacts
  <2>2. cap'.pc = "none" /\ ~capturing
    BY <1>1, <1>2 DEF NoCapture, Flow
  <2> QED BY <1>1, <1>2, <2>1, <2>2 DEF Flow
<1>25. Filled'
  <2>1. \A p \in Positions : staged'[p] # Empty <=> p \in First .. c
    <3> SUFFICES ASSUME NEW p \in Positions
                 PROVE  staged'[p] # Empty <=> p \in First .. c
      OBVIOUS
    <3>1. CASE p = c
      <4>1. c \in First .. c
        BY <1>3, WindowFacts
      <4> QED BY <1>14, <1>15, <3>1, <4>1
    <3>2. CASE p # c
      <4>1. p \in First .. c <=> p \in First .. c - 1
        BY <1>3, <3>2, WindowFacts DEF Positions
      <4>2. staged[p] # Empty <=> p \in First .. c - 1
        BY <1>2 DEF Filled
      <4> QED BY <1>14, <3>2, <4>1, <4>2
    <3> QED BY <3>1, <3>2
  <2>2. \A p \in Positions : staged'[p] # Empty =>
          staged'[p].o = staged'[First].o /\ owners'[staged'[p].o].shared
    <3> SUFFICES ASSUME NEW p \in Positions, staged'[p] # Empty
                 PROVE  staged'[p].o = staged'[First].o /\ owners'[staged'[p].o].shared
      OBVIOUS
    <3>1. CASE p = c
      <4>1. owners'[cap.o].shared
        BY <1>8, <1>9, <1>12
      <4>2. First # c => staged'[First] = staged[First]
        BY <1>14, WindowFacts
      <4> QED BY <1>10, <1>14, <3>1, <4>1, <4>2
    <3>2. CASE p # c
      <4>1. staged'[p] = staged[p] /\ staged[p] # Empty
        BY <1>14, <3>2
      <4>2. p \in First .. c /\ First # c
        BY <1>3, <2>1, <3>2, WindowFacts
      <4>3. staged'[First] = staged[First]
        BY <1>14, <4>2, WindowFacts
      <4>4. staged[p].o = staged[First].o /\ owners[staged[p].o].shared
        BY <1>2, <4>1 DEF Filled
      <4>5. staged[p].o \in Handles
        BY <1>2, <4>1 DEF Sound
      <4> QED BY <1>12, <4>1, <4>3, <4>4, <4>5
    <3> QED BY <3>1, <3>2
  <2>3. ~ready
    BY <1>2 DEF Flow, Creating
  <2>4. cursor' - 1 = c
    BY <1>1, <1>3
  <2> QED BY <1>1, <1>4, <2>1, <2>2, <2>3, <2>4 DEF Filled
<1>26. CreationLeavesNoTrace' /\ ReplaysOwnStep'
  BY <1>1 DEF GraphInv, CreationLeavesNoTrace, ReplaysOwnStep
<1> QED BY <1>16, <1>17, <1>18, <1>19, <1>20, <1>21, <1>22, <1>23, <1>24, <1>25,
       <1>26 DEF GraphInv

\* A standalone capture replaces the slot of its position: what that slot held
\* is given back, and nobody else loses anything.
LEMMA PublishSlotKeeps ==
  ASSUME GraphInv, Publish, phase # "prepare"
  PROVE  GraphInv'
<1> DEFINE old == slots[seq]
           slot == [g |-> cap.g, o |-> cap.o]
           less(h) == [owners[h] EXCEPT !.refs = owners[h].refs - 1]
<1>1. /\ cap.pc = "ready" /\ ~ForCache /\ KeptNodes = "embedding"
      /\ owners' = [OwnersWithout(slots, {seq}) EXCEPT ![cap.o].refs = @ + 1]
      /\ graphs' = [GraphsWithout(slots, {seq}) EXCEPT ![cap.g].nodes = "embedding"]
      /\ slots' = [slots EXCEPT ![seq] = slot] /\ phase' = "screen"
      /\ cap' = NoCapture
      /\ UNCHANGED <<staged, cursor, entry, seq, dirty, poisoned, capturing,
                     ready, req, served, ran, retired>>
  BY DEF Publish, ForCache, KeptNodes
<1>2. HandleTypes /\ RunnerTypes /\ FlagTypes /\ Flow /\ Filled /\ Counted
      /\ NoOrphans /\ Capturing /\ Sound(slots)
  BY DEF GraphInv
<1>3. phase = "screening" /\ seq \in Positions
  BY <1>1, <1>2 DEF Flow
<1>4. \A p \in Positions : staged[p] = Empty
  BY <1>2, <1>3 DEF Filled
<1>5. owners \in [Handles -> OwnerType] /\ graphs \in [Handles -> GraphType]
      /\ slots \in [Positions -> SlotType]
  BY <1>2 DEF HandleTypes
<1>6. /\ cap.g \in Handles /\ cap.o \in Handles /\ owners[cap.o].live
      /\ graphs[cap.g].pos = seq /\ ~Kept(cap.g) /\ ~Used(cap.o)
      /\ ~owners[cap.o].shared /\ owners[cap.o].runs.pos = seq
  <2>1. ~cap.shared
    BY <1>1, <1>2 DEF Capturing
  <2> QED BY <1>1, <1>2, <2>1 DEF Capturing
<1>7. /\ \A p \in Positions : slots[p].o # cap.o /\ slots[p].g # cap.g
      /\ old.o # cap.o /\ old.g # cap.g
  BY <1>3, <1>6 DEF Used, Kept
<1>8. \A h \in Handles : Refs(slots, {seq}, h) = One(old, h)
  BY <1>3, RefsOne DEF One
<1>9. \A h \in Handles : /\ owners[h].refs = Refs(slots, Positions, h)
                         /\ Refs(slots, Positions, h) \in Nat
                         /\ Refs(staged, Positions, h) = 0
  <2>1. \A h \in Handles : Refs(staged, Positions, h) = 0
    BY <1>4, EmptyCounts
  <2> QED BY <1>2, <2>1, UsedFacts DEF Counted
<1>10. \A h \in Handles : owners[h] \in OwnerType /\ owners[h].refs \in Nat
  BY <1>5, <1>9
<1>11. \A h \in Handles :
         /\ old.o # h => OwnersWithout(slots, {seq})[h] = owners[h]
         /\ old.o = h /\ owners[h].refs - 1 = 0 =>
              OwnersWithout(slots, {seq})[h] = Gone
         /\ old.o = h /\ owners[h].refs - 1 # 0 =>
              OwnersWithout(slots, {seq})[h] = less(h)
  <2> SUFFICES ASSUME NEW h \in Handles
               PROVE  /\ old.o # h => OwnersWithout(slots, {seq})[h] = owners[h]
                      /\ old.o = h /\ owners[h].refs - 1 = 0 =>
                           OwnersWithout(slots, {seq})[h] = Gone
                      /\ old.o = h /\ owners[h].refs - 1 # 0 =>
                           OwnersWithout(slots, {seq})[h] = less(h)
    OBVIOUS
  <2>1. CASE old.o = h
    <3>1. owners[h].live
      BY <1>3, <2>1, SlotFacts
    <3>2. Refs(slots, {seq}, h) = 1
      BY <1>8, <2>1 DEF One
    <3> QED BY <2>1, <3>1, <3>2 DEF OwnersWithout
  <2>2. CASE old.o # h
    <3>1. Refs(slots, {seq}, h) = 0
      BY <1>8, <2>2 DEF One
    <3>2. ~(Refs(slots, {seq}, h) > 0)
      BY <3>1
    <3> QED BY <2>2, <3>2 DEF OwnersWithout
  <2> QED BY <2>1, <2>2
<1>12. DOMAIN OwnersWithout(slots, {seq}) = Handles
  BY DEF OwnersWithout
<1>13. \A h \in Handles : /\ less(h) \in OwnerType
                          /\ less(h).refs = owners[h].refs - 1
                          /\ less(h).live = owners[h].live
                          /\ less(h).shared = owners[h].shared
                          /\ less(h).runs = owners[h].runs
  BY <1>10 DEF OwnerType
<1> HIDE DEF less
<1>14. /\ owners'[cap.o] = [owners[cap.o] EXCEPT !.refs = @ + 1]
       /\ \A h \in Handles \ {cap.o} : owners'[h] = OwnersWithout(slots, {seq})[h]
       /\ DOMAIN owners' = Handles
  <2>1. OwnersWithout(slots, {seq})[cap.o] = owners[cap.o]
    BY <1>6, <1>7, <1>11
  <2> HIDE DEF old
  <2> QED BY <1>1, <1>6, <1>12, <2>1
<1>15. \A h \in Handles : owners'[h] \in OwnerType
  <2>1. owners'[cap.o] \in OwnerType
    BY <1>6, <1>10, <1>14 DEF OwnerType
  <2>2. \A h \in Handles \ {cap.o} : owners'[h] \in OwnerType
    <3> SUFFICES ASSUME NEW h \in Handles \ {cap.o} PROVE owners'[h] \in OwnerType
      OBVIOUS
    <3> HIDE DEF old
    <3>1. owners'[h] \in {owners[h], Gone, less(h)}
      BY <1>11, <1>14
    <3> QED BY <1>10, <1>13, <3>1, GoneFacts
  <2> QED BY <2>1, <2>2
<1>16. \A h \in Handles : owners'[h].refs = owners[h].refs - One(old, h) + One(slot, h)
  <2> SUFFICES ASSUME NEW h \in Handles
               PROVE  owners'[h].refs = owners[h].refs - One(old, h) + One(slot, h)
    OBVIOUS
  <2>1. CASE h = cap.o
    <3>1. One(old, h) = 0 /\ One(slot, h) = 1
      BY <1>7, <2>1 DEF One
    <3>2. owners'[h].refs = owners[h].refs + 1
      BY <1>10, <1>14, <2>1 DEF OwnerType
    <3> QED BY <1>10, <3>1, <3>2
  <2>2. CASE h # cap.o /\ old.o = h
    <3>1. One(old, h) = 1 /\ One(slot, h) = 0
      BY <2>2 DEF One
    <3>2. owners'[h].refs = owners[h].refs - 1
      <4>1. CASE owners[h].refs - 1 = 0
        BY <1>11, <1>14, <2>2, <4>1, GoneFacts
      <4>2. CASE owners[h].refs - 1 # 0
        <5>1. owners'[h] = less(h)
          <6> HIDE DEF old
          <6> QED BY <1>11, <1>14, <2>2, <4>2
        <5> QED BY <1>13, <5>1
      <4> QED BY <4>1, <4>2
    <3> QED BY <1>10, <3>1, <3>2
  <2>3. CASE h # cap.o /\ old.o # h
    <3>1. One(old, h) = 0 /\ One(slot, h) = 0
      BY <2>3 DEF One
    <3>2. owners'[h] = owners[h]
      BY <1>11, <1>14, <2>3
    <3> QED BY <1>10, <3>1, <3>2
  <2> QED BY <2>1, <2>2, <2>3
<1>17. /\ slots'[seq] = slot /\ slot.g = cap.g /\ slot.o = cap.o
       /\ \A p \in Positions \ {seq} : slots'[p] = slots[p]
       /\ slots' \in [Positions -> SlotType] /\ slot # Empty
  <2>1. slot \in SlotType
    BY <1>6, GoneFacts DEF SlotType
  <2>2. slot # Empty
    BY <1>6, GoneFacts
  <2> QED BY <1>1, <1>3, <1>5, <2>1, <2>2
<1>18. /\ graphs' \in [Handles -> GraphType]
       /\ graphs'[cap.g].pos = seq
       /\ \A h \in Handles \ {cap.g} :
            graphs'[h] = IF old.g = h THEN Dead ELSE graphs[h]
  <2>1. \A h \in Handles :
          GraphsWithout(slots, {seq})[h] = IF old.g = h THEN Dead ELSE graphs[h]
    BY DEF GraphsWithout
  <2>2. GraphsWithout(slots, {seq}) \in [Handles -> GraphType]
    BY <1>5, GoneFacts DEF GraphsWithout
  <2>3. GraphsWithout(slots, {seq})[cap.g] = graphs[cap.g]
    BY <1>6, <1>7, <2>1
  <2> HIDE DEF old
  <2>4. graphs' \in [Handles -> GraphType]
    BY <1>1, <1>6, <2>2, <2>3 DEF GraphType
  <2>5. graphs'[cap.g].pos = seq
    BY <1>1, <1>6, <2>2, <2>3 DEF GraphType
  <2>6. \A h \in Handles \ {cap.g} :
          graphs'[h] = IF old.g = h THEN Dead ELSE graphs[h]
    BY <1>1, <1>6, <2>1, <2>2
  <2> QED BY <2>4, <2>5, <2>6
<1> HIDE DEF slot
<1>19. Sound(slots)'
  <2> SUFFICES ASSUME NEW p \in Positions, slots'[p] # Empty
               PROVE  /\ slots'[p].g \in Handles /\ slots'[p].o \in Handles
                      /\ owners'[slots'[p].o].live /\ graphs'[slots'[p].g].pos = p
                      /\ owners'[slots'[p].o].shared =>
                           graphs'[slots'[p].g].nodes = "all"
                      /\ ~owners'[slots'[p].o].shared =>
                           owners'[slots'[p].o].runs.pos = p
    BY DEF Sound
  <2>1. CASE p = seq
    <3>1. slots'[p].g = cap.g /\ slots'[p].o = cap.o
      BY <1>17, <2>1
    <3>2. owners'[cap.o].live /\ ~owners'[cap.o].shared
          /\ owners'[cap.o].runs.pos = seq
      BY <1>6, <1>10, <1>14 DEF OwnerType
    <3> QED BY <1>6, <1>18, <2>1, <3>1, <3>2
  <2>2. CASE p # seq
    <3> DEFINE g == slots[p].g
               o == slots[p].o
    <3>1. slots'[p] = slots[p] /\ slots[p] # Empty
      BY <1>17, <2>2
    <3>2. /\ g \in Handles /\ o \in Handles
          /\ owners[o].live /\ graphs[g].pos = p
          /\ owners[o].shared => graphs[g].nodes = "all"
          /\ ~owners[o].shared => owners[o].runs.pos = p
      BY <1>2, <3>1 DEF Sound
    <3>3. g # cap.g /\ o # cap.o
      BY <1>7
    <3>4. old.g # g
      <4>1. old.g = g => graphs[g].pos = seq
        BY <1>3, <3>2, SlotFacts
      <4> QED BY <2>2, <3>2, <4>1
    <3>5. graphs'[g] = graphs[g]
      BY <1>18, <3>2, <3>3, <3>4
    <3>6. /\ owners'[o].live = owners[o].live /\ owners'[o].shared = owners[o].shared
          /\ owners'[o].runs = owners[o].runs
      <4>1. CASE old.o = o
        <5>1. Refs(slots, Positions, o) >= 2
          BY <1>3, <2>2, <4>1, RefsTwo
        <5>2. owners[o].refs - 1 # 0
          BY <1>9, <3>2, <5>1
        <5>3. owners'[o] = less(o)
          <6> HIDE DEF old, o
          <6>1. OwnersWithout(slots, {seq})[o] = less(o)
            BY <1>11, <3>2, <4>1, <5>2
          <6>2. owners'[o] = OwnersWithout(slots, {seq})[o]
            BY <1>14, <3>2, <3>3
          <6> QED BY <6>1, <6>2
        <5>4. /\ less(o).live = owners[o].live /\ less(o).shared = owners[o].shared
              /\ less(o).runs = owners[o].runs
          <6> HIDE DEF o
          <6> QED BY <1>13, <3>2
        <5> QED BY <5>3, <5>4
      <4>2. CASE old.o # o
        BY <1>11, <1>14, <3>2, <3>3, <4>2
      <4> QED BY <4>1, <4>2
    <3> HIDE DEF g, o
    <3>7. slots[p].g = g /\ slots[p].o = o
      BY DEF g, o
    <3>8. /\ owners'[o].live /\ graphs'[g].pos = p
          /\ owners'[o].shared => graphs'[g].nodes = "all"
          /\ ~owners'[o].shared => owners'[o].runs.pos = p
      BY <3>2, <3>5, <3>6
    <3>9. slots'[p].g = g /\ slots'[p].o = o
      BY <3>1, <3>7
    <3> QED BY <3>2, <3>8, <3>9
  <2> QED BY <2>1, <2>2
<1>20. Sound(staged)'
  BY <1>1, <1>4 DEF Sound
<1>21. \A h \in Handles :
         Refs(slots', Positions, h) = Refs(slots, Positions, h) - One(old, h)
                                                                + One(slot, h)
  <2> SUFFICES ASSUME NEW h \in Handles
               PROVE  Refs(slots', Positions, h) =
                        Refs(slots, Positions, h) - One(old, h) + One(slot, h)
    OBVIOUS
  <2>1. Refs(slots', Positions, h) =
          Refs(slots, Positions, h) - One(slots[seq], h) + One(slots'[seq], h)
    BY <1>3, <1>17, RefsUpdate
  <2> QED BY <1>17, <2>1
<1> HIDE DEF old
<1>22. \A h \in Handles : owners'[h].refs = Refs(slots', Positions, h)
  BY <1>9, <1>16, <1>21
<1>23. Counted'
  <2> SUFFICES ASSUME NEW h \in Handles
               PROVE  owners'[h].refs = Refs(slots', Positions, h)
                                        + Refs(staged', Positions, h)
    BY DEF Counted, Refs
  <2>1. Refs(staged', Positions, h) = 0
    BY <1>1, <1>9
  <2>2. Positions \in SUBSET Positions
    OBVIOUS
  <2>3. Refs(slots', Positions, h) \in 0 .. Capacity
    BY <2>2, RefsType
  <2> QED BY <1>22, <2>1, <2>3
<1>24. NoOrphans'
  <2> SUFFICES ASSUME NEW h \in Handles
               PROVE  /\ owners'[h].live => Used(h)'
                      /\ graphs'[h] # Dead => Kept(h)'
    BY DEF NoOrphans
  <2>1. ASSUME owners'[h].live PROVE Used(h)'
    <3>1. CASE h = cap.o
      BY <1>3, <1>17, <3>1 DEF Used
    <3>2. CASE h # cap.o /\ old.o = h
      <4>1. owners[h].refs - 1 # 0
        BY <1>11, <1>14, <2>1, <3>2, GoneFacts
      <4>2. owners'[h].refs = owners[h].refs - 1
        <5>1. One(old, h) = 1 /\ One(slot, h) = 0
          BY <1>17, <3>2 DEF One
        <5> QED BY <1>10, <1>16, <5>1
      <4>3. /\ Refs(slots', Positions, h) \in 0 .. Capacity
            /\ Refs(slots', Positions, h) > 0 <=> \E p \in Positions : slots'[p].o = h
        <5>1. Positions \in SUBSET Positions
          OBVIOUS
        <5> QED BY <5>1, RefsType
      <4>4. Refs(slots', Positions, h) # 0
        BY <1>22, <4>1, <4>2
      <4> QED BY <4>3, <4>4 DEF Used
    <3>3. CASE h # cap.o /\ old.o # h
      <4>1. owners[h].live
        BY <1>11, <1>14, <2>1, <3>3
      <4>2. Used(h)
        BY <1>2, <3>3, <4>1 DEF NoOrphans
      <4>3. PICK q \in Positions : slots[q].o = h \/ staged[q].o = h
        BY <4>2 DEF Used
      <4>4. q # seq /\ slots[q].o = h
        BY <1>4, <3>3, <4>3, GoneFacts DEF old
      <4> QED BY <1>17, <4>4 DEF Used
    <3> QED BY <3>1, <3>2, <3>3
  <2>2. ASSUME graphs'[h] # Dead PROVE Kept(h)'
    <3>1. CASE h = cap.g
      BY <1>3, <1>17, <3>1 DEF Kept
    <3>2. CASE h # cap.g
      <4>1. old.g # h /\ graphs[h] # Dead
        BY <1>18, <2>2, <3>2
      <4>2. Kept(h)
        BY <1>2, <3>2, <4>1 DEF NoOrphans
      <4>3. PICK q \in Positions : slots[q].g = h \/ staged[q].g = h
        BY <4>2 DEF Kept
      <4>4. q # seq /\ slots[q].g = h
        BY <1>4, <4>1, <4>3, GoneFacts DEF old
      <4> QED BY <1>17, <4>4 DEF Kept
    <3> QED BY <3>1, <3>2
  <2> QED BY <2>1, <2>2
<1>25. Capturing'
  BY <1>1 DEF Capturing, NoCapture
<1>26. HandleTypes'
  <2>1. NoCapture \in CaptureType
    BY DEF NoCapture, CaptureType
  <2>2. owners' \in [Handles -> OwnerType]
    <3>1. owners' = [h \in Handles |-> owners'[h]]
      BY <1>1, <1>12
    <3> QED BY <1>15, <3>1
  <2> QED BY <1>1, <1>2, <1>17, <1>18, <2>1, <2>2 DEF HandleTypes
<1>27. RunnerTypes'
  BY <1>1, <1>2 DEF RunnerTypes, Serving
<1>28. FlagTypes'
  BY <1>1, <1>2 DEF FlagTypes
<1>29. Flow'
  <2>1. cap'.pc = "none" /\ ~capturing
    BY <1>1, <1>2 DEF NoCapture, Flow
  <2> QED BY <1>1, <1>2, <1>3, <2>1 DEF Flow, Creating, Serving
<1>30. Filled'
  <2>1. \A p \in Positions : slots[p] # Empty => slots'[p] # Empty
    BY <1>17
  <2>2. ready => \A p \in Window : slots'[p] # Empty
    BY <1>2, <1>3, <2>1, WindowFacts DEF Filled
  <2> QED BY <1>1, <1>4, <2>2 DEF Filled
<1>31. CreationLeavesNoTrace' /\ ReplaysOwnStep'
  BY <1>1 DEF GraphInv, CreationLeavesNoTrace, ReplaysOwnStep
<1> QED BY <1>19, <1>20, <1>23, <1>24, <1>25, <1>26, <1>27, <1>28, <1>29, <1>30,
       <1>31 DEF GraphInv

\* Nothing is left: no slot, no capture, no live handle.
LEMMA AllClear ==
  ASSUME slots' \in [Positions -> {Empty}], staged' \in [Positions -> {Empty}],
         owners' \in [Handles -> OwnerType], graphs' \in [Handles -> {Dead}],
         \A h \in Handles : ~owners'[h].live /\ owners'[h].refs = 0,
         cap' \in CaptureType, cap'.pc = "none", cap'.g = 0, cap'.o = 0
  PROVE  /\ HandleTypes' /\ Sound(slots)' /\ Sound(staged)' /\ Counted'
         /\ NoOrphans' /\ Capturing'
<1>1. \A p \in Positions : slots'[p] = Empty /\ staged'[p] = Empty
  OBVIOUS
<1>2. HandleTypes'
  BY GoneFacts DEF HandleTypes
<1>3. Sound(slots)' /\ Sound(staged)'
  BY <1>1 DEF Sound
<1>4. Counted'
  <2> SUFFICES ASSUME NEW h \in Handles
               PROVE  owners'[h].refs = Refs(slots', Positions, h)
                                        + Refs(staged', Positions, h)
    BY DEF Counted, Refs
  <2>1. Refs(slots', Positions, h) = 0 /\ Refs(staged', Positions, h) = 0
    BY <1>1, EmptyCounts
  <2> QED BY <2>1
<1>5. NoOrphans'
  BY DEF NoOrphans
<1>6. Capturing'
  BY DEF Capturing
<1> QED BY <1>2, <1>3, <1>4, <1>5, <1>6

\* Clearing the cache between captures leaves nothing.
LEMMA ClearedFacts ==
  ASSUME GraphInv, Cleared, cap.pc = "none", phase # "prepare",
         UNCHANGED <<staged, cap>>
  PROVE  /\ HandleTypes' /\ Sound(slots)' /\ Sound(staged)' /\ Counted'
         /\ NoOrphans' /\ Capturing'
         /\ \A p \in Positions : slots'[p] = Empty /\ staged'[p] = Empty
<1>1. HandleTypes /\ Filled /\ Counted /\ NoOrphans /\ Capturing
  BY DEF GraphInv
<1>2. \A p \in Positions : staged[p] = Empty
  BY <1>1 DEF Filled
<1>3. /\ owners \in [Handles -> OwnerType] /\ graphs \in [Handles -> GraphType]
      /\ staged \in [Positions -> SlotType] /\ cap \in CaptureType
  BY <1>1 DEF HandleTypes
<1>4. cap.g = 0 /\ cap.o = 0
  BY <1>1 DEF Capturing
<1>5. slots' \in [Positions -> {Empty}] /\ staged' \in [Positions -> {Empty}]
  BY <1>2, <1>3 DEF Cleared
<1>6. \A h \in Handles : /\ owners'[h] \in OwnerType /\ ~owners'[h].live
                         /\ owners'[h].refs = 0
  <2> SUFFICES ASSUME NEW h \in Handles
               PROVE  /\ owners'[h] \in OwnerType /\ ~owners'[h].live
                      /\ owners'[h].refs = 0
    OBVIOUS
  <2>1. /\ owners[h].refs = Refs(slots, Positions, h) + Refs(staged, Positions, h)
        /\ Refs(slots, Positions, h) \in Nat
        /\ Refs(staged, Positions, h) = 0
        /\ Used(h) <=> Refs(slots, Positions, h) > 0
    <3>1. Refs(staged, Positions, h) = 0
      BY <1>2, EmptyCounts
    <3> QED BY <1>1, <3>1, UsedFacts DEF Counted
  <2>2. CASE owners[h].live
    <3>1. Refs(slots, Positions, h) > 0
      BY <1>1, <1>4, <2>1, <2>2, GoneFacts DEF NoOrphans
    <3>2. owners[h].refs - Refs(slots, Positions, h) = 0
      BY <2>1
    <3>3. owners'[h] = Gone
      BY <2>2, <3>1, <3>2 DEF Cleared, OwnersWithout
    <3> QED BY <3>3, GoneFacts
  <2>3. CASE ~owners[h].live
    <3>1. ~Used(h)
      BY <2>3, SlotFacts DEF Used
    <3>2. owners'[h] = owners[h]
      BY <2>3 DEF Cleared, OwnersWithout
    <3>3. owners[h].refs = 0
      BY <2>1, <3>1
    <3> QED BY <1>3, <2>3, <3>2, <3>3
  <2> QED BY <2>2, <2>3
<1>7. owners' \in [Handles -> OwnerType]
  <2>1. DOMAIN owners' = Handles /\ owners' = [h \in Handles |-> owners'[h]]
    BY DEF Cleared, OwnersWithout
  <2> QED BY <1>6, <2>1
<1>8. graphs' \in [Handles -> {Dead}]
  <2>1. \A h \in Handles : (IF \E p \in Positions : slots[p].g = h THEN Dead
                            ELSE graphs[h]) = Dead
    <3> SUFFICES ASSUME NEW h \in Handles, ~ \E p \in Positions : slots[p].g = h
                 PROVE  graphs[h] = Dead
      OBVIOUS
    <3>1. ~Kept(h)
      BY <1>2, GoneFacts DEF Kept
    <3> QED BY <1>1, <1>4, <3>1, GoneFacts DEF NoOrphans
  <2>2. graphs' = [h \in Handles |-> IF \E p \in Positions : slots[p].g = h
                                     THEN Dead ELSE graphs[h]]
    BY DEF Cleared, GraphsWithout
  <2> QED BY <2>1, <2>2
<1>9. /\ HandleTypes' /\ Sound(slots)' /\ Sound(staged)' /\ Counted'
      /\ NoOrphans' /\ Capturing'
  BY <1>3, <1>4, <1>5, <1>6, <1>7, <1>8, AllClear
<1> QED BY <1>5, <1>9

\* A clear that could not drain the streams keeps every handle.
LEMMA UndrainedFacts ==
  ASSUME GraphInv, ClearUndrained, cap.pc = "none", UNCHANGED <<staged, cap>>
  PROVE  /\ HandleTypes' /\ Sound(slots)' /\ Sound(staged)' /\ Counted'
         /\ NoOrphans' /\ Capturing'
<1>1. UNCHANGED <<slots, owners, graphs>>
  BY DEF ClearUndrained
<1>2. Sound(slots)' /\ Sound(staged)'
  BY <1>1 DEF GraphInv, Sound
<1>3. Counted' /\ NoOrphans'
  BY <1>1 DEF GraphInv, Counted, NoOrphans, Used, Kept, Refs
<1>4. Capturing'
  BY <1>1 DEF GraphInv, Capturing
<1>5. HandleTypes'
  BY <1>1 DEF GraphInv, HandleTypes
<1> QED BY <1>2, <1>3, <1>4, <1>5

\* Every way to give the cache up: at the end of creation, after a failed
\* request, and in the destructor.
LEMMA ClearKeeps ==
  ASSUME GraphInv, Rollback \/ AdmitResetFails \/ Destroy
                   \/ (RequestFails /\ UseProduction /\ req.replays # 0)
  PROVE  GraphInv'
<1>1. /\ UNCHANGED <<staged, cap, cursor, entry, capturing, served, ran>>
      /\ phase \in {"rollback", "prepared", "serve", "failed", "request"}
      /\ Cleared \/ ClearUndrained
  BY DEF Rollback, AdmitResetFails, Destroy, RequestFails, runner
<1>2. cap.pc = "none" /\ RunnerTypes /\ Flow /\ Filled /\ FlagTypes
  BY <1>1 DEF GraphInv, Flow
<1>3. /\ HandleTypes' /\ Sound(slots)' /\ Sound(staged)' /\ Counted'
      /\ NoOrphans' /\ Capturing'
  BY <1>1, <1>2, ClearedFacts, UndrainedFacts
<1>4. RunnerTypes'
  <2> USE <1>1, <1>2 DEF RunnerTypes, Creating, Serving
  <2>1. CASE Rollback
    BY <2>1 DEF Rollback, Wiped
  <2>2. CASE AdmitResetFails
    BY <2>2 DEF AdmitResetFails
  <2>3. CASE Destroy
    BY <2>3 DEF Destroy, runner
  <2>4. CASE RequestFails
    BY <2>4 DEF RequestFails, NoRequest
  <2> QED BY <2>1, <2>2, <2>3, <2>4
<1>5. FlagTypes'
  <2> USE <1>1, <1>2 DEF FlagTypes, ClearUndrained
  <2>1. CASE Rollback
    BY <2>1 DEF Rollback, Wiped
  <2>2. CASE AdmitResetFails
    BY <2>2 DEF AdmitResetFails
  <2>3. CASE Destroy
    BY <2>3 DEF Destroy, runner
  <2>4. CASE RequestFails
    BY <2>4 DEF RequestFails, Demoted
  <2> QED BY <2>1, <2>2, <2>3, <2>4
<1>6. Flow'
  <2> USE <1>1, <1>2 DEF Flow, Creating, Serving
  <2>1. CASE Rollback
    BY <2>1 DEF Rollback
  <2>2. CASE AdmitResetFails
    BY <2>2 DEF AdmitResetFails
  <2>3. CASE Destroy
    BY <2>3 DEF Destroy
  <2>4. CASE RequestFails /\ UseProduction /\ req.replays # 0
    BY <2>4 DEF RequestFails, Demoted
  <2> QED BY <2>1, <2>2, <2>3, <2>4
<1>7. Filled'
  <2>1. /\ phase' \in {"serve", "failed", "gone"}
        /\ phase' = "gone" => Cleared
        /\ ready' => phase' = "gone"
    <3> USE <1>2 DEF Flow, Creating
    <3>1. CASE Rollback
      BY <3>1 DEF Rollback
    <3>2. CASE AdmitResetFails
      BY <3>2 DEF AdmitResetFails
    <3>3. CASE Destroy
      BY <3>3 DEF Destroy
    <3>4. CASE RequestFails /\ UseProduction /\ req.replays # 0
      BY <3>4 DEF RequestFails, Demoted
    <3> QED BY <3>1, <3>2, <3>3, <3>4
  <2>2. \A p \in Positions : staged'[p] = Empty
    BY <1>1, <1>2 DEF Filled
  <2>3. Cleared => \A p \in Positions : slots'[p] = Empty
    BY DEF Cleared
  <2> QED BY <2>1, <2>2, <2>3 DEF Filled
<1>8. CreationLeavesNoTrace'
  <2>1. CASE Rollback
    BY <2>1 DEF Rollback, Wiped, CreationLeavesNoTrace
  <2>2. CASE AdmitResetFails
    BY <2>2 DEF AdmitResetFails, CreationLeavesNoTrace
  <2>3. CASE Destroy
    BY <2>3 DEF Destroy, CreationLeavesNoTrace
  <2>4. CASE RequestFails
    <3>1. served' > 0
      BY <1>1, <1>2, <2>4 DEF Flow, RequestFails, Serving
    <3> QED BY <3>1 DEF CreationLeavesNoTrace
  <2> QED BY <2>1, <2>2, <2>3, <2>4
<1>9. ReplaysOwnStep'
  <2>1. (UNCHANGED <<retired, req>>) \/ req'.replays = 0
    BY DEF Rollback, AdmitResetFails, Destroy, RequestFails, NoRequest
  <2> QED BY <1>1, <2>1 DEF GraphInv, ReplaysOwnStep
<1> QED BY <1>3, <1>4, <1>5, <1>6, <1>7, <1>8, <1>9 DEF GraphInv

\* A failed request that replayed nothing leaves the cache alone.
LEMMA RequestFailsKeeps ==
  ASSUME GraphInv, RequestFails, ~(UseProduction /\ req.replays # 0)
  PROVE  GraphInv'
<1>1. /\ UNCHANGED <<slots, staged, graphs, owners, cap, cursor, entry, seq,
                     dirty, poisoned, capturing, ready, retired, served, ran>>
      /\ phase = "request" /\ phase' = "serve" /\ req' = NoRequest
  BY DEF RequestFails
<1>2. cap.pc = "none" /\ RunnerTypes /\ Flow
  BY <1>1 DEF GraphInv, Flow
<1>3. RunnerTypes'
  BY <1>1, <1>2 DEF RunnerTypes, Serving, NoRequest
<1>4. FlagTypes'
  BY <1>1 DEF GraphInv, FlagTypes
<1>5. Flow'
  BY <1>1, <1>2 DEF Flow, Creating, Serving
<1>6. Filled'
  BY <1>1 DEF GraphInv, Filled
<1>7. CreationLeavesNoTrace'
  <2>1. served' # 0
    BY <1>1, <1>2 DEF Flow, Serving
  <2> QED BY <2>1 DEF CreationLeavesNoTrace
<1>8. ReplaysOwnStep'
  <2>1. req'.replays = 0
    BY <1>1 DEF NoRequest
  <2> QED BY <1>1, <2>1 DEF GraphInv, ReplaysOwnStep
<1> QED BY <1>1, <1>2, <1>3, <1>4, <1>5, <1>6, <1>7, <1>8, RunnerMoves

\* A failing preparation frees its capture and everything it staged.
LEMMA PreparationFailsKeeps ==
  ASSUME GraphInv, CaptureFails, phase = "prepare"
  PROVE  GraphInv'
<1>1. /\ cap.pc # "none" /\ capturing' = FALSE /\ poisoned' = TRUE
      /\ cap' = NoCapture /\ seq' = entry /\ phase' = "rollback"
      /\ owners' = [h \in Handles |-> IF Refs(staged, Positions, h) > 0 THEN Gone
                                      ELSE CaptureOwners[h]]
      /\ graphs' = [h \in Handles |-> IF \E p \in Positions : staged[p].g = h
                                      THEN Dead ELSE CaptureGraphs[h]]
      /\ staged' = [p \in Positions |-> Empty]
      /\ UNCHANGED <<slots, cursor, entry, dirty, ready, req, served, ran, retired>>
  BY DEF CaptureFails, ForCache, CaptureEnded
<1>2. HandleTypes /\ RunnerTypes /\ FlagTypes /\ Flow /\ Filled /\ Counted
      /\ NoOrphans /\ Capturing
  BY DEF GraphInv
<1>3. \A p \in Positions : slots[p] = Empty
  BY <1>2 DEF Filled
<1>4. /\ owners \in [Handles -> OwnerType] /\ graphs \in [Handles -> GraphType]
      /\ slots \in [Positions -> SlotType] /\ cap \in CaptureType
  BY <1>2 DEF HandleTypes
<1>5. /\ slots' \in [Positions -> {Empty}] /\ staged' \in [Positions -> {Empty}]
  BY <1>1, <1>3, <1>4
<1>6. \A h \in Handles : /\ owners'[h] \in OwnerType /\ ~owners'[h].live
                         /\ owners'[h].refs = 0
  <2> SUFFICES ASSUME NEW h \in Handles
               PROVE  /\ owners'[h] \in OwnerType /\ ~owners'[h].live
                      /\ owners'[h].refs = 0
    OBVIOUS
  <2>1. /\ owners[h].refs = Refs(slots, Positions, h) + Refs(staged, Positions, h)
        /\ Refs(staged, Positions, h) \in Nat
        /\ Refs(slots, Positions, h) = 0
        /\ Used(h) <=> Refs(staged, Positions, h) > 0
    <3>1. Refs(slots, Positions, h) = 0
      BY <1>3, EmptyCounts
    <3> QED BY <1>2, <3>1, UsedFacts DEF Counted
  <2>2. CASE Refs(staged, Positions, h) > 0
    <3>1. owners'[h] = Gone
      BY <1>1, <2>2
    <3> QED BY <3>1, GoneFacts
  <2>3. CASE ~(Refs(staged, Positions, h) > 0)
    <3>1. owners'[h] = CaptureOwners[h]
      BY <1>1, <2>3
    <3>2. owners[h].refs = 0 /\ ~Used(h) /\ owners[h] \in OwnerType
      BY <1>4, <2>1, <2>3
    <3>3. owners[h].live => cap.o = h
      BY <1>2, <3>2 DEF NoOrphans
    <3>4. CASE cap.shared
      <4>1. /\ SharedOwner = staged[First].o /\ SharedOwner \in Handles
        BY <1>1, <3>4, SharedFacts
      <4>2. h # SharedOwner
        BY <3>2, <4>1, WindowFacts DEF Used
      <4>3. CaptureOwners[h] = owners[h]
        BY <1>4, <3>4, <4>1, <4>2 DEF CaptureOwners
      <4>4. ~owners[h].live
        BY <1>1, <1>2, <3>3, <3>4, <4>1, <4>2, GoneFacts DEF Capturing
      <4> QED BY <3>1, <3>2, <4>3, <4>4
    <3>5. CASE ~cap.shared /\ cap.o = h
      <4>1. h # 0
        BY GoneFacts
      <4>2. CaptureOwners = [owners EXCEPT ![h] = Gone]
        BY <3>5, <4>1 DEF CaptureOwners
      <4>3. CaptureOwners[h] = Gone
        BY <1>4, <4>2
      <4> QED BY <3>1, <4>3, GoneFacts
    <3>6. CASE ~cap.shared /\ cap.o # h
      <4>1. CaptureOwners[h] = owners[h]
        BY <1>4, <3>6 DEF CaptureOwners
      <4> QED BY <3>1, <3>2, <3>3, <3>6, <4>1
    <3> QED BY <3>4, <3>5, <3>6
  <2> QED BY <2>2, <2>3
<1>7. owners' \in [Handles -> OwnerType]
  <2>1. owners' = [h \in Handles |-> owners'[h]]
    BY <1>1
  <2> QED BY <1>6, <2>1
<1>8. graphs' \in [Handles -> {Dead}]
  <2>1. \A h \in Handles : graphs'[h] = Dead
    <3> SUFFICES ASSUME NEW h \in Handles PROVE graphs'[h] = Dead
      OBVIOUS
    <3>1. CASE \E p \in Positions : staged[p].g = h
      BY <1>1, <3>1
    <3>2. CASE ~ \E p \in Positions : staged[p].g = h
      <4>1. graphs'[h] = CaptureGraphs[h]
        BY <1>1, <3>2
      <4>2. ~Kept(h)
        BY <1>3, <3>2, GoneFacts DEF Kept
      <4>3. graphs[h] # Dead => cap.g = h
        BY <1>2, <4>2 DEF NoOrphans
      <4>4. h # 0
        BY GoneFacts
      <4>5. CaptureGraphs[h] = Dead
        BY <1>4, <4>3, <4>4 DEF CaptureGraphs
      <4> QED BY <4>1, <4>5
    <3> QED BY <3>1, <3>2
  <2>2. graphs' = [h \in Handles |-> graphs'[h]]
    BY <1>1
  <2> QED BY <2>1, <2>2
<1>9. cap' \in CaptureType /\ cap'.pc = "none" /\ cap'.g = 0 /\ cap'.o = 0
  BY <1>1 DEF NoCapture, CaptureType
<1>10. /\ HandleTypes' /\ Sound(slots)' /\ Sound(staged)' /\ Counted'
       /\ NoOrphans' /\ Capturing'
  BY <1>5, <1>6, <1>7, <1>8, <1>9, AllClear
<1>11. RunnerTypes'
  BY <1>1, <1>2 DEF RunnerTypes, Creating
<1>12. FlagTypes'
  BY <1>1, <1>2 DEF FlagTypes
<1>13. Flow'
  BY <1>1, <1>2, <1>9 DEF Flow, Creating, Serving
<1>14. Filled'
  <2>1. ~ready
    BY <1>2 DEF Flow, Creating
  <2>2. \A p \in Positions : staged'[p] = Empty
    BY <1>5
  <2> QED BY <1>1, <2>1, <2>2 DEF Filled
<1>15. CreationLeavesNoTrace' /\ ReplaysOwnStep'
  BY <1>1 DEF GraphInv, CreationLeavesNoTrace, ReplaysOwnStep
<1> QED BY <1>10, <1>11, <1>12, <1>13, <1>14, <1>15 DEF GraphInv

\* A failing standalone capture frees what it made, which no slot holds.
LEMMA ScreenFailsKeeps ==
  ASSUME GraphInv, CaptureFails, phase # "prepare"
  PROVE  GraphInv'
<1>1. /\ cap.pc # "none" /\ capturing' = FALSE /\ poisoned' = TRUE
      /\ cap' = NoCapture /\ phase' = "serve"
      /\ owners' = CaptureOwners /\ graphs' = CaptureGraphs
      /\ UNCHANGED <<slots, staged, seq, cursor, entry, dirty, ready, req,
                     served, ran, retired>>
  BY DEF CaptureFails, ForCache, CaptureEnded
<1>2. HandleTypes /\ RunnerTypes /\ FlagTypes /\ Flow /\ Filled /\ Counted
      /\ NoOrphans /\ Capturing /\ Sound(slots) /\ Sound(staged)
  BY DEF GraphInv
<1>3. phase = "screening" /\ ~cap.shared
  BY <1>1, <1>2 DEF Flow, Capturing, ForCache
<1>4. /\ owners \in [Handles -> OwnerType] /\ graphs \in [Handles -> GraphType]
      /\ cap \in CaptureType
  BY <1>2 DEF HandleTypes
<1>5. /\ cap.o # 0 => cap.o \in Handles /\ ~Used(cap.o)
      /\ cap.g # 0 => cap.g \in Handles /\ ~Kept(cap.g)
  BY <1>1, <1>2, <1>3, <1>4 DEF Capturing, CaptureType
<1>6. /\ \A h \in Handles : owners'[h] = IF h = cap.o THEN Gone ELSE owners[h]
      /\ owners' \in [Handles -> OwnerType]
  <2>1. CASE cap.o = 0
    BY <1>1, <1>3, <1>4, <2>1, GoneFacts DEF CaptureOwners
  <2>2. CASE cap.o # 0
    <3>1. owners' = [owners EXCEPT ![cap.o] = Gone]
      BY <1>1, <1>3, <2>2 DEF CaptureOwners
    <3> QED BY <1>4, <1>5, <2>2, <3>1, GoneFacts
  <2> QED BY <2>1, <2>2
<1>7. /\ \A h \in Handles : graphs'[h] = IF h = cap.g THEN Dead ELSE graphs[h]
      /\ graphs' \in [Handles -> GraphType]
  <2>1. CASE cap.g = 0
    BY <1>1, <1>4, <2>1, GoneFacts DEF CaptureGraphs
  <2>2. CASE cap.g # 0
    <3>1. graphs' = [graphs EXCEPT ![cap.g] = Dead]
      BY <1>1, <2>2 DEF CaptureGraphs
    <3> QED BY <1>4, <1>5, <2>2, <3>1, GoneFacts
  <2> QED BY <2>1, <2>2
<1>8. \A p \in Positions : \A f \in {slots, staged} : f[p] # Empty =>
        /\ owners'[f[p].o] = owners[f[p].o]
        /\ graphs'[f[p].g] = graphs[f[p].g]
  <2> SUFFICES ASSUME NEW p \in Positions, NEW f \in {slots, staged}, f[p] # Empty
               PROVE  /\ owners'[f[p].o] = owners[f[p].o]
                      /\ graphs'[f[p].g] = graphs[f[p].g]
    OBVIOUS
  <2>1. Sound(f)
    BY <1>2
  <2>2. f[p].o \in Handles /\ f[p].g \in Handles
    BY <2>1 DEF Sound
  <2>3. f[p].o # cap.o
    BY <1>5, <2>2, GoneFacts DEF Used
  <2>4. f[p].g # cap.g
    BY <1>5, <2>2, GoneFacts DEF Kept
  <2> QED BY <1>6, <1>7, <2>2, <2>3, <2>4
<1>9. Sound(slots)' /\ Sound(staged)'
  BY <1>1, <1>2, <1>8 DEF Sound
<1>10. Counted'
  <2> SUFFICES ASSUME NEW h \in Handles
               PROVE  owners'[h].refs = Refs(slots', Positions, h)
                                        + Refs(staged', Positions, h)
    BY DEF Counted, Refs
  <2>1. /\ owners[h].refs = Refs(slots, Positions, h) + Refs(staged, Positions, h)
        /\ Refs(slots, Positions, h) \in Nat /\ Refs(staged, Positions, h) \in Nat
    BY <1>2, UsedFacts DEF Counted
  <2>2. Refs(slots', Positions, h) = Refs(slots, Positions, h)
        /\ Refs(staged', Positions, h) = Refs(staged, Positions, h)
    BY <1>1
  <2>3. CASE h = cap.o
    <3>1. ~Used(h)
      BY <1>5, <2>3, GoneFacts
    <3>2. Refs(slots, Positions, h) = 0 /\ Refs(staged, Positions, h) = 0
      BY <2>1, <3>1, UsedFacts
    <3>3. owners'[h] = Gone
      BY <1>6, <2>3
    <3>4. owners'[h].refs = 0
      BY <3>3, GoneFacts
    <3> QED BY <2>2, <3>2, <3>4
  <2>4. CASE h # cap.o
    BY <1>6, <2>1, <2>2, <2>4
  <2> QED BY <2>3, <2>4
<1>11. NoOrphans'
  <2> SUFFICES ASSUME NEW h \in Handles
               PROVE  /\ owners'[h].live => Used(h)'
                      /\ graphs'[h] # Dead => Kept(h)'
    BY DEF NoOrphans
  <2>1. (Used(h)' <=> Used(h)) /\ (Kept(h)' <=> Kept(h))
    BY <1>1 DEF Used, Kept
  <2>2. owners'[h].live => h # cap.o /\ owners[h].live
    BY <1>6, GoneFacts
  <2>3. graphs'[h] # Dead => h # cap.g /\ graphs[h] # Dead
    BY <1>7
  <2> QED BY <1>2, <2>1, <2>2, <2>3 DEF NoOrphans
<1>12. Capturing'
  BY <1>1 DEF Capturing, NoCapture
<1>13. HandleTypes'
  <2>1. NoCapture \in CaptureType
    BY DEF NoCapture, CaptureType
  <2> QED BY <1>1, <1>2, <1>6, <1>7, <2>1 DEF HandleTypes
<1>14. RunnerTypes'
  BY <1>1, <1>2 DEF RunnerTypes, Serving
<1>15. FlagTypes'
  BY <1>1, <1>2 DEF FlagTypes
<1>16. Flow'
  <2>1. cap'.pc = "none"
    BY <1>1 DEF NoCapture
  <2> QED BY <1>1, <1>2, <1>3, <2>1 DEF Flow, Creating, Serving
<1>17. Filled'
  BY <1>1, <1>2, <1>3 DEF Filled
<1>18. CreationLeavesNoTrace'
  <2>1. served' # 0
    BY <1>1, <1>2, <1>3 DEF Flow, Serving
  <2> QED BY <2>1 DEF CreationLeavesNoTrace
<1>19. ReplaysOwnStep'
  BY <1>1 DEF GraphInv, ReplaysOwnStep
<1> QED BY <1>9, <1>10, <1>11, <1>12, <1>13, <1>14, <1>15, <1>16, <1>17, <1>18,
       <1>19 DEF GraphInv

\* The window is published at once: the staged slots become the cache.
LEMMA PublishCacheKeeps ==
  ASSUME GraphInv, PublishCache
  PROVE  GraphInv'
<1>1. /\ phase = "prepare" /\ cap.pc = "none" /\ cursor > LastPosition
      /\ seq' = entry /\ phase' = "prepared"
      /\ slots' = [p \in Positions |-> IF p \in Window THEN staged[p] ELSE slots[p]]
      /\ staged' = [p \in Positions |-> Empty]
      /\ UNCHANGED <<graphs, owners, cap, cursor, entry, dirty, poisoned,
                     capturing, ready, req, served, ran, retired>>
  BY DEF PublishCache, ForCache, AllCaptured
<1>2. HandleTypes /\ RunnerTypes /\ FlagTypes /\ Flow /\ Filled /\ Counted
      /\ NoOrphans /\ Capturing /\ Sound(slots) /\ Sound(staged)
  BY DEF GraphInv
<1>3. First .. cursor - 1 = Window
  <2>1. cursor \in First .. LastPosition + 1 /\ cursor \in Nat
    BY <1>1, <1>2 DEF Flow, RunnerTypes
  <2> QED BY <1>1, <2>1, WindowFacts
<1>4. \A p \in Positions : slots[p] = Empty /\ (staged[p] # Empty <=> p \in Window)
  BY <1>1, <1>2, <1>3 DEF Filled
<1>5. slots \in [Positions -> SlotType] /\ staged \in [Positions -> SlotType]
  BY <1>2 DEF HandleTypes
<1>6. slots' = staged
  <2>1. slots' = [p \in Positions |-> staged[p]]
    BY <1>1, <1>4
  <2> QED BY <1>5, <2>1
<1>7. staged' = slots
  <2>1. staged' = [p \in Positions |-> slots[p]]
    BY <1>1, <1>4
  <2> QED BY <1>5, <2>1
<1>8. Sound(slots)' /\ Sound(staged)'
  BY <1>1, <1>2, <1>6, <1>7 DEF Sound
<1>9. Counted'
  <2> SUFFICES ASSUME NEW h \in Handles
               PROVE  owners'[h].refs = Refs(slots', Positions, h)
                                        + Refs(staged', Positions, h)
    BY DEF Counted, Refs
  <2>1. /\ owners[h].refs = Refs(slots, Positions, h) + Refs(staged, Positions, h)
        /\ Refs(slots, Positions, h) \in Nat /\ Refs(staged, Positions, h) \in Nat
    BY <1>2, UsedFacts DEF Counted
  <2> QED BY <1>1, <1>6, <1>7, <2>1
<1>10. NoOrphans'
  BY <1>1, <1>2, <1>6, <1>7 DEF NoOrphans, Used, Kept
<1>11. Capturing'
  BY <1>1, <1>2 DEF Capturing
<1>12. HandleTypes'
  BY <1>1, <1>2, <1>6, <1>7 DEF HandleTypes
<1>13. RunnerTypes'
  BY <1>1, <1>2 DEF RunnerTypes, Creating
<1>14. FlagTypes'
  BY <1>1, <1>2 DEF FlagTypes
<1>15. Flow'
  BY <1>1, <1>2 DEF Flow, Creating, Serving
<1>16. Filled'
  <2>1. ~ready
    BY <1>1, <1>2 DEF Flow, Creating
  <2>2. \A p \in Window : slots'[p] # Empty
    BY <1>4, <1>6, WindowFacts
  <2>3. \A p \in Positions : staged'[p] = Empty
    BY <1>1
  <2> QED BY <1>1, <2>1, <2>2, <2>3 DEF Filled
<1>17. CreationLeavesNoTrace' /\ ReplaysOwnStep'
  BY <1>1 DEF GraphInv, CreationLeavesNoTrace, ReplaysOwnStep
<1> QED BY <1>8, <1>9, <1>10, <1>11, <1>12, <1>13, <1>14, <1>15, <1>16, <1>17
       DEF GraphInv

\* A replay runs what it was asked for, whatever the shared executable ran
\* before, and disturbs no slot; a failed update is forgotten by the next one.
LEMMA ReplayFacts ==
  ASSUME GraphInv, Has(seq), cap.pc = "none", UNCHANGED <<slots, staged, cap>>,
         (\E tok \in Tokens : ReplayGraph(tok)) \/ UpdateFails
  PROVE  /\ HandleTypes' /\ Sound(slots)' /\ Sound(staged)' /\ Counted'
         /\ NoOrphans' /\ Capturing'
         /\ ran'.asked # Dead => ran'.did = ran'.asked
<1> DEFINE g == slots[seq].g
           o == slots[seq].o
<1>1. HandleTypes /\ Sound(slots) /\ NoOrphans /\ Capturing /\ ReplaysOwnStep
  BY DEF GraphInv
<1>2. seq \in Positions /\ slots[seq] # Empty
  BY DEF Has
<1>3. /\ g \in Handles /\ o \in Handles /\ graphs[g].pos = seq
      /\ owners[o].shared => graphs[g].nodes = "all"
      /\ ~owners[o].shared => owners[o].runs.pos = seq
  BY <1>1, <1>2 DEF Sound
<1>4. /\ owners \in [Handles -> OwnerType] /\ graphs \in [Handles -> GraphType]
      /\ cap.g = 0 /\ cap.o = 0 /\ cap \in CaptureType
  BY <1>1 DEF HandleTypes, Capturing
<1>5. graphs[g] \in GraphType /\ owners[o] \in OwnerType /\ owners[o].runs \in GraphType
  BY <1>3, <1>4 DEF OwnerType
<1>6. PICK runs \in GraphType :
        /\ owners' = [owners EXCEPT ![o].runs = runs]
        /\ owners[o].shared \/ runs.pos = seq
        /\ ran'.asked # Dead => ran'.did = ran'.asked
        /\ \/ graphs' = graphs
           \/ \E tok \in Tokens : graphs' = [graphs EXCEPT ![g].tok = tok]
  <2>1. CASE UpdateFails
    <3>1. UNCHANGED <<graphs, ran>>
      BY <2>1 DEF UpdateFails
    <3>2. CASE owners[o].shared
      <4>1. owners' = [owners EXCEPT ![o].runs = Dead]
        BY <2>1, <3>2 DEF UpdateFails
      <4> QED BY <1>1, <3>1, <3>2, <4>1, GoneFacts DEF ReplaysOwnStep
    <3>3. CASE ~owners[o].shared
      <4>1. owners' = owners
        BY <2>1, <3>3 DEF UpdateFails
      <4>2. owners = [owners EXCEPT ![o].runs = owners[o].runs]
        BY <1>3, <1>4 DEF OwnerType
      <4> QED BY <1>1, <1>3, <1>5, <3>1, <3>3, <4>1, <4>2 DEF ReplaysOwnStep
    <3> QED BY <3>2, <3>3
  <2>2. ASSUME NEW tok \in Tokens, ReplayGraph(tok)
        PROVE  \E runs \in GraphType :
                 /\ owners' = [owners EXCEPT ![o].runs = runs]
                 /\ owners[o].shared \/ runs.pos = seq
                 /\ ran'.asked # Dead => ran'.did = ran'.asked
                 /\ \/ graphs' = graphs
                    \/ \E t \in Tokens : graphs' = [graphs EXCEPT ![g].tok = t]
    <3> DEFINE patched == [graphs[g] EXCEPT !.tok = tok]
               kept == [owners[o].runs EXCEPT !.tok = tok]
    <3>1. /\ patched \in GraphType /\ patched.pos = seq /\ patched.tok = tok
          /\ patched.nodes = graphs[g].nodes
      BY <1>3, <1>5 DEF GraphType
    <3>2. CASE owners[o].shared
      <4>1. Updated(patched) = patched
        BY <1>3, <3>1, <3>2 DEF Updated
      <4>2. /\ owners' = [owners EXCEPT ![o].runs = patched]
            /\ graphs' = [graphs EXCEPT ![g] = patched]
            /\ ran' = [asked |-> [pos |-> seq, tok |-> tok],
                       did |-> [pos |-> patched.pos, tok |-> patched.tok]]
        BY <2>2, <3>2, <4>1 DEF ReplayGraph
      <4>3. graphs' = [graphs EXCEPT ![g].tok = tok]
        BY <4>2
      <4>4. ran'.did = ran'.asked
        BY <3>1, <4>2
      <4> HIDE DEF patched
      <4> QED BY <3>1, <3>2, <4>2, <4>3, <4>4
    <3>3. CASE ~owners[o].shared
      <4>1. kept \in GraphType /\ kept.pos = seq /\ kept.tok = tok
        BY <1>3, <1>5, <3>3 DEF GraphType
      <4>2. /\ owners' = [owners EXCEPT ![o].runs = kept]
            /\ graphs' = graphs
            /\ ran' = [asked |-> [pos |-> seq, tok |-> tok],
                       did |-> [pos |-> kept.pos, tok |-> kept.tok]]
        BY <2>2, <3>3 DEF ReplayGraph
      <4>3. ran'.did = ran'.asked
        BY <4>1, <4>2
      <4> HIDE DEF kept
      <4> QED BY <4>1, <4>2, <4>3
    <3> QED BY <3>2, <3>3
  <2> QED BY <2>1, <2>2
<1>7. owners' \in [Handles -> OwnerType]
  BY <1>3, <1>4, <1>6 DEF OwnerType
<1>8. \A h \in Handles : /\ owners'[h].refs = owners[h].refs
                         /\ owners'[h].shared = owners[h].shared
                         /\ owners'[h].live = owners[h].live
                         /\ \/ owners[h].shared
                            \/ owners'[h].runs.pos = owners[h].runs.pos
  <2> SUFFICES ASSUME NEW h \in Handles
               PROVE  /\ owners'[h].refs = owners[h].refs
                      /\ owners'[h].shared = owners[h].shared
                      /\ owners'[h].live = owners[h].live
                      /\ \/ owners[h].shared
                         \/ owners'[h].runs.pos = owners[h].runs.pos
    OBVIOUS
  <2>1. CASE h = o
    <3>1. owners'[h] = [owners[h] EXCEPT !.runs = runs]
      BY <1>3, <1>4, <1>6, <2>1
    <3> QED BY <1>3, <1>5, <1>6, <2>1, <3>1 DEF OwnerType
  <2>2. CASE h # o
    <3>1. owners'[h] = owners[h]
      BY <1>4, <1>6, <2>2
    <3> QED BY <3>1
  <2> QED BY <2>1, <2>2
<1>9. /\ graphs' \in [Handles -> GraphType]
      /\ \A h \in Handles : /\ graphs'[h].pos = graphs[h].pos
                            /\ graphs'[h].nodes = graphs[h].nodes
                            /\ graphs'[h] # Dead => graphs[h] # Dead
  <2>1. CASE graphs' = graphs
    BY <1>4, <2>1
  <2>2. ASSUME NEW tok \in Tokens, graphs' = [graphs EXCEPT ![g].tok = tok]
        PROVE  /\ graphs' \in [Handles -> GraphType]
               /\ \A h \in Handles : /\ graphs'[h].pos = graphs[h].pos
                                     /\ graphs'[h].nodes = graphs[h].nodes
                                     /\ graphs'[h] # Dead => graphs[h] # Dead
    <3>1. graphs' \in [Handles -> GraphType]
      BY <1>3, <1>4, <2>2 DEF GraphType
    <3>2. graphs[g] # Dead
      BY <1>2, <1>3, GoneFacts
    <3>3. \A h \in Handles : h # g => graphs'[h] = graphs[h]
      BY <1>4, <2>2
    <3>4. graphs'[g].pos = graphs[g].pos /\ graphs'[g].nodes = graphs[g].nodes
      BY <1>3, <1>4, <2>2 DEF GraphType
    <3> HIDE DEF g
    <3> QED BY <3>1, <3>2, <3>3, <3>4
  <2> QED BY <1>6, <2>1, <2>2
<1>10. /\ Sound(slots)' /\ Sound(staged)' /\ Counted'
       /\ \A h \in Handles : /\ Used(h)' <=> Used(h)
                             /\ Kept(h)' <=> Kept(h)
  BY <1>7, <1>8, <1>9, RunsKeep
<1>11. NoOrphans'
  BY <1>1, <1>4, <1>8, <1>9, <1>10 DEF NoOrphans
<1>12. Capturing'
  BY <1>4 DEF Capturing
<1>13. HandleTypes'
  BY <1>1, <1>7, <1>9 DEF HandleTypes
<1> QED BY <1>6, <1>10, <1>11, <1>12, <1>13

\* Requests and screens that replay a graph.
LEMMA ReplayKeeps ==
  ASSUME GraphInv, Replay \/ ScreenReplay
  PROVE  GraphInv'
<1>1. /\ UNCHANGED <<slots, staged, cap, cursor, entry, capturing, ready, served,
                     retired>>
      /\ Has(seq) /\ phase \in {"request", "screen"} /\ phase' \in {"request", "serve"}
      /\ (\E tok \in Tokens : ReplayGraph(tok)) \/ UpdateFails
  BY DEF Replay, ScreenReplay, Replays
<1>2. cap.pc = "none" /\ RunnerTypes /\ Flow /\ FlagTypes /\ Filled /\ served > 0
  BY <1>1 DEF GraphInv, Flow, Serving
<1>3. /\ HandleTypes' /\ Sound(slots)' /\ Sound(staged)' /\ Counted'
      /\ NoOrphans' /\ Capturing'
      /\ ran'.asked # Dead => ran'.did = ran'.asked
  BY <1>1, <1>2, ReplayFacts
<1>4. seq \in Positions
  BY <1>1 DEF Has
<1>5. RunnerTypes'
  <2> USE <1>1, <1>2 DEF RunnerTypes, Serving
  <2>1. CASE Replay
    <3>1. /\ seq' \in {seq, seq + 1} /\ dirty' = dirty \cup {seq}
          /\ req' = [req EXCEPT !.replays = @ + 1]
      BY <2>1 DEF Replay
    <3>2. seq' \in 0 .. Capacity /\ dirty' \subseteq Positions
      BY <1>4, <3>1 DEF Positions
    <3>3. req' \in [mode : {"none", "ordinary", "prepared", "traced"}, replays : Nat]
      BY <3>1
    <3> QED BY <3>2, <3>3
  <2>2. CASE ScreenReplay
    BY <2>2 DEF ScreenReplay
  <2> QED BY <2>1, <2>2
<1>6. FlagTypes'
  BY <1>1, <1>2 DEF FlagTypes, Replay, ScreenReplay
<1>7. Flow'
  BY <1>1, <1>2 DEF Flow, Creating, Serving
<1>8. Filled'
  BY <1>1, <1>2 DEF Filled
<1>9. CreationLeavesNoTrace'
  BY <1>1, <1>2 DEF CreationLeavesNoTrace
<1>10. ReplaysOwnStep'
  <2>1. retired' /\ req'.mode = "ordinary" => req'.replays = 0
    <3>1. CASE Replay
      <4>1. req'.mode = req.mode
        BY <1>2, <3>1 DEF Replay, RunnerTypes
      <4>2. req.mode = "ordinary" => ready
        BY <3>1 DEF Replay, Replays, UsesCache, UseProduction
      <4>3. ready => ~retired
        BY <1>2 DEF Flow
      <4> QED BY <1>1, <4>1, <4>2, <4>3
    <3>2. CASE ScreenReplay
      BY <1>1, <3>2 DEF ScreenReplay, GraphInv, ReplaysOwnStep
    <3> QED BY <3>1, <3>2
  <2> QED BY <1>3, <2>1 DEF ReplaysOwnStep
<1> QED BY <1>3, <1>5, <1>6, <1>7, <1>8, <1>9, <1>10 DEF GraphInv

-----------------------------------------------------------------------------
(* One engine.                                                              *)

\* Every step of the runner keeps the books of the graph cache.
LEMMA RunnerKeeps ==
  ASSUME GraphInv, Next
  PROVE  GraphInv'
<1>1. CASE WarmUp \/ WarmReset \/ SkipWarmUp \/ Probe \/ Admit \/ Refuse
  BY <1>1, CreationKeeps
<1>2. CASE PrepareCapture \/ ScreenCapture
  BY <1>2, BeginKeeps
<1>3. CASE EndCapture
  BY <1>3, EndCaptureKeeps
<1>4. CASE Instantiate
  BY <1>4, InstantiateKeeps
<1>5. CASE Publish
  BY <1>5, PublishStagedKeeps, PublishSlotKeeps
<1>6. CASE CaptureFails
  BY <1>6, PreparationFailsKeeps, ScreenFailsKeeps
<1>7. CASE PublishCache
  BY <1>7, PublishCacheKeeps
<1>8. CASE AdmitResetFails \/ Rollback \/ Destroy
  BY <1>8, ClearKeeps
<1>9. CASE BeginRequest \/ SerialStep \/ RequestEnds
  BY <1>9, ServingKeeps
<1>10. CASE Replay \/ ScreenReplay
  BY <1>10, ReplayKeeps
<1>11. CASE RequestFails
  BY <1>11, ClearKeeps, RequestFailsKeeps
<1> QED BY <1>1, <1>2, <1>3, <1>4, <1>5, <1>6, <1>7, <1>8, <1>9, <1>10, <1>11
       DEF Next

\* The runner rests while the engine is built and destroyed around it.
LEMMA GraphRests ==
  ASSUME GraphInv,
         UNCHANGED <<phase, slots, staged, graphs, owners, cap, cursor, entry, seq,
                     dirty, poisoned, capturing, ready, req, served, ran, retired>>
  PROVE  GraphInv'
<1>1. Sound(slots)' /\ Sound(staged)'
  BY DEF GraphInv, Sound
<1>2. Counted' /\ NoOrphans'
  BY DEF GraphInv, Counted, NoOrphans, Used, Kept, Refs
<1>3. Capturing'
  BY DEF GraphInv, Capturing, Used, Kept, ForCache
<1>4. HandleTypes' /\ RunnerTypes' /\ Flow' /\ Filled'
  BY DEF GraphInv, HandleTypes, RunnerTypes, Flow, Filled
<1>5. FlagTypes'
  BY DEF GraphInv, FlagTypes
<1>6. CreationLeavesNoTrace' /\ ReplaysOwnStep'
  BY DEF GraphInv, CreationLeavesNoTrace, ReplaysOwnStep
<1> QED BY <1>1, <1>2, <1>3, <1>4, <1>5, <1>6 DEF GraphInv

\* An engine starts with an empty cache.
LEMMA GraphStarts ==
  ASSUME Init
  PROVE  GraphInv
<1>1. /\ phase = "create" /\ cap = NoCapture /\ cursor = 0 /\ entry = 0
      /\ seq = 0 /\ dirty = {} /\ poisoned = FALSE /\ capturing = FALSE
      /\ ready = FALSE /\ req = NoRequest /\ served = 0
      /\ ran = [asked |-> Dead, did |-> Dead] /\ retired = FALSE
      /\ slots = [p \in Positions |-> Empty] /\ staged = [p \in Positions |-> Empty]
      /\ graphs = [h \in Handles |-> Dead] /\ owners = [h \in Handles |-> Gone]
  BY DEF Init
<1>2. /\ cap.pc = "none" /\ cap.g = 0 /\ cap.o = 0 /\ cap \in CaptureType
  BY <1>1 DEF NoCapture, CaptureType
<1>3. \A p \in Positions : slots[p] = Empty /\ staged[p] = Empty
  BY <1>1
<1>4. \A h \in Handles : graphs[h] = Dead /\ owners[h] = Gone
  BY <1>1
<1>5. HandleTypes
  BY <1>1, <1>2, GoneFacts DEF HandleTypes
<1>6. RunnerTypes
  BY <1>1 DEF RunnerTypes, Creating, NoRequest
<1>7. FlagTypes
  BY <1>1 DEF FlagTypes
<1>8. Flow
  BY <1>1, <1>2 DEF Flow, Creating, Serving
<1>9. Filled
  BY <1>1, <1>3 DEF Filled
<1>10. Sound(slots) /\ Sound(staged)
  BY <1>3 DEF Sound
<1>11. Counted
  <2> SUFFICES ASSUME NEW h \in Handles
               PROVE  owners[h].refs = Refs(slots, Positions, h)
                                       + Refs(staged, Positions, h)
    BY DEF Counted
  <2>1. Refs(slots, Positions, h) = 0 /\ Refs(staged, Positions, h) = 0
    BY <1>3, EmptyCounts
  <2>2. owners[h].refs = 0
    BY <1>4, GoneFacts
  <2> QED BY <2>1, <2>2
<1>12. NoOrphans
  BY <1>4, GoneFacts DEF NoOrphans
<1>13. Capturing
  BY <1>2 DEF Capturing
<1>14. CreationLeavesNoTrace
  BY <1>1 DEF CreationLeavesNoTrace
<1>15. ReplaysOwnStep
  <2>1. ran.asked = Dead
    BY <1>1
  <2> QED BY <1>1, <2>1 DEF ReplaysOwnStep
<1> QED BY <1>5, <1>6, <1>7, <1>8, <1>9, <1>10, <1>11, <1>12, <1>13, <1>14, <1>15
       DEF GraphInv

\* Nothing is queued when an engine starts.
LEMMA LoadStarts ==
  ASSUME LoadInit, life = "load"
  PROVE  CopyInv
<1>1. /\ manifest \in Manifests /\ main = "plan" /\ held = {}
      /\ staging = EmptyStaging /\ stream = NoStreams /\ arena = NoArena
      /\ next = 1 /\ worker = NoWorkers
  BY DEF LoadInit
<1>2. \A w \in Threads : stream[w] = <<>> /\ worker[w] = NoWork
  BY <1>1 DEF NoStreams, NoWorkers
<1>3. \A w \in Threads : WorkerType(w)
  <2> TAKE w \in Threads
  <2>1. /\ DOMAIN worker[w] = WorkFields /\ worker[w].pc = "unborn"
        /\ worker[w].offset \in Nat /\ worker[w].copies \in Nat
    BY <1>2 DEF NoWork, WorkFields
  <2>2. staging[w] \in [0 .. StagingSlots - 1 -> Chunk]
    BY <1>1 DEF EmptyStaging, NoChunk, Chunk
  <2> QED BY <1>2, <2>1, <2>2, NothingQueued DEF WorkerType, Places
<1>4. DOMAIN arena = {"live", "data"} /\ arena.live \in BOOLEAN
  BY <1>1 DEF NoArena
<1>5. DOMAIN staging = Threads /\ DOMAIN stream = Threads /\ DOMAIN worker = Threads
  BY <1>1 DEF EmptyStaging, NoStreams, NoWorkers
<1>6. LoadTypes
  BY <1>1, <1>3, <1>4, <1>5 DEF LoadTypes
<1>7. Running
  BY <1>1, <1>2 DEF Running, NoWork, Idle
<1> QED BY <1>2, <1>6, <1>7, NothingToDo

\* The loader rests once it has returned, whatever is built on it.
LEMMA LoadRests ==
  ASSUME CopyInv,
         UNCHANGED <<manifest, main, held, staging, stream, next, worker>>,
         life' # "load" => main = "returned",
         \/ UNCHANGED arena
         \/ arena' = NoArena /\ main = "returned"
  PROVE  CopyInv'
<1>1. LoadTypes /\ Running
  BY DEF CopyInv
<1>2. DOMAIN arena' = {"live", "data"} /\ arena'.live \in BOOLEAN
  <2>1. DOMAIN NoArena = {"live", "data"} /\ NoArena.live = FALSE
    BY DEF NoArena
  <2>2. DOMAIN arena = {"live", "data"} /\ arena.live \in BOOLEAN
    BY <1>1 DEF LoadTypes
  <2> QED BY <2>1, <2>2
<1>3. (\E w \in Threads : stream[w] # <<>>) /\ arena.live => arena'.live
  <2>1. main = "returned" => \A w \in Threads : stream[w] = <<>>
    BY <1>1 DEF Running
  <2> QED BY <2>1
<1>4. Running'
  BY <1>1 DEF Running
<1>5. main' \in {"plan", "resources", "spawn", "join", "unwind", "returned"}
      /\ held' \subseteq Threads /\ held \subseteq held'
  BY <1>1 DEF LoadTypes
<1> QED BY <1>2, <1>3, <1>4, <1>5, CallerMoves

\* Every step of the loader keeps what is queued safe.
LEMMA LoaderKeeps ==
  ASSUME CopyInv, LoadNext, life = "load", life' = life
  PROVE  CopyInv'
<1>1. CASE Plan \/ Spawned \/ Join
  BY <1>1, PlanKeeps
<1>2. CASE AllocateWorker
  BY <1>2, AllocateWorkerKeeps
<1>3. CASE AllocateArena
  BY <1>3, AllocateArenaKeeps
<1>4. CASE Spawn
  BY <1>4, SpawnKeeps
<1>5. CASE Return
  BY <1>5, ReturnKeeps
<1>6. CASE DeviceBreaks
  BY <1>6, DeviceBreaksKeeps
<1>7. ASSUME NEW w \in Threads, Execute(w) \/ WorkerStep(w) \/ FreeWorker(w)
      PROVE  CopyInv'
  <2>1. CASE Execute(w)
    BY <2>1, ExecuteKeeps
  <2>2. CASE FreeWorker(w)
    BY <2>2, FreeWorkerKeeps
  <2>3. CASE WorkerStep(w)
    <3>1. CASE Start(w)
      BY <3>1, StartKeeps
    <3>2. CASE Claim(w)
      BY <3>2, ClaimKeeps
    <3>3. CASE Fill(w)
      BY <3>3, FillKeeps
    <3>4. CASE Enqueue(w)
      BY <3>4, EnqueueKeeps
    <3>5. CASE Authenticate(w)
      BY <3>5, AuthenticateKeeps
    <3>6. CASE Sync(w)
      BY <3>6, SyncKeeps
    <3> QED BY <2>3, <3>1, <3>2, <3>3, <3>4, <3>5, <3>6 DEF WorkerStep
  <2> QED BY <1>7, <2>1, <2>2, <2>3
<1> QED BY <1>1, <1>2, <1>3, <1>4, <1>5, <1>6, <1>7 DEF LoadNext

\* What holds of the whole engine between any two steps: no queued copy is in
\* danger and the books of the graph cache balance, through every failure of a
\* build and through the destruction.
THEOREM EngineInvariant == LifeSpec => [](CopyInv /\ GraphInv)
<1>1. LifeInit => CopyInv /\ GraphInv
  BY LoadStarts, GraphStarts DEF LifeInit
<1>2. CopyInv /\ GraphInv /\ [LifeNext]_lifeVars => (CopyInv /\ GraphInv)'
  <2> SUFFICES ASSUME CopyInv, GraphInv, [LifeNext]_lifeVars
               PROVE  CopyInv' /\ GraphInv'
    OBVIOUS
  <2>1. life # "load" => main = "returned"
    BY DEF CopyInv, Running
  <2>2. CASE LoadStep
    <3>1. CopyInv'
      BY <2>2, LoaderKeeps DEF LoadStep
    <3>2. GraphInv'
      BY <2>2, GraphRests DEF LoadStep, vars
    <3> QED BY <3>1, <3>2
  <2>3. CASE LoadReturned \/ Bind \/ CreateState \/ AssetStep \/ AssetsFail
             \/ Destroyed
    <3>1. /\ UNCHANGED <<manifest, main, held, staging, stream, next, worker, arena>>
          /\ UNCHANGED vars
      BY <2>3 DEF LoadReturned, Bind, CreateState, AssetStep, AssetsFail,
         Destroyed, loadVars
    <3>2. main = "returned"
      BY <2>1, <2>3 DEF LoadReturned, Bind, CreateState, AssetStep, AssetsFail,
         Destroyed
    <3>3. CopyInv'
      BY <3>1, <3>2, LoadRests
    <3>4. GraphInv'
      BY <3>1, GraphRests DEF vars
    <3> QED BY <3>3, <3>4
  <2>4. CASE CreateRunner
    <3>1. /\ UNCHANGED loadVars /\ main = "returned"
          /\ UNCHANGED <<phase, slots, staged, graphs, owners, cap, cursor, entry,
                         runner, ready, req, served, ran, retired>>
      BY <2>1, <2>4 DEF CreateRunner
    <3>2. CopyInv'
      BY <3>1, LoadRests DEF loadVars
    <3>3. GraphInv'
      BY <3>1, GraphRests DEF runner
    <3> QED BY <3>2, <3>3
  <2>5. CASE RunnerStep
    <3>1. UNCHANGED loadVars /\ main = "returned" /\ Next
      BY <2>1, <2>5 DEF RunnerStep
    <3>2. CopyInv'
      BY <3>1, LoadRests DEF loadVars
    <3>3. GraphInv'
      BY <3>1, RunnerKeeps
    <3> QED BY <3>2, <3>3
  <2>6. CASE DestroyMember
    <3>1. /\ UNCHANGED <<manifest, main, held, staging, stream, next, worker>>
          /\ UNCHANGED vars /\ main = "returned" /\ arena' \in {arena, NoArena}
      BY <2>1, <2>6 DEF DestroyMember
    <3>2. CopyInv'
      BY <3>1, LoadRests
    <3>3. GraphInv'
      BY <3>1, GraphRests DEF vars
    <3> QED BY <3>2, <3>3
  <2>7. CASE UNCHANGED lifeVars
    <3>1. UNCHANGED <<loadVars, vars, life>>
      BY <2>7 DEF lifeVars
    <3>2. CopyInv'
      BY <2>1, <3>1, LoadRests DEF loadVars
    <3>3. GraphInv'
      BY <3>1, GraphRests DEF vars
    <3> QED BY <3>2, <3>3
  <2> QED BY <2>2, <2>3, <2>4, <2>5, <2>6, <2>7 DEF LifeNext
<1> QED BY <1>1, <1>2, PTL DEF LifeSpec

\* load_one_shard, ~CudaWorkerResources, ~CudaArena: a copy the device has yet
\* to run finds its bytes in its buffer, and buffer and arena allocated.
THEOREM CopiesStaySafe == LifeSpec => []CopiesAreSafe
<1>1. CopyInv /\ GraphInv => CopiesAreSafe
  BY DEF CopyInv
<1> QED BY <1>1, EngineInvariant, PTL

\* destroy_decode_graph_p1_slot and its callers: the count of a shared
\* executable is the number of its slots, no slot leads to a destroyed handle,
\* none leaks, and a destroyed engine has none left.
THEOREM HandlesFreedOnce == LifeSpec => []HandlesAreSound
<1>1. CopyInv /\ GraphInv => HandlesAreSound
  <2> SUFFICES ASSUME GraphInv PROVE HandlesAreSound
    OBVIOUS
  <2> DEFINE used(h) == Refs(slots, Positions, h) + Refs(staged, Positions, h)
  <2>1. \A h \in Handles : /\ Refs(slots, Positions, h) \in 0 .. Capacity
                           /\ Refs(staged, Positions, h) \in 0 .. Capacity
    <3>1. Positions \in SUBSET Positions
      OBVIOUS
    <3> QED BY <3>1, RefsType
  <2>2. \A h \in Handles : owners[h].refs = used(h)
    BY DEF GraphInv, Counted
  <2>3. \A h \in Handles : owners[h].refs \in 0 .. 2 * Capacity
    BY <2>1, <2>2
  <2>4. TypeOK
    <3>1. poisoned \in BOOLEAN /\ capturing \in BOOLEAN /\ ready \in BOOLEAN
      BY DEF GraphInv, FlagTypes
    <3> QED BY <2>3, <3>1 DEF GraphInv, TypeOK, HandleTypes, RunnerTypes
  <2>5. \A h \in Handles : used(h) > 0 <=> Used(h)
    BY UsedFacts
  <2>6. \A h \in Handles : used(h) > 0 => owners[h].live
    <3>1. \A h \in Handles : Used(h) => owners[h].live
      BY SlotFacts DEF Used
    <3> QED BY <2>5, <3>1
  <2>7. \A f \in {slots, staged} : \A p \in Positions :
          f[p] # Empty => graphs[f[p].g] # Dead /\ graphs[f[p].g].pos = p
    BY GoneFacts DEF GraphInv, Sound
  <2>8. \A h \in Handles :
          /\ owners[h].live => used(h) > 0 \/ cap.o = h
          /\ graphs[h] # Dead =>
               cap.g = h \/ \E f \in {slots, staged} : \E p \in Positions : f[p].g = h
    <3> HIDE DEF used
    <3> QED BY <2>5 DEF GraphInv, NoOrphans, Kept
  <2>9. phase = "gone" => \A h \in Handles : graphs[h] = Dead /\ ~owners[h].live
    <3> SUFFICES ASSUME phase = "gone", NEW h \in Handles
                 PROVE  graphs[h] = Dead /\ ~owners[h].live
      OBVIOUS
    <3>1. \A p \in Positions : slots[p] = Empty /\ staged[p] = Empty
      BY DEF GraphInv, Filled
    <3>2. cap.g = 0 /\ cap.o = 0
      BY DEF GraphInv, Flow, Capturing
    <3>3. ~Used(h) /\ ~Kept(h)
      BY <3>1, GoneFacts DEF Used, Kept
    <3> QED BY <3>2, <3>3, GoneFacts DEF GraphInv, NoOrphans
  <2>10. HandlesAreOwned
    BY <2>2, <2>6, <2>7, <2>8, <2>9 DEF HandlesAreOwned
  <2> QED BY <2>4, <2>10 DEF HandlesAreSound
<1> QED BY <1>1, EngineInvariant, PTL

\* replay_fixed_position_decode_graph_p1 and generate: a replay runs the position
\* and the token it was asked for, and a retired cache serves no ordinary request.
THEOREM ReplaysAreExact == LifeSpec => []ReplaysOwnStep
<1>1. CopyInv /\ GraphInv => ReplaysOwnStep
  BY DEF GraphInv
<1> QED BY <1>1, EngineInvariant, PTL

\* ReferenceEngine::create: the cache is used only when complete, no failing
\* capture leaves the stream recording, and the first request finds a clean
\* runner.
THEOREM CreationIsClean == LifeSpec => []CreationIsSound
<1>1. CopyInv /\ GraphInv => CreationIsSound
  <2> SUFFICES ASSUME GraphInv PROVE CreationIsSound
    OBVIOUS
  <2>1. NeverLeftRecording
    BY DEF GraphInv, Flow, NeverLeftRecording
  <2>2. ReadyMeansComplete
    BY WindowFacts DEF GraphInv, Filled, ReadyMeansComplete, Has
  <2> QED BY <2>1, <2>2 DEF GraphInv, CreationIsSound
<1> QED BY <1>1, EngineInvariant, PTL

-----------------------------------------------------------------------------
(* What an accepted route selects.                                          *)

HIDE WindowAssumption

LEMMA LayoutNames ==
  /\ Elems(Owners) = {"fp8_output", "scale6", "gate_up", "supermatrix", "fp8_marlin",
                      "nvfp4_marlin", "parity", "packed", "target_aot",
                      "consumer_order"}
  /\ Layouts = Elems(Owners) \cup {"packed_v2"}
<1>1. DOMAIN Owners = 1 .. 10
  BY DEF Owners
<1>2. 1 .. 10 = {1, 2, 3, 4, 5, 6, 7, 8, 9, 10}
  OBVIOUS
<1>3. Elems(Owners) = {Owners[i] : i \in {1, 2, 3, 4, 5, 6, 7, 8, 9, 10}}
  BY <1>1, <1>2 DEF Elems
<1>4. @ = {Owners[1], Owners[2], Owners[3], Owners[4], Owners[5], Owners[6],
           Owners[7], Owners[8], Owners[9], Owners[10]}
  OBVIOUS
<1>5. /\ Owners[1] = "fp8_output" /\ Owners[2] = "scale6" /\ Owners[3] = "gate_up"
      /\ Owners[4] = "supermatrix" /\ Owners[5] = "fp8_marlin"
      /\ Owners[6] = "nvfp4_marlin" /\ Owners[7] = "parity" /\ Owners[8] = "packed"
      /\ Owners[9] = "target_aot" /\ Owners[10] = "consumer_order"
  BY DEF Owners
<1> QED BY <1>3, <1>4, <1>5 DEF Layouts, Elems

\* A layout selected on a condition.
LEMMA WhenFacts ==
  ASSUME NEW c \in BOOLEAN, NEW k \in Layouts
  PROVE  /\ When(c, k) \in Seq(Layouts) /\ Arranged(When(c, k))
         /\ Elems(When(c, k)) = IF c THEN {k} ELSE {}
<1>1. CASE c
  <2>1. When(c, k) = <<k>>
    BY <1>1 DEF When
  <2> DEFINE s == <<k>>
  <2>2. s \in Seq(Layouts) /\ DOMAIN s = {1} /\ s[1] = k
    OBVIOUS
  <2> HIDE DEF s
  <2>3. Elems(s) = {k}
    BY <2>2 DEF Elems
  <2>4. Arranged(s)
    BY <2>2 DEF Arranged
  <2> QED BY <1>1, <2>1, <2>2, <2>3, <2>4 DEF s
<1>2. CASE ~c
  <2>1. When(c, k) = <<>>
    BY <1>2 DEF When
  <2>2. <<>> \in Seq(Layouts) /\ DOMAIN <<>> = {}
    BY NothingQueued
  <2> QED BY <1>2, <2>1, <2>2 DEF Arranged, Elems
<1> QED BY <1>1, <1>2

\* Selections that fit stay arranged when one follows the other.
LEMMA JoinedFacts ==
  ASSUME NEW s \in Seq(Layouts), NEW t \in Seq(Layouts), Arranged(s), Arranged(t),
         \A a \in Elems(s), b \in Elems(t) : Fits(a, b)
  PROVE  /\ s \o t \in Seq(Layouts) /\ Arranged(s \o t)
         /\ Elems(s \o t) = Elems(s) \cup Elems(t)
<1>1. /\ s \o t \in Seq(Layouts) /\ Len(s) \in Nat /\ Len(t) \in Nat
      /\ DOMAIN s = 1 .. Len(s) /\ DOMAIN t = 1 .. Len(t)
      /\ DOMAIN (s \o t) = 1 .. Len(s) + Len(t)
      /\ \A i \in 1 .. Len(s) + Len(t) :
           (s \o t)[i] = IF i =< Len(s) THEN s[i] ELSE t[i - Len(s)]
  <2>1. IsSeq(s) /\ IsSeq(t)
    BY IsSeqOf
  <2> QED BY <2>1, ConcatFacts
<1> DEFINE u == s \o t
<1> HIDE DEF u
<1>2. \A i \in DOMAIN u :
        \/ i \in DOMAIN s /\ u[i] = s[i]
        \/ i > Len(s) /\ i - Len(s) \in DOMAIN t /\ u[i] = t[i - Len(s)]
  BY <1>1 DEF u
<1>3. ASSUME NEW i \in DOMAIN u, NEW j \in DOMAIN u, i < j
      PROVE  Fits(u[i], u[j])
  <2>1. CASE j \in DOMAIN s
    <3>1. i \in DOMAIN s /\ u[i] = s[i] /\ u[j] = s[j]
      BY <1>1, <1>2, <1>3, <2>1 DEF u
    <3> QED BY <1>3, <2>1, <3>1 DEF Arranged
  <2>2. CASE i \in DOMAIN s /\ j \notin DOMAIN s
    <3>1. u[i] = s[i] /\ j - Len(s) \in DOMAIN t /\ u[j] = t[j - Len(s)]
      BY <1>1, <1>2, <2>2 DEF u
    <3> QED BY <2>2, <3>1 DEF Elems
  <2>3. CASE i \notin DOMAIN s
    <3>1. /\ i - Len(s) \in DOMAIN t /\ u[i] = t[i - Len(s)]
          /\ j - Len(s) \in DOMAIN t /\ u[j] = t[j - Len(s)]
          /\ i - Len(s) < j - Len(s)
      BY <1>1, <1>2, <1>3, <2>3 DEF u
    <3> QED BY <3>1 DEF Arranged
  <2> QED BY <2>1, <2>2, <2>3
<1>4. Elems(u) \subseteq Elems(s) \cup Elems(t)
  BY <1>2 DEF Elems
<1>5. Elems(s) \subseteq Elems(u)
  <2>1. \A i \in DOMAIN s : i \in DOMAIN u /\ u[i] = s[i]
    BY <1>1 DEF u
  <2> QED BY <2>1 DEF Elems
<1>6. Elems(t) \subseteq Elems(u)
  <2>1. \A i \in DOMAIN t : i + Len(s) \in DOMAIN u /\ u[i + Len(s)] = t[i]
    BY <1>1 DEF u
  <2> QED BY <2>1 DEF Elems
<1>7. Arranged(u)
  BY <1>3 DEF Arranged
<1> QED BY <1>1, <1>4, <1>5, <1>6, <1>7 DEF u

\* The prefill layouts of a route: at most one for each kind of projection.
PrefillChosen(r) ==
  IF ~r.chunk512 THEN {}
  ELSE IF r.tactic = "packed" THEN {"packed"}
  ELSE (IF Fp8MarlinSelected(r) THEN {"fp8_marlin"} ELSE {})
       \cup (IF SupermatrixSelected(r) THEN {"supermatrix"} ELSE {})
       \cup (IF MarlinSelected(r) THEN {"nvfp4_marlin"} ELSE {})
       \cup (IF r.tactic = "parity" THEN {"parity"} ELSE {})
       \cup (IF r.tactic = "packed_v2" THEN {"packed_v2"} ELSE {})

DecodeChosen(r) == {k \in DecodeKinds : Asked(r, k)}

LEMMA PrefillSelected ==
  ASSUME NEW r \in Route
  PROVE  /\ PrefillLayouts(r) \in Seq(Layouts) /\ Arranged(PrefillLayouts(r))
         /\ Elems(PrefillLayouts(r)) = PrefillChosen(r)
<1> DEFINE a == When(Fp8MarlinSelected(r), "fp8_marlin")
           b == When(SupermatrixSelected(r), "supermatrix")
           c == When(MarlinSelected(r), "nvfp4_marlin")
           d == When(r.tactic = "parity", "parity")
           e == When(r.tactic = "packed_v2", "packed_v2")
<1>1. {"fp8_marlin", "supermatrix", "nvfp4_marlin", "parity", "packed_v2",
       "packed"} \subseteq Layouts
  BY LayoutNames
<1>2. /\ Fp8MarlinSelected(r) \in BOOLEAN /\ SupermatrixSelected(r) \in BOOLEAN
      /\ MarlinSelected(r) \in BOOLEAN
  BY DEF Fp8MarlinSelected, SupermatrixSelected, MarlinSelected
<1>3. /\ a \in Seq(Layouts) /\ Arranged(a)
      /\ Elems(a) = IF Fp8MarlinSelected(r) THEN {"fp8_marlin"} ELSE {}
  BY <1>1, <1>2, WhenFacts
<1>4. /\ b \in Seq(Layouts) /\ Arranged(b)
      /\ Elems(b) = IF SupermatrixSelected(r) THEN {"supermatrix"} ELSE {}
  BY <1>1, <1>2, WhenFacts
<1>5. /\ c \in Seq(Layouts) /\ Arranged(c)
      /\ Elems(c) = IF MarlinSelected(r) THEN {"nvfp4_marlin"} ELSE {}
  BY <1>1, <1>2, WhenFacts
<1>6. /\ d \in Seq(Layouts) /\ Arranged(d)
      /\ Elems(d) = IF r.tactic = "parity" THEN {"parity"} ELSE {}
  BY <1>1, WhenFacts
<1>7. /\ e \in Seq(Layouts) /\ Arranged(e)
      /\ Elems(e) = IF r.tactic = "packed_v2" THEN {"packed_v2"} ELSE {}
  BY <1>1, WhenFacts
<1>8. PrefillLayouts(r) = IF ~r.chunk512 THEN <<>>
                          ELSE IF r.tactic = "packed" THEN <<"packed">>
                          ELSE a \o b \o c \o d \o e
  BY DEF PrefillLayouts
<1> HIDE DEF a, b, c, d, e
<1>9. /\ a \o b \in Seq(Layouts) /\ Arranged(a \o b)
      /\ Elems(a \o b) = Elems(a) \cup Elems(b)
  <2>1. \A x \in Elems(a), y \in Elems(b) : Fits(x, y)
    BY <1>3, <1>4 DEF Fits, OwnerOf
  <2> QED BY <1>3, <1>4, <2>1, JoinedFacts
<1> DEFINE ab == a \o b
<1> HIDE DEF ab
<1>10. /\ ab \o c \in Seq(Layouts) /\ Arranged(ab \o c)
       /\ Elems(ab \o c) = Elems(a) \cup Elems(b) \cup Elems(c)
  <2>1. \A x \in Elems(ab), y \in Elems(c) : Fits(x, y)
    BY <1>3, <1>4, <1>5, <1>9 DEF Fits, OwnerOf, ab
  <2>2. ab \in Seq(Layouts) /\ Arranged(ab)
    BY <1>9 DEF ab
  <2> QED BY <1>5, <1>9, <2>1, <2>2, JoinedFacts DEF ab
<1> DEFINE abc == ab \o c
<1> HIDE DEF abc
<1>11. /\ abc \o d \in Seq(Layouts) /\ Arranged(abc \o d)
       /\ Elems(abc \o d) = Elems(a) \cup Elems(b) \cup Elems(c) \cup Elems(d)
  <2>1. \A x \in Elems(abc), y \in Elems(d) : Fits(x, y)
    BY <1>3, <1>4, <1>5, <1>6, <1>10 DEF Fits, OwnerOf, abc
  <2>2. abc \in Seq(Layouts) /\ Arranged(abc)
    BY <1>10 DEF abc
  <2> QED BY <1>6, <1>10, <2>1, <2>2, JoinedFacts DEF abc
<1> DEFINE abcd == abc \o d
<1> HIDE DEF abcd
<1>12. /\ abcd \o e \in Seq(Layouts) /\ Arranged(abcd \o e)
       /\ Elems(abcd \o e) =
            Elems(a) \cup Elems(b) \cup Elems(c) \cup Elems(d) \cup Elems(e)
  <2>1. \A x \in Elems(abcd), y \in Elems(e) : Fits(x, y)
    BY <1>3, <1>4, <1>5, <1>6, <1>7, <1>11 DEF Fits, OwnerOf, abcd
  <2>2. abcd \in Seq(Layouts) /\ Arranged(abcd)
    BY <1>11 DEF abcd
  <2> QED BY <1>7, <1>11, <2>1, <2>2, JoinedFacts DEF abcd
<1>13. CASE ~r.chunk512
  <2>1. PrefillLayouts(r) = <<>> /\ PrefillChosen(r) = {}
    BY <1>8, <1>13 DEF PrefillChosen
  <2> QED BY <2>1, NothingQueued DEF Arranged, Elems
<1>14. CASE r.chunk512 /\ r.tactic = "packed"
  <2>1. PrefillLayouts(r) = When(TRUE, "packed") /\ PrefillChosen(r) = {"packed"}
    BY <1>8, <1>14 DEF PrefillChosen, When
  <2> QED BY <1>1, <2>1, WhenFacts
<1>15. CASE r.chunk512 /\ r.tactic # "packed"
  <2>1. PrefillLayouts(r) = abcd \o e
    BY <1>8, <1>15 DEF ab, abc, abcd
  <2> QED BY <1>3, <1>4, <1>5, <1>6, <1>7, <1>12, <1>15, <2>1 DEF PrefillChosen
<1> QED BY <1>13, <1>14, <1>15

LEMMA DecodeSelected ==
  ASSUME NEW r \in Route
  PROVE  /\ DecodeLayouts(r) \in Seq(Layouts) /\ Arranged(DecodeLayouts(r))
         /\ Elems(DecodeLayouts(r)) = DecodeChosen(r)
<1> DEFINE a == When(Asked(r, "gate_up"), "gate_up")
           b == When(Asked(r, "consumer_order"), "consumer_order")
<1>1. {"gate_up", "consumer_order"} \subseteq Layouts
  BY LayoutNames
<1>2. \A k : Asked(r, k) \in BOOLEAN
  <2>1. CASE r.testing
    BY <2>1 DEF Asked
  <2>2. CASE ~r.testing
    BY <2>2 DEF Asked, Ordinary
  <2> QED BY <2>1, <2>2
<1>3. /\ a \in Seq(Layouts) /\ Arranged(a)
      /\ Elems(a) = IF Asked(r, "gate_up") THEN {"gate_up"} ELSE {}
  BY <1>1, <1>2, WhenFacts
<1>4. /\ b \in Seq(Layouts) /\ Arranged(b)
      /\ Elems(b) = IF Asked(r, "consumer_order") THEN {"consumer_order"} ELSE {}
  BY <1>1, <1>2, WhenFacts
<1>5. DecodeLayouts(r) = a \o b
  BY DEF DecodeLayouts
<1>6. \A x \in Elems(a), y \in Elems(b) : Fits(x, y)
  <2> HIDE DEF a, b
  <2> QED BY <1>3, <1>4 DEF Fits, OwnerOf
<1>7. /\ a \o b \in Seq(Layouts) /\ Arranged(a \o b)
      /\ Elems(a \o b) = Elems(a) \cup Elems(b)
  <2> HIDE DEF a, b
  <2> QED BY <1>3, <1>4, <1>6, JoinedFacts
<1>8. Elems(a) \cup Elems(b) = DecodeChosen(r)
  <2> HIDE DEF a, b
  <2> QED BY <1>3, <1>4 DEF DecodeChosen, DecodeKinds
<1> QED BY <1>5, <1>7, <1>8

\* The layouts of a route, as a set, and their order.
LEMMA SelectionIs ==
  ASSUME NEW r \in Route
  PROVE  /\ Selection(r) \in Seq(Layouts) /\ Arranged(Selection(r))
         /\ Elems(Selection(r)) =
              (IF r.sm87 THEN Optional \cup PrefillChosen(r) \cup DecodeChosen(r)
               ELSE {})
              \cup (IF r.aot THEN {"target_aot"} ELSE {})
<1> DEFINE o == <<"fp8_output", "scale6">>
           p == PrefillLayouts(r)
           d == DecodeLayouts(r)
           t == When(r.aot, "target_aot")
<1>1. {"fp8_output", "scale6", "target_aot"} \subseteq Layouts
  BY LayoutNames
<1>2. o \in Seq(Layouts) /\ Arranged(o) /\ Elems(o) = Optional
  <2>1. /\ o \in Seq(Layouts) /\ DOMAIN o = {1, 2}
        /\ o[1] = "fp8_output" /\ o[2] = "scale6"
    BY <1>1
  <2>2. Fits("fp8_output", "scale6")
    BY DEF Fits, OwnerOf
  <2>3. Arranged(o)
    <3> HIDE DEF o
    <3>1. \A i, j \in {1, 2} : i < j => i = 1 /\ j = 2
      OBVIOUS
    <3> QED BY <2>1, <2>2, <3>1 DEF Arranged
  <2> HIDE DEF o
  <2> QED BY <2>1, <2>3 DEF Elems, Optional
<1>3. r.aot \in BOOLEAN /\ r.sm87 \in BOOLEAN
  BY DEF Route
<1>4. /\ t \in Seq(Layouts) /\ Arranged(t)
      /\ Elems(t) = IF r.aot THEN {"target_aot"} ELSE {}
  BY <1>1, <1>3, WhenFacts
<1>5. p \in Seq(Layouts) /\ Arranged(p) /\ Elems(p) = PrefillChosen(r)
  BY PrefillSelected
<1>6. d \in Seq(Layouts) /\ Arranged(d) /\ Elems(d) = DecodeChosen(r)
  BY DecodeSelected
<1>7. Selection(r) = (IF r.sm87 THEN (o \o p) \o d ELSE <<>>) \o t
  BY DEF Selection
<1>8. PrefillChosen(r) \subseteq {"fp8_marlin", "supermatrix", "nvfp4_marlin",
                                  "parity", "packed_v2", "packed"}
  BY DEF PrefillChosen
<1>9. DecodeChosen(r) \subseteq {"gate_up", "consumer_order"}
  BY DEF DecodeChosen, DecodeKinds
<1> HIDE DEF o, p, d, t
<1>10. /\ o \o p \in Seq(Layouts) /\ Arranged(o \o p)
       /\ Elems(o \o p) = Optional \cup PrefillChosen(r)
  <2>1. \A x \in Elems(o), y \in Elems(p) : Fits(x, y)
    BY <1>2, <1>5, <1>8 DEF Fits, OwnerOf, Optional
  <2> QED BY <1>2, <1>5, <2>1, JoinedFacts
<1> DEFINE op == o \o p
<1> HIDE DEF op
<1>11. /\ op \o d \in Seq(Layouts) /\ Arranged(op \o d)
       /\ Elems(op \o d) = Optional \cup PrefillChosen(r) \cup DecodeChosen(r)
  <2>1. \A x \in Elems(op), y \in Elems(d) : Fits(x, y)
    BY <1>6, <1>8, <1>9, <1>10 DEF Fits, OwnerOf, Optional, op
  <2>2. op \in Seq(Layouts) /\ Arranged(op)
    BY <1>10 DEF op
  <2> QED BY <1>6, <1>10, <2>1, <2>2, JoinedFacts DEF op
<1> DEFINE m == IF r.sm87 THEN op \o d ELSE <<>>
<1>12. /\ m \in Seq(Layouts) /\ Arranged(m)
       /\ Elems(m) = IF r.sm87 THEN Optional \cup PrefillChosen(r) \cup DecodeChosen(r)
                     ELSE {}
  <2>1. <<>> \in Seq(Layouts) /\ Arranged(<<>>) /\ Elems(<<>>) = {}
    BY NothingQueued DEF Arranged, Elems
  <2> QED BY <1>11, <2>1
<1>13. Selection(r) = m \o t
  BY <1>7 DEF op
<1> HIDE DEF m
<1>14. \A x \in Elems(m), y \in Elems(t) : Fits(x, y)
  BY <1>4, <1>8, <1>9, <1>12 DEF Fits, OwnerOf, Optional
<1>15. Elems(m \o t) = Elems(m) \cup Elems(t) /\ m \o t \in Seq(Layouts)
       /\ Arranged(m \o t)
  BY <1>4, <1>12, <1>14, JoinedFacts
<1> QED BY <1>4, <1>12, <1>13, <1>15

\* An accepted route selects no two layouts that exclude one another, or that
\* share an owner; every projection has at most one, and with the NVFP4
\* inventory exactly one.
LEMMA SelectionFacts ==
  ASSUME NEW r \in Route, ValidRoute(r)
  PROVE  LET C == Elems(Selection(r)) IN
         /\ C \subseteq Layouts
         /\ \A k \in C : Conflicts(k) \cap C = {}
         /\ \A k, l \in C : OwnerOf(k) = OwnerOf(l) => k = l
         /\ "consumer_order" \in C => "scale6" \in C
         /\ \A k, l \in C \cap Nvfp4Layouts : k = l
         /\ \A k, l \in C \cap Fp8Layouts : k = l
         /\ r.sm87 /\ r.chunk512 /\ r.nvfp4 => C \cap Nvfp4Layouts # {}
<1> DEFINE C == Elems(Selection(r))
<1>1. /\ Selection(r) \in Seq(Layouts)
      /\ C = (IF r.sm87 THEN Optional \cup PrefillChosen(r) \cup DecodeChosen(r)
              ELSE {})
             \cup (IF r.aot THEN {"target_aot"} ELSE {})
  BY SelectionIs
<1>2. C \subseteq Layouts
  BY <1>1 DEF Elems
<1>3. /\ r.tactic \in Tactics
      /\ r.sm87 \in BOOLEAN /\ r.chunk512 \in BOOLEAN /\ r.whole \in BOOLEAN
      /\ r.aot \in BOOLEAN /\ r.fp8 \in BOOLEAN /\ r.nvfp4 \in BOOLEAN
  BY DEF Route
<1>4. DecodeChosen(r) \subseteq {"gate_up", "consumer_order"}
  BY DEF DecodeChosen, DecodeKinds
<1>5. PrefillChosen(r) \subseteq {"fp8_marlin", "supermatrix", "nvfp4_marlin",
                                  "parity", "packed_v2", "packed"}
  BY DEF PrefillChosen
<1> HIDE DEF C
<1>6. /\ "nvfp4_marlin" \in C => r.sm87 /\ r.chunk512 /\ MarlinSelected(r)
                                 /\ r.tactic # "packed"
      /\ "parity" \in C => r.tactic = "parity"
      /\ "packed" \in C => r.tactic = "packed"
      /\ "packed_v2" \in C => r.tactic = "packed_v2"
      /\ "target_aot" \in C => r.aot
      /\ "supermatrix" \in C => SupermatrixSelected(r) /\ r.tactic # "packed"
      /\ "fp8_marlin" \in C => Fp8MarlinSelected(r) /\ r.tactic # "packed"
  BY <1>1, <1>4, <1>5 DEF PrefillChosen, Optional
<1>7. /\ r.tactic # "exact" => r.whole /\ ~r.aot
      /\ r.whole => ~r.aot
  BY <1>3 DEF ValidRoute
<1>8. \A k, l \in C : k \in Nvfp4Layouts /\ l \in Nvfp4Layouts => k = l
  BY <1>6, <1>7 DEF Nvfp4Layouts, MarlinSelected
<1>9. \A k, l \in C : k \in Fp8Layouts /\ l \in Fp8Layouts => k = l
  BY <1>6 DEF Fp8Layouts, Fp8MarlinSelected
<1>10. ASSUME NEW k \in C, NEW l \in Conflicts(k) \cap C PROVE FALSE
  <2>1. /\ k = "nvfp4_marlin" => l \in {"parity"}
        /\ k = "parity" => l \in {"nvfp4_marlin", "packed", "packed_v2"}
        /\ k = "packed" => l \in {"nvfp4_marlin", "parity", "supermatrix",
                                 "fp8_marlin"}
        /\ k = "packed_v2" => l \in {"nvfp4_marlin", "parity", "packed"}
        /\ k = "target_aot" => l \in {"nvfp4_marlin", "packed", "packed_v2",
                                     "parity"}
    BY <1>10 DEF Conflicts
  <2>2. k \notin Nvfp4Layouts => Conflicts(k) = {}
    BY DEF Conflicts, Nvfp4Layouts
  <2>3. k \in Nvfp4Layouts
    BY <1>10, <2>2
  <2>4. k # l /\ (l \in Nvfp4Layouts \/ (k = "packed" /\ l \in Fp8Layouts))
    <3>1. k \in {"nvfp4_marlin", "parity", "packed", "packed_v2", "target_aot"}
      BY <2>3 DEF Nvfp4Layouts
    <3> QED BY <2>1, <3>1 DEF Nvfp4Layouts, Fp8Layouts
  <2> QED BY <1>8, <1>9, <1>10, <2>3, <2>4 DEF Fp8Layouts
<1>11. \A k, l \in C : OwnerOf(k) = OwnerOf(l) => k = l
  BY <1>6 DEF OwnerOf
<1>12. "consumer_order" \in C => "scale6" \in C
  BY <1>1, <1>5 DEF Optional
<1>13. r.sm87 /\ r.chunk512 /\ r.nvfp4 => C \cap Nvfp4Layouts # {}
  <2> SUFFICES ASSUME r.sm87, r.chunk512, r.nvfp4
               PROVE  C \cap Nvfp4Layouts # {}
    OBVIOUS
  <2>1. /\ r.aot => "target_aot" \in C
        /\ r.tactic = "packed" => "packed" \in C
        /\ r.tactic # "packed" /\ MarlinSelected(r) => "nvfp4_marlin" \in C
        /\ r.tactic = "parity" => "parity" \in C
        /\ r.tactic = "packed_v2" => "packed_v2" \in C
    BY <1>1 DEF PrefillChosen
  <2> QED BY <2>1 DEF Nvfp4Layouts, MarlinSelected
<1>14. \A k, l \in C \cap Nvfp4Layouts : k = l
  BY <1>8
<1>15. \A k, l \in C \cap Fp8Layouts : k = l
  BY <1>9
<1>16. \A k \in C : Conflicts(k) \cap C = {}
  BY <1>10
<1> QED BY <1>2, <1>11, <1>12, <1>13, <1>14, <1>15, <1>16 DEF C

\* A set without two members has at most one.
LEMMA AtMostOne ==
  ASSUME NEW S, \A a, b \in S : a = b
  PROVE  Cardinality(S) <= 1
<1>1. CASE S = {}
  BY <1>1, FS_EmptySet
<1>2. CASE S # {}
  <2>1. PICK a : a \in S
    BY <1>2
  <2>2. S = {a}
    BY <2>1
  <2> QED BY <2>2, FS_Singleton
<1> QED BY <1>1, <1>2

-----------------------------------------------------------------------------
(* The members of an engine, and the one that is destroyed next.            *)

LEMMA MembersAre ==
  /\ DOMAIN Members = 1 .. 14
  /\ Members[1] = "resident"
  /\ \A i \in 1 .. 10 : Members[i + 1] = Owners[i]
  /\ Members[12] = "weights" /\ Members[13] = "request" /\ Members[14] = "runner"
  /\ MemberSet = {"resident", "weights", "request", "runner"} \cup Elems(Owners)
<1> DEFINE a == <<"resident">>
           b == <<"weights", "request", "runner">>
           ab == a \o Owners
<1>1. /\ IsSeq(a) /\ Len(a) = 1 /\ a[1] = "resident"
      /\ IsSeq(b) /\ Len(b) = 3 /\ b[1] = "weights" /\ b[2] = "request"
      /\ b[3] = "runner"
  <2>1. a \in Seq({"resident"}) /\ b \in Seq({"weights", "request", "runner"})
    OBVIOUS
  <2>2. IsSeq(a) /\ IsSeq(b)
    <3> HIDE DEF a, b
    <3> QED BY <2>1, IsSeqOf
  <2> QED BY <2>2
<1>2. IsSeq(Owners) /\ Len(Owners) = 10
  <2>1. /\ Owners \in Seq({"fp8_output", "scale6", "gate_up", "supermatrix",
                           "fp8_marlin", "nvfp4_marlin", "parity", "packed",
                           "target_aot", "consumer_order"})
        /\ Len(Owners) = 10
    BY DEF Owners
  <2> QED BY <2>1, IsSeqOf
<1> HIDE DEF a, b
<1>3. /\ IsSeq(ab) /\ DOMAIN ab = 1 .. 11
      /\ \A i \in 1 .. 11 : ab[i] = IF i =< 1 THEN a[i] ELSE Owners[i - 1]
  <2>1. /\ IsSeq(ab) /\ DOMAIN ab = 1 .. Len(a) + Len(Owners)
        /\ \A i \in 1 .. Len(a) + Len(Owners) :
             ab[i] = IF i =< Len(a) THEN a[i] ELSE Owners[i - Len(a)]
    BY <1>1, <1>2, ConcatFacts
  <2> HIDE DEF ab
  <2> QED BY <1>1, <1>2, <2>1
<1>4. Members = ab \o b
  BY DEF Members, a, b
<1> HIDE DEF ab
<1>5. Len(ab) = 11
  BY <1>3 DEF IsSeq
<1>6. /\ IsSeq(Members) /\ DOMAIN Members = 1 .. 14
      /\ \A i \in 1 .. 14 : Members[i] = IF i =< 11 THEN ab[i] ELSE b[i - 11]
  <2>1. /\ IsSeq(Members) /\ DOMAIN Members = 1 .. Len(ab) + Len(b)
        /\ \A i \in 1 .. Len(ab) + Len(b) :
             Members[i] = IF i =< Len(ab) THEN ab[i] ELSE b[i - Len(ab)]
    BY <1>1, <1>3, <1>4, ConcatFacts
  <2> QED BY <1>1, <1>5, <2>1
<1>7. Members[1] = "resident"
  BY <1>1, <1>3, <1>6
<1>8. ASSUME NEW i \in 1 .. 10 PROVE Members[i + 1] = Owners[i]
  <2>1. i + 1 \in 1 .. 11 /\ ~(i + 1 =< 1) /\ (i + 1) - 1 = i
    OBVIOUS
  <2> QED BY <1>3, <1>6, <2>1
<1>9. Members[12] = "weights" /\ Members[13] = "request" /\ Members[14] = "runner"
  <2>1. Members[12] = b[12 - 11] /\ Members[13] = b[13 - 11] /\ Members[14] = b[14 - 11]
    BY <1>6
  <2> QED BY <1>1, <2>1
<1>10. \A i \in 1 .. 14 : \/ i \in {1, 12, 13, 14}
                          \/ i - 1 \in 1 .. 10 /\ Members[i] = Owners[i - 1]
  <2> SUFFICES ASSUME NEW i \in 1 .. 14, i \notin {1, 12, 13, 14}
               PROVE  i - 1 \in 1 .. 10 /\ Members[i] = Owners[i - 1]
    OBVIOUS
  <2>1. i - 1 \in 1 .. 10 /\ (i - 1) + 1 = i
    OBVIOUS
  <2> QED BY <1>8, <2>1
<1>11. DOMAIN Owners = 1 .. 10
  BY DEF Owners
<1>12. MemberSet \subseteq {"resident", "weights", "request", "runner"}
                           \cup Elems(Owners)
  BY <1>6, <1>7, <1>9, <1>10, <1>11 DEF MemberSet, Elems
<1>13. {"resident", "weights", "request", "runner"} \subseteq MemberSet
  BY <1>6, <1>7, <1>9 DEF MemberSet, Elems
<1>14. Elems(Owners) \subseteq MemberSet
  <2>1. \A i \in 1 .. 10 : i + 1 \in DOMAIN Members
    BY <1>6
  <2> QED BY <1>8, <1>11, <2>1 DEF MemberSet, Elems
<1> QED BY <1>6, <1>7, <1>8, <1>9, <1>12, <1>13, <1>14

\* ~Impl destroys the members in the reverse order of their declaration.
LEMMA NextMemberFacts ==
  ASSUME alive \subseteq MemberSet, alive # {}
  PROVE  /\ NextMember \in alive
         /\ "runner" \in alive => NextMember = "runner"
         /\ NextMember \in Elems(Owners) \cup {"resident"} => "weights" \notin alive
         /\ NextMember = "resident" => alive = {"resident"}
<1> DEFINE I == {i \in DOMAIN Members : Members[i] \in alive}
<1>1. I \subseteq 1 .. 14 /\ I # {}
  BY MembersAre DEF MemberSet, Elems
<1>2. Max(I) \in I /\ \A i \in I : i =< Max(I)
  <2> DEFINE T == {15 - i : i \in I}
  <2>1. T \subseteq Nat /\ T # {}
    BY <1>1
  <2>2. Min(T) \in T /\ \A y \in T : Min(T) =< y
    <3> HIDE DEF T
    <3> QED BY <2>1, Least
  <2>3. PICK m \in I : Min(T) = 15 - m
    BY <2>2
  <2>4. \A i \in I : i =< m
    <3> TAKE i \in I
    <3>1. 15 - m =< 15 - i
      BY <2>2, <2>3
    <3> QED BY <1>1, <3>1
  <2> HIDE DEF I
  <2> QED BY <1>1, <2>4 DEF Max
<1>3. NextMember = Members[Max(I)]
  BY DEF NextMember
<1> DEFINE n == Max(I)
<1> HIDE DEF n
<1>4. n \in 1 .. 14 /\ NextMember = Members[n] /\ NextMember \in alive
  BY <1>1, <1>2, <1>3 DEF n
<1>5. \A i \in 1 .. 14 : Members[i] \in alive => i =< n
  BY <1>2, MembersAre DEF n
<1> HIDE DEF I
<1>6. \A i, j \in 1 .. 10 : Owners[i] = Owners[j] => i = j
  BY DEF Owners
<1>7. Elems(Owners) \cap {"resident", "weights", "request", "runner"} = {}
  BY LayoutNames
<1>8. "runner" \in alive => NextMember = "runner"
  <2>1. "runner" \in alive => 14 =< n
    BY <1>5, MembersAre
  <2> QED BY <1>4, <2>1, MembersAre
<1>9. NextMember \in Elems(Owners) \cup {"resident"} => "weights" \notin alive
  <2> SUFFICES ASSUME NextMember \in Elems(Owners) \cup {"resident"},
                      "weights" \in alive
               PROVE  FALSE
    OBVIOUS
  <2>1. n \in {12, 13, 14}
    BY <1>4, <1>5, MembersAre
  <2>2. NextMember \in {"weights", "request", "runner"}
    BY <1>4, <2>1, MembersAre
  <2> QED BY <1>7, <2>2
<1>10. NextMember = "resident" => alive = {"resident"}
  <2> SUFFICES ASSUME NextMember = "resident", NEW m \in alive
               PROVE  m = "resident"
    BY <1>4
  <2>1. PICK i \in 1 .. 14 : m = Members[i]
    BY MembersAre DEF MemberSet, Elems
  <2>2. i =< n
    BY <1>5, <2>1
  <2>3. n = 1
    <3> SUFFICES ASSUME n # 1 PROVE FALSE
      OBVIOUS
    <3>1. CASE n \in {12, 13, 14}
      BY <1>4, <3>1, MembersAre
    <3>2. CASE n \notin {12, 13, 14}
      <4>1. n - 1 \in 1 .. 10 /\ (n - 1) + 1 = n
        BY <1>4, <3>2
      <4>2. Members[n] = Owners[n - 1]
        BY <4>1, MembersAre
      <4>3. Owners[n - 1] \in Elems(Owners)
        BY <4>1 DEF Owners, Elems
      <4> QED BY <1>4, <1>7, <4>2, <4>3
    <3> QED BY <3>1, <3>2
  <2>4. i = 1
    BY <2>2, <2>3
  <2> QED BY <2>1, <2>4, MembersAre
<1> QED BY <1>4, <1>8, <1>9, <1>10

-----------------------------------------------------------------------------
(* One preparation after the other.                                         *)

LEMMA OwnerNames ==
  \A k \in Layouts : /\ OwnerOf(k) \in Elems(Owners) /\ OwnerOf(k) \in MemberSet
                     /\ OwnerOf(k) \notin {"resident", "weights", "request", "runner"}
<1> TAKE k \in Layouts
<1>1. OwnerOf(k) \in Elems(Owners)
  BY LayoutNames DEF OwnerOf
<1>2. OwnerOf(k) \in MemberSet
  BY <1>1, MembersAre
<1>3. OwnerOf(k) \notin {"resident", "weights", "request", "runner"}
  BY <1>1, LayoutNames
<1> QED BY <1>1, <1>2, <1>3

LEMMA WantedFacts ==
  ASSUME AssetTypes, NEW k \in Layouts
  PROVE  /\ Wanted(k) \in SUBSET LayerIds
         /\ k \notin {"scale6", "consumer_order"} => Wanted(k) = LayerIds
         /\ k = "scale6" => Wanted(k) = eligible
         /\ k = "consumer_order" => Wanted(k) = attached["scale6"]
<1>1. attached["scale6"] \in SUBSET LayerIds /\ eligible \in SUBSET LayerIds
  BY LayoutNames DEF AssetTypes
<1> QED BY <1>1 DEF Wanted

\* What is left of a selection when its first layout is done.
LEMMA TailSelection ==
  ASSUME NEW s \in Seq(Layouts), s # <<>>, Arranged(s)
  PROVE  /\ Tail(s) \in Seq(Layouts) /\ Arranged(Tail(s))
         /\ Head(s) \in Elems(s) /\ Head(s) \in Layouts
         /\ Elems(Tail(s)) = Elems(s) \ {Head(s)}
         /\ Head(s) = "consumer_order" => "scale6" \notin Elems(s)
<1>1. /\ Tail(s) \in Seq(Layouts) /\ Head(s) = s[1] /\ Len(s) \in Nat \ {0}
      /\ DOMAIN s = 1 .. Len(s) /\ Head(s) \in Layouts
  OBVIOUS
<1>2. /\ \A i \in DOMAIN Tail(s) : i + 1 \in DOMAIN s /\ Tail(s)[i] = s[i + 1]
      /\ \A i \in DOMAIN s : i > 1 => i - 1 \in DOMAIN Tail(s)
      /\ DOMAIN Tail(s) = 1 .. Len(s) - 1
  BY IsSeqOf, TailFacts
<1>3. 1 \in DOMAIN s /\ \A i \in DOMAIN s : i \in Nat /\ i >= 1
  BY <1>1
<1>4. \A i \in DOMAIN Tail(s) : i \in Nat
  BY <1>1, <1>2
<1>5. Arranged(Tail(s))
  <2> SUFFICES ASSUME NEW i \in DOMAIN Tail(s), NEW j \in DOMAIN Tail(s), i < j
               PROVE  Fits(Tail(s)[i], Tail(s)[j])
    BY DEF Arranged
  <2>1. i + 1 < j + 1
    BY <1>4
  <2> QED BY <1>2, <2>1 DEF Arranged
<1>6. \A i \in DOMAIN s : i > 1 => Fits(s[1], s[i])
  BY <1>3 DEF Arranged
<1>7. \A i \in DOMAIN s : i > 1 => s[i] # s[1]
  BY <1>6 DEF Fits
<1>8. Elems(Tail(s)) \subseteq Elems(s) \ {Head(s)}
  <2> SUFFICES ASSUME NEW i \in DOMAIN Tail(s)
               PROVE  Tail(s)[i] \in Elems(s) \ {Head(s)}
    BY DEF Elems
  <2>1. i + 1 \in DOMAIN s /\ i + 1 > 1 /\ Tail(s)[i] = s[i + 1]
    BY <1>1, <1>2
  <2> QED BY <1>1, <1>7, <2>1 DEF Elems
<1>9. Elems(s) \ {Head(s)} \subseteq Elems(Tail(s))
  <2> SUFFICES ASSUME NEW i \in DOMAIN s, s[i] # Head(s)
               PROVE  s[i] \in Elems(Tail(s))
    BY DEF Elems
  <2>1. i > 1
    BY <1>1, <1>3
  <2>2. i - 1 \in DOMAIN Tail(s) /\ Tail(s)[i - 1] = s[i]
    <3>1. i - 1 \in DOMAIN Tail(s) /\ (i - 1) + 1 = i
      BY <1>2, <1>3, <2>1
    <3> QED BY <1>2, <3>1
  <2> QED BY <2>2 DEF Elems
<1>10. Head(s) = "consumer_order" => "scale6" \notin Elems(s)
  <2> SUFFICES ASSUME Head(s) = "consumer_order", NEW i \in DOMAIN s, s[i] = "scale6"
               PROVE  FALSE
    BY DEF Elems
  <2>1. i > 1
    BY <1>1, <1>3
  <2> QED BY <1>1, <1>6, <2>1 DEF Fits
<1>11. Head(s) \in Elems(s)
  BY <1>1, <1>3 DEF Elems
<1> QED BY <1>1, <1>5, <1>8, <1>9, <1>10, <1>11

\* The route of a build has the properties of an accepted one.
LEMMA ChosenFacts ==
  ASSUME AssetInv, life = "assets"
  PROVE  /\ Chosen \subseteq Layouts
         /\ \A k \in Chosen : Conflicts(k) \cap Chosen = {}
         /\ \A k, l \in Chosen : OwnerOf(k) = OwnerOf(l) => k = l
         /\ "consumer_order" \in Chosen => "scale6" \in Chosen
<1>1. route \in Route /\ ValidRoute(route)
  BY DEF AssetInv, AssetTypes, Stages
<1> QED BY <1>1, SelectionFacts DEF Chosen

\* The layout at the head of the list is free to be prepared: nothing that
\* excludes it, and nothing of its owner, is attached; and without a cause the
\* layers it is for exist.
LEMMA HeadIsFree ==
  ASSUME AssetInv, life = "assets", prep.pc \notin {"failed", "judge"}, todo # <<>>
  PROVE  LET k == Head(todo) IN
         /\ k \in Layouts /\ k \in Chosen /\ Left(k) /\ attached[k] = {}
         /\ Compatible(k)
         /\ \A x \in Layouts : OwnerOf(x) = OwnerOf(k) => attached[x] = {}
         /\ ~cause /\ k \notin Optional => Wanted(k) # {}
<1> DEFINE k == Head(todo)
<1>1. /\ AssetTypes /\ todo \in Seq(Layouts) /\ Arranged(todo)
      /\ Elems(todo) \subseteq Chosen
      /\ \A x \in Layouts : attached[x] # {} => x \in Chosen /\ ~Left(x)
      /\ "scale6" \in Chosen /\ ~Left("scale6") /\ ~cause =>
            attached["scale6"] = eligible
  BY DEF AssetInv, AssetTypes, Selected
<1>2. /\ k \in Elems(todo) /\ k \in Layouts
      /\ k = "consumer_order" => "scale6" \notin Elems(todo)
  BY <1>1, TailSelection
<1> HIDE DEF k
<1>3. Left(k) /\ k \in Chosen
  BY <1>1, <1>2 DEF Left
<1>4. attached[k] = {}
  BY <1>1, <1>2, <1>3
<1>5. \A x \in Layouts : OwnerOf(x) = OwnerOf(k) => attached[x] = {}
  <2> SUFFICES ASSUME NEW x \in Layouts, OwnerOf(x) = OwnerOf(k), attached[x] # {}
               PROVE  FALSE
    OBVIOUS
  <2>1. x \in Chosen
    BY <1>1
  <2>2. x = k
    BY <1>3, <2>1, ChosenFacts
  <2> QED BY <1>4, <2>2
<1>6. Compatible(k)
  <2> SUFFICES ASSUME NEW c \in Conflicts(k) \cup {k}, attached[c] # {}
               PROVE  FALSE
    BY DEF Compatible
  <2>1. c \in Conflicts(k)
    BY <1>4
  <2>2. c \in Layouts
    BY <2>1, LayoutNames DEF Conflicts
  <2>3. c \in Chosen
    BY <1>1, <2>2
  <2> QED BY <1>3, <2>1, <2>3, ChosenFacts
<1>7. ~cause /\ k \notin Optional => Wanted(k) # {}
  <2> SUFFICES ASSUME ~cause, k \notin Optional PROVE Wanted(k) # {}
    OBVIOUS
  <2>1. LayerIds # {}
    BY AssetAssumption
  <2>2. k # "scale6"
    BY DEF Optional
  <2>3. CASE k # "consumer_order"
    BY <1>1, <1>2, <2>1, <2>2, <2>3, WantedFacts
  <2>4. CASE k = "consumer_order"
    <3>1. Wanted(k) = attached["scale6"]
      BY <1>1, <1>2, <2>4, WantedFacts
    <3>2. ~Left("scale6") /\ "scale6" \in Chosen
      BY <1>2, <1>3, <2>4, ChosenFacts DEF Left
    <3>3. attached["scale6"] = eligible
      BY <1>1, <3>2
    <3>4. Cardinality(eligible) = PinnedLayers
      BY DEF AssetInv, Stages
    <3>5. PinnedLayers # 0 /\ Cardinality({}) = 0
      BY AssetAssumption, FS_EmptySet
    <3> QED BY <3>1, <3>3, <3>4, <3>5
  <2> QED BY <2>3, <2>4
<1> QED BY <1>2, <1>3, <1>4, <1>5, <1>6, <1>7 DEF k

\* What every step of a preparation has in common.
LEMMA AssetFrame ==
  ASSUME AssetInv, life = "assets", life' = life, UNCHANGED loadVars,
         UNCHANGED <<route, eligible>>, cause => cause',
         {"resident", "weights", "request"} \subseteq alive', "runner" \notin alive',
         AssetTypes', Preparing', Selected', PointersAreSound'
  PROVE  AssetInv'
<1>1. UNCHANGED <<main, result, arena>>
  BY DEF loadVars
<1>2. arena.live
  BY DEF AssetInv, ArenaHeld, Stages
<1>3. main = main' /\ ArenaHeld'
  BY <1>1, <1>2 DEF AssetInv, ArenaHeld
<1>4. Stages'
  BY DEF AssetInv, Stages
<1>5. LifetimesNest'
  BY <1>1, <1>2 DEF LifetimesNest
<1> QED BY <1>3, <1>4, <1>5 DEF AssetInv

\* What is known of the build when a preparation takes a step.
LEMMA AssetKnown ==
  ASSUME AssetInv, life = "assets"
  PROVE  /\ AssetTypes /\ Preparing /\ PointersAreSound
         /\ {"resident", "weights", "request"} \subseteq alive /\ "runner" \notin alive
         /\ prep.pc # "idle" => Kind \in Layouts
<1>1. /\ AssetTypes /\ Preparing /\ PointersAreSound
      /\ {"resident", "weights", "request"} \subseteq alive /\ "runner" \notin alive
  BY DEF AssetInv, Stages, LifetimesNest
<1>2. prep.pc # "idle" => Kind \in Layouts
  <2> SUFFICES ASSUME prep.pc # "idle" PROVE Kind \in Layouts
    OBVIOUS
  <2>1. Kind = Head(todo) /\ todo # <<>> /\ todo \in Seq(Layouts)
    BY <1>1 DEF Preparing, AssetTypes
  <2> QED BY <2>1
<1> QED BY <1>1, <1>2

\* The list moves on past its first layout, which is attached or optional.
LEMMA SkipKeeps ==
  ASSUME AssetInv, life = "assets", life' = life, prep.pc # "failed", todo # <<>>,
         todo' = Tail(todo), prep' = NoPrep, packs = <<>>,
         UNCHANGED <<route, eligible, packs, alive, packed, attached>>,
         UNCHANGED loadVars, cause => cause', cause' \in BOOLEAN,
         prep.pc \notin {"pack", "release"},
         prep.pc = "judge" \/ Head(todo) \in Optional,
         prep.pc = "judge" \/ cause' \/ Head(todo) # "scale6" \/ eligible = {}
  PROVE  AssetInv'
<1> DEFINE k == Head(todo)
<1>1. /\ AssetTypes /\ Preparing /\ PointersAreSound
      /\ {"resident", "weights", "request"} \subseteq alive /\ "runner" \notin alive
  BY AssetKnown
<1>2. todo \in Seq(Layouts) /\ Arranged(todo) /\ Elems(todo) \subseteq Chosen
  BY DEF AssetInv, AssetTypes, Selected
<1>3. /\ Tail(todo) \in Seq(Layouts) /\ Arranged(Tail(todo))
      /\ k \in Elems(todo) /\ k \in Layouts /\ Elems(Tail(todo)) = Elems(todo) \ {k}
  BY <1>2, TailSelection
<1> HIDE DEF k
<1>4. prep'.pc = "idle" /\ prep'.layers = {} /\ prep'.kind = "none"
      /\ prep' \in [pc : PrepPlaces, kind : Layouts \cup {"none"},
                    layers : SUBSET LayerIds]
  BY DEF NoPrep, PrepPlaces
<1>5. AssetTypes'
  BY <1>1, <1>3, <1>4 DEF AssetTypes
<1>6. Preparing'
  BY <1>4, NothingQueued DEF Preparing
<1>7. prep.pc = "judge" => Kind = k
  BY <1>1 DEF Preparing, k
<1>8. \A x : Left(x)' => Left(x)
  BY <1>3, <1>7 DEF Left
<1>9. \A x : Left(x) /\ x # k => Left(x)'
  BY <1>3, <1>4 DEF Left
<1>10. Chosen' = Chosen
  BY DEF Chosen
<1>11. Selected'
  <2>1. \A x \in Layouts : attached[x] # {} => x \in Chosen /\ ~Left(x)'
    BY <1>8 DEF AssetInv, Selected
  <2>2. \A x \in Chosen \ Optional : Left(x)' \/ attached[x] # {}
    <3> SUFFICES ASSUME NEW x \in Chosen \ Optional, attached[x] = {}
                 PROVE  Left(x)'
      OBVIOUS
    <3>1. Left(x)
      BY DEF AssetInv, Selected
    <3>2. x # k
      BY <1>7, <3>1 DEF Left, k
    <3> QED BY <1>9, <3>1, <3>2
  <2>3. "scale6" \in Chosen /\ ~Left("scale6")' /\ ~cause' =>
          attached["scale6"] = eligible
    <3> SUFFICES ASSUME "scale6" \in Chosen, ~Left("scale6")', ~cause'
                 PROVE  attached["scale6"] = eligible
      OBVIOUS
    <3>1. CASE ~Left("scale6")
      BY <3>1 DEF AssetInv, Selected
    <3>2. CASE Left("scale6")
      <4>1. k = "scale6" /\ prep.pc # "judge"
        BY <1>7, <1>9, <3>2 DEF Left
      <4>2. eligible = {}
        BY <4>1 DEF k
      <4>3. attached["scale6"] = {}
        BY <1>3, <3>2, <4>1 DEF AssetInv, Selected
      <4> QED BY <4>2, <4>3
    <3> QED BY <3>1, <3>2
  <2>4. \A o \in alive \ {"resident", "weights", "request"} :
          \E x \in Chosen : OwnerOf(x) = o /\ Held(x)'
    BY DEF AssetInv, Selected, Held
  <2>5. Elems(todo') \subseteq Chosen
    BY <1>2, <1>3
  <2> QED BY <1>3, <1>10, <2>1, <2>2, <2>3, <2>4, <2>5 DEF Selected
<1>12. PointersAreSound'
  BY <1>1 DEF PointersAreSound
<1> QED BY <1>1, <1>5, <1>6, <1>11, <1>12, AssetFrame

LEMMA InventoryKeeps ==
  ASSUME AssetInv, life = "assets", life' = life, Inventory, UNCHANGED loadVars
  PROVE  AssetInv'
<1> DEFINE k == Head(todo)
<1>1. /\ AssetTypes /\ Preparing /\ PointersAreSound
      /\ {"resident", "weights", "request"} \subseteq alive /\ "runner" \notin alive
  BY AssetKnown
<1>2. /\ prep.pc = "idle" /\ todo # <<>> /\ packs = <<>>
      /\ UNCHANGED <<route, eligible, packs, alive, packed, attached, cause>>
  BY <1>1 DEF Inventory, Preparing
<1>3. /\ k \in Layouts /\ k \in Chosen /\ Left(k) /\ attached[k] = {}
      /\ Compatible(k)
      /\ \A x \in Layouts : OwnerOf(x) = OwnerOf(k) => attached[x] = {}
      /\ ~cause /\ k \notin Optional => Wanted(k) # {}
  BY <1>2, HeadIsFree
<1>4. cause \in BOOLEAN /\ LayerIds # {}
  BY <1>1, AssetAssumption DEF AssetTypes
<1>5. CASE ~Ready(k) /\ Wanted(k) = {} /\ k \in Optional /\ Skip
  <2>1. k # "scale6" \/ eligible = {}
    BY <1>1, <1>3, <1>5, WantedFacts
  <2> QED BY <1>2, <1>4, <1>5, <2>1, SkipKeeps DEF Skip
<1>6. CASE UNCHANGED todo /\ prep' = [pc |-> "allocate", kind |-> k, layers |-> Wanted(k)]
           /\ Ready(k)
  <2>1. /\ prep'.pc = "allocate" /\ prep'.kind = k /\ prep'.layers = Wanted(k)
        /\ prep' \in [pc : PrepPlaces, kind : Layouts \cup {"none"},
                      layers : SUBSET LayerIds]
    BY <1>1, <1>3, <1>6, WantedFacts DEF PrepPlaces
  <2>2. Kind' = k
    BY <2>1 DEF Kind
  <2>3. AssetTypes'
    BY <1>1, <1>2, <1>6, <2>1 DEF AssetTypes
  <2>4. Wanted(Kind)' = Wanted(k)
    <3> HIDE DEF k
    <3> QED BY <1>2, <2>2 DEF Wanted
  <2>5. Preparing'
    <3>1. OwnerOf(k) \notin alive /\ Wanted(k) # {}
      BY <1>6 DEF Ready
    <3>2. todo' # <<>> /\ k = Head(todo')
      BY <1>2, <1>6
    <3> HIDE DEF k
    <3> QED BY <1>2, <2>1, <2>2, <2>4, <3>1, <3>2, NothingQueued DEF Preparing
  <2>6. Selected'
    <3>1. Chosen' = Chosen /\ \A x : (Left(x)' <=> Left(x)) /\ (Held(x)' <=> Held(x))
      BY <1>2, <1>6, <2>1 DEF Chosen, Left, Held
    <3> QED BY <1>2, <1>6, <2>1, <3>1 DEF AssetInv, Selected
  <2>7. PointersAreSound'
    BY <1>1, <1>2 DEF PointersAreSound
  <2> QED BY <1>1, <1>2, <2>3, <2>5, <2>6, <2>7, AssetFrame
<1>7. CASE /\ ~Ready(k) /\ ~(Wanted(k) = {} /\ k \in Optional)
           /\ prep' = [pc |-> "failed", kind |-> k, layers |-> {}] /\ UNCHANGED todo
  <2>1. OwnerOf(k) \notin alive
    <3> SUFFICES ASSUME OwnerOf(k) \in alive PROVE FALSE
      OBVIOUS
    <3>1. OwnerOf(k) \in alive \ {"resident", "weights", "request"}
      BY <1>3, OwnerNames
    <3>2. PICK x \in Chosen : OwnerOf(x) = OwnerOf(k) /\ Held(x)
      BY <1>2, <3>1 DEF AssetInv, Selected
    <3>3. x \in Layouts
      BY <3>2, ChosenFacts
    <3> QED BY <1>2, <1>3, <3>2, <3>3 DEF Held
  <2>2. Wanted(k) = {} /\ k \notin Optional
    BY <1>3, <1>7, <2>1 DEF Ready
  <2>3. cause
    BY <1>3, <2>2
  <2>4. /\ prep'.pc = "failed" /\ prep'.kind = k /\ prep'.layers = {}
        /\ prep' \in [pc : PrepPlaces, kind : Layouts \cup {"none"},
                      layers : SUBSET LayerIds]
    BY <1>3, <1>7 DEF PrepPlaces
  <2>5. AssetTypes'
    BY <1>1, <1>2, <1>7, <2>4 DEF AssetTypes
  <2>6. Preparing'
    <3>1. Kind' = k /\ todo' # <<>> /\ k = Head(todo')
      BY <1>2, <1>7, <2>4 DEF Kind
    <3> HIDE DEF k
    <3> QED BY <1>2, <2>3, <2>4, <3>1, NothingQueued DEF Preparing
  <2>7. Selected'
    BY <2>4 DEF Selected
  <2>8. PointersAreSound'
    BY <1>1, <1>2 DEF PointersAreSound
  <2> QED BY <1>1, <1>2, <2>5, <2>6, <2>7, <2>8, AssetFrame
<1> QED BY <1>5, <1>6, <1>7 DEF Inventory

LEMMA AllocateKeeps ==
  ASSUME AssetInv, life = "assets", life' = life, Allocate, UNCHANGED loadVars
  PROVE  AssetInv'
<1>1. /\ AssetTypes /\ Preparing /\ PointersAreSound /\ Kind \in Layouts
      /\ {"resident", "weights", "request"} \subseteq alive /\ "runner" \notin alive
  BY AssetKnown DEF Allocate
<1>2. /\ prep.pc = "allocate" /\ packs = <<>> /\ todo # <<>> /\ Kind = Head(todo)
      /\ alive' = alive \cup {OwnerOf(Kind)}
      /\ UNCHANGED <<route, eligible, todo, packs, packed, attached, cause>>
      /\ prep.layers = Wanted(Kind) /\ Wanted(Kind) # {}
  BY <1>1 DEF Allocate, Preparing
<1>3. /\ prep'.pc = "pack" /\ prep'.layers = prep.layers /\ Kind' = Kind
      /\ prep' \in [pc : PrepPlaces, kind : Layouts \cup {"none"},
                    layers : SUBSET LayerIds]
  BY <1>1 DEF Allocate, AssetTypes, PrepPlaces, Kind
<1>4. /\ OwnerOf(Kind) \in MemberSet
      /\ OwnerOf(Kind) \notin {"resident", "weights", "request", "runner"}
  BY <1>1, OwnerNames
<1>5. AssetTypes'
  BY <1>1, <1>2, <1>3, <1>4 DEF AssetTypes
<1>6. Wanted(Kind)' = Wanted(Kind)
  BY <1>2, <1>3 DEF Wanted
<1>7. Preparing'
  BY <1>1, <1>2, <1>3, <1>6 DEF Preparing
<1>8. Chosen' = Chosen /\ \A x : (Left(x)' <=> Left(x)) /\ (Held(x) => Held(x)')
  BY <1>2, <1>3 DEF Chosen, Left, Held
<1>9. Kind \in Chosen /\ \A x : x = Kind => Held(x)'
  <2>1. Kind \in Chosen
    BY <1>2, HeadIsFree
  <2> QED BY <1>3, <2>1 DEF Held
<1>10. Selected'
  <2>1. \A o \in alive' \ {"resident", "weights", "request"} :
          \E x \in Chosen : OwnerOf(x) = o /\ Held(x)'
    <3> SUFFICES ASSUME NEW o \in alive', o \notin {"resident", "weights", "request"}
                 PROVE  \E x \in Chosen : OwnerOf(x) = o /\ Held(x)'
      OBVIOUS
    <3>1. CASE o = OwnerOf(Kind)
      BY <1>9, <3>1
    <3>2. CASE o \in alive
      <4>1. \E x \in Chosen : OwnerOf(x) = o /\ Held(x)
        BY <1>2, <3>2 DEF AssetInv, Selected
      <4> QED BY <1>8, <4>1
    <3> QED BY <1>2, <3>1, <3>2
  <2> QED BY <1>2, <1>8, <2>1 DEF AssetInv, Selected
<1>11. PointersAreSound'
  BY <1>1, <1>2, NothingQueued DEF PointersAreSound
<1>12. {"resident", "weights", "request"} \subseteq alive' /\ "runner" \notin alive'
  BY <1>1, <1>2, <1>4
<1> QED BY <1>2, <1>5, <1>7, <1>10, <1>11, <1>12, AssetFrame

\* A preparation that ends the build, after a cause for it.
LEMMA FailKeeps ==
  ASSUME AssetInv, life = "assets", life' = life, Fail, packs = <<>>, cause',
         cause' \in BOOLEAN, prep.pc \notin {"idle", "failed"},
         UNCHANGED <<route, eligible, packs, alive, packed, attached>>,
         UNCHANGED loadVars
  PROVE  AssetInv'
<1>1. /\ AssetTypes /\ Preparing /\ PointersAreSound /\ Kind \in Layouts
      /\ {"resident", "weights", "request"} \subseteq alive /\ "runner" \notin alive
  BY AssetKnown
<1>2. /\ prep'.pc = "failed" /\ Kind' = Kind /\ UNCHANGED todo
      /\ prep' \in [pc : PrepPlaces, kind : Layouts \cup {"none"},
                    layers : SUBSET LayerIds]
  BY <1>1 DEF Fail, AssetTypes, PrepPlaces, Kind
<1>3. AssetTypes'
  BY <1>1, <1>2 DEF AssetTypes
<1>4. Preparing'
  BY <1>1, <1>2, NothingQueued DEF Preparing
<1>5. Selected'
  BY <1>2 DEF Selected
<1>6. PointersAreSound'
  BY <1>1 DEF PointersAreSound
<1> QED BY <1>1, <1>3, <1>4, <1>5, <1>6, AssetFrame

LEMMA MemoryTightKeeps ==
  ASSUME AssetInv, life = "assets", life' = life, MemoryTight, UNCHANGED loadVars
  PROVE  AssetInv'
<1>1. /\ prep.pc = "allocate" /\ cause' = TRUE
      /\ UNCHANGED <<route, eligible, packs, alive, packed, attached>>
  BY DEF MemoryTight
<1>2. packs = <<>> /\ todo # <<>> /\ Kind = Head(todo)
  BY <1>1, AssetKnown DEF Preparing
<1>3. CASE Kind \in Optional
  BY <1>1, <1>2, <1>3, SkipKeeps DEF MemoryTight, Skip
<1>4. CASE Kind \notin Optional
  BY <1>1, <1>2, <1>4, FailKeeps DEF MemoryTight
<1> QED BY <1>3, <1>4

LEMMA PackKeeps ==
  ASSUME AssetInv, life = "assets", life' = life, Pack, UNCHANGED loadVars
  PROVE  AssetInv'
<1> DEFINE l == CHOOSE l \in prep.layers : TRUE
<1>1. /\ AssetTypes /\ Preparing /\ PointersAreSound /\ Kind \in Layouts
      /\ {"resident", "weights", "request"} \subseteq alive /\ "runner" \notin alive
  BY AssetKnown DEF Pack
<1>2. /\ prep.pc = "pack" /\ prep.layers # {}
      /\ UNCHANGED <<route, eligible, todo, alive, attached, cause>>
  BY DEF Pack
<1>3. l \in prep.layers /\ l \in LayerIds
  <2>1. l \in prep.layers
    BY <1>2
  <2>2. prep.layers \in SUBSET LayerIds
    BY <1>1 DEF AssetTypes
  <2> QED BY <2>1, <2>2
<1>4. /\ prep' = [prep EXCEPT !.layers = @ \ {l}]
      /\ \/ packed' = [packed EXCEPT ![Kind] = @ \cup {l}] /\ UNCHANGED packs
         \/ packs' = Append(packs, [kind |-> Kind, layer |-> l]) /\ UNCHANGED packed
  BY DEF Pack
<1> HIDE DEF l
<1>5. /\ prep'.pc = "pack" /\ prep'.layers = prep.layers \ {l} /\ Kind' = Kind
      /\ prep' \in [pc : PrepPlaces, kind : Layouts \cup {"none"},
                    layers : SUBSET LayerIds]
  BY <1>1, <1>2, <1>4 DEF AssetTypes, Kind
<1>6. Wanted(Kind)' = Wanted(Kind)
  BY <1>2, <1>5 DEF Wanted
<1>7. /\ OwnerOf(Kind) \in alive /\ todo # <<>> /\ Kind = Head(todo)
      /\ Wanted(Kind) # {}
      /\ \A m \in Wanted(Kind) : \/ m \in packed[Kind] \/ m \in prep.layers
                                 \/ \E i \in DOMAIN packs : packs[i].layer = m
      /\ \A i \in DOMAIN packs : packs[i].kind = Kind
  BY <1>1, <1>2 DEF Preparing
<1>8. Selected'
  <2>1. Chosen' = Chosen /\ \A x : (Left(x)' <=> Left(x)) /\ (Held(x)' <=> Held(x))
    BY <1>2, <1>5 DEF Chosen, Left, Held
  <2> QED BY <1>2, <1>5, <2>1 DEF AssetInv, Selected
<1>9. /\ packs \in Seq([kind : Layouts, layer : LayerIds])
      /\ packed \in [Layouts -> SUBSET LayerIds]
  BY <1>1 DEF AssetTypes
<1>10. CASE packed' = [packed EXCEPT ![Kind] = @ \cup {l}] /\ UNCHANGED packs
  <2>1. /\ packed' \in [Layouts -> SUBSET LayerIds]
        /\ packed'[Kind] = packed[Kind] \cup {l}
        /\ \A x \in Layouts : packed[x] \subseteq packed'[x]
    BY <1>1, <1>3, <1>9, <1>10
  <2>2. AssetTypes'
    BY <1>1, <1>2, <1>5, <1>10, <2>1 DEF AssetTypes
  <2>3. \A m \in Wanted(Kind) : \/ m \in packed'[Kind] \/ m \in prep'.layers
                                \/ \E i \in DOMAIN packs : packs[i].layer = m
    BY <1>5, <1>7, <2>1
  <2>4. Preparing'
    BY <1>1, <1>2, <1>5, <1>6, <1>7, <1>10, <2>3 DEF Preparing
  <2>5. PointersAreSound'
    BY <1>1, <1>2, <1>10, <2>1 DEF PointersAreSound
  <2> QED BY <1>1, <1>2, <1>8, <2>2, <2>4, <2>5, AssetFrame
<1>11. CASE packs' = Append(packs, [kind |-> Kind, layer |-> l]) /\ UNCHANGED packed
  <2> DEFINE p == [kind |-> Kind, layer |-> l]
  <2>1. p \in [kind : Layouts, layer : LayerIds] /\ p.kind = Kind /\ p.layer = l
    BY <1>1, <1>3
  <2> HIDE DEF p
  <2>2. packs' = Append(packs, p)
    BY <1>11 DEF p
  <2>3. /\ packs' \in Seq([kind : Layouts, layer : LayerIds])
        /\ Len(packs) \in Nat /\ DOMAIN packs = 1 .. Len(packs)
        /\ DOMAIN packs' = 1 .. Len(packs) + 1
        /\ \A i \in DOMAIN packs : packs'[i] = packs[i]
        /\ packs'[Len(packs) + 1] = p
    BY <1>9, <2>1, <2>2
  <2>4. \A i \in DOMAIN packs' : i \in DOMAIN packs \/ i = Len(packs) + 1
    BY <2>3
  <2>5. \A i \in DOMAIN packs' : packs'[i].kind = Kind
    BY <1>7, <2>1, <2>3, <2>4
  <2>6. AssetTypes'
    BY <1>1, <1>2, <1>5, <1>11, <2>3 DEF AssetTypes
  <2>7. \A m \in Wanted(Kind) : \/ m \in packed[Kind] \/ m \in prep'.layers
                                \/ \E i \in DOMAIN packs' : packs'[i].layer = m
    <3>1. Len(packs) + 1 \in DOMAIN packs' /\ \A i \in DOMAIN packs : i \in DOMAIN packs'
      BY <2>3
    <3> SUFFICES ASSUME NEW m \in Wanted(Kind), m \notin packed[Kind],
                        m \notin prep'.layers
                 PROVE  \E i \in DOMAIN packs' : packs'[i].layer = m
      OBVIOUS
    <3>2. CASE m = l
      BY <2>1, <2>3, <3>1, <3>2
    <3>3. CASE m # l
      <4>1. PICK i \in DOMAIN packs : packs[i].layer = m
        BY <1>5, <1>7, <3>3
      <4> QED BY <2>3, <3>1, <4>1
    <3> QED BY <3>2, <3>3
  <2>8. Preparing'
    BY <1>1, <1>2, <1>5, <1>6, <1>7, <1>11, <2>5, <2>7 DEF Preparing
  <2>9. PointersAreSound'
    BY <1>1, <1>2, <1>7, <1>11, <2>5 DEF PointersAreSound
  <2> QED BY <1>1, <1>2, <1>8, <2>6, <2>8, <2>9, AssetFrame
<1> QED BY <1>4, <1>10, <1>11

LEMMA RunPackKeeps ==
  ASSUME AssetInv, life = "assets", life' = life, RunPack, UNCHANGED loadVars
  PROVE  AssetInv'
<1> DEFINE p == Head(packs)
<1>1. /\ AssetTypes /\ Preparing /\ PointersAreSound
      /\ {"resident", "weights", "request"} \subseteq alive /\ "runner" \notin alive
  BY AssetKnown
<1>2. /\ packs # <<>> /\ packs' = Tail(packs)
      /\ packed' = [packed EXCEPT ![p.kind] = @ \cup {p.layer}]
      /\ UNCHANGED <<route, eligible, todo, prep, alive, attached, cause>>
  BY DEF RunPack
<1>3. /\ packs \in Seq([kind : Layouts, layer : LayerIds])
      /\ packed \in [Layouts -> SUBSET LayerIds]
  BY <1>1 DEF AssetTypes
<1>4. /\ p \in [kind : Layouts, layer : LayerIds] /\ p = packs[1]
      /\ Tail(packs) \in Seq([kind : Layouts, layer : LayerIds])
      /\ 1 \in DOMAIN packs /\ DOMAIN packs = 1 .. Len(packs) /\ Len(packs) \in Nat
  <2> DEFINE S == [kind : Layouts, layer : LayerIds]
  <2>1. packs \in Seq(S) /\ packs # <<>>
    BY <1>2, <1>3
  <2> HIDE DEF S
  <2>2. Len(packs) \in Nat \ {0} /\ DOMAIN packs = 1 .. Len(packs)
    BY <2>1
  <2>3. p \in S /\ p = packs[1] /\ Tail(packs) \in Seq(S)
    BY <2>1
  <2> QED BY <2>2, <2>3 DEF S
<1>5. /\ \A i \in DOMAIN Tail(packs) : i + 1 \in DOMAIN packs
                                       /\ Tail(packs)[i] = packs[i + 1]
      /\ \A i \in DOMAIN packs : i > 1 => i - 1 \in DOMAIN Tail(packs)
  BY <1>2, <1>3, IsSeqOf, TailFacts
<1> HIDE DEF p
<1>6. /\ prep.pc \in {"pack", "release"} /\ p.kind = Kind
      /\ \A i \in DOMAIN packs : packs[i].kind = Kind
  BY <1>1, <1>2, <1>4 DEF Preparing
<1>7. p.kind \in Layouts /\ p.layer \in LayerIds
  BY <1>4
<1>8. /\ packed' \in [Layouts -> SUBSET LayerIds]
      /\ packed'[Kind] = packed[Kind] \cup {p.layer}
      /\ \A x \in Layouts : packed[x] \subseteq packed'[x]
  BY <1>2, <1>3, <1>6, <1>7
<1>9. AssetTypes'
  BY <1>1, <1>2, <1>4, <1>8 DEF AssetTypes
<1>10. Kind' = Kind /\ Wanted(Kind)' = Wanted(Kind)
  BY <1>2 DEF Kind, Wanted
<1>11. \A i \in DOMAIN packs' : packs'[i].kind = Kind
  BY <1>2, <1>5, <1>6
<1>12. prep.pc = "pack" =>
         \A m \in Wanted(Kind) : \/ m \in packed'[Kind] \/ m \in prep.layers
                                 \/ \E i \in DOMAIN packs' : packs'[i].layer = m
  <2> SUFFICES ASSUME prep.pc = "pack", NEW m \in Wanted(Kind),
                      m \notin packed'[Kind], m \notin prep.layers
               PROVE  \E i \in DOMAIN packs' : packs'[i].layer = m
    OBVIOUS
  <2>1. PICK i \in DOMAIN packs : packs[i].layer = m
    BY <1>1, <1>8 DEF Preparing
  <2>2. i # 1
    BY <1>4, <1>8, <2>1
  <2>3. i > 1 /\ (i - 1) + 1 = i
    BY <1>4, <2>2
  <2>4. i - 1 \in DOMAIN packs' /\ packs'[i - 1] = packs[i]
    <3>1. i - 1 \in DOMAIN Tail(packs)
      BY <1>5, <2>3
    <3> QED BY <1>2, <1>5, <2>3, <3>1
  <2> QED BY <2>1, <2>4
<1>13. Preparing'
  BY <1>1, <1>2, <1>6, <1>10, <1>11, <1>12 DEF Preparing
<1>14. Selected'
  <2>1. Chosen' = Chosen /\ \A x : (Left(x)' <=> Left(x)) /\ (Held(x)' <=> Held(x))
    BY <1>2, <1>10 DEF Chosen, Left, Held
  <2> QED BY <1>2, <2>1 DEF AssetInv, Selected
<1>15. OwnerOf(Kind) \in alive
  BY <1>1, <1>6 DEF Preparing
<1>16. PointersAreSound'
  BY <1>1, <1>2, <1>8, <1>11, <1>15 DEF PointersAreSound
<1> QED BY <1>1, <1>2, <1>9, <1>13, <1>14, <1>16, AssetFrame

LEMMA PrepareFailsKeeps ==
  ASSUME AssetInv, life = "assets", life' = life, PrepareFails, UNCHANGED loadVars
  PROVE  AssetInv'
<1>1. /\ AssetTypes /\ Preparing /\ PointersAreSound /\ Kind \in Layouts
      /\ {"resident", "weights", "request"} \subseteq alive /\ "runner" \notin alive
  BY AssetKnown DEF PrepareFails
<1>2. /\ prep.pc \in {"allocate", "pack"} /\ cause' = TRUE
      /\ UNCHANGED <<route, eligible, todo, packs, alive, packed, attached>>
  BY DEF PrepareFails
<1>3. CASE prep.pc = "allocate"
  <2>1. packs = <<>>
    BY <1>1, <1>3 DEF Preparing
  <2>2. Fail
    BY <1>2, <1>3 DEF PrepareFails, Fail
  <2> QED BY <1>2, <1>3, <2>1, <2>2, FailKeeps
<1>4. CASE prep.pc = "pack"
  <2>1. /\ prep'.pc = "release" /\ Kind' = Kind
        /\ prep' \in [pc : PrepPlaces, kind : Layouts \cup {"none"},
                      layers : SUBSET LayerIds]
    BY <1>1, <1>4 DEF PrepareFails, AssetTypes, Kind, PrepPlaces
  <2>2. AssetTypes'
    BY <1>1, <1>2, <2>1 DEF AssetTypes
  <2>3. Preparing'
    BY <1>1, <1>2, <1>4, <2>1 DEF Preparing
  <2>4. Selected'
    <3>1. Chosen' = Chosen /\ \A x : (Left(x)' <=> Left(x)) /\ (Held(x)' <=> Held(x))
      BY <1>2, <1>4, <2>1 DEF Chosen, Left, Held
    <3> QED BY <1>2, <1>4, <2>1, <3>1 DEF AssetInv, Selected
  <2>5. PointersAreSound'
    BY <1>1, <1>2 DEF PointersAreSound
  <2> QED BY <1>1, <1>2, <2>2, <2>3, <2>4, <2>5, AssetFrame
<1> QED BY <1>2, <1>3, <1>4

LEMMA ReleaseOwnerKeeps ==
  ASSUME AssetInv, life = "assets", life' = life, ReleaseOwner, UNCHANGED loadVars
  PROVE  AssetInv'
<1>1. /\ AssetTypes /\ Preparing /\ PointersAreSound /\ Kind \in Layouts
      /\ {"resident", "weights", "request"} \subseteq alive /\ "runner" \notin alive
  BY AssetKnown DEF ReleaseOwner
<1>2. /\ prep.pc = "release" /\ packs = <<>> /\ alive' = alive \ {OwnerOf(Kind)}
      /\ packed' = [packed EXCEPT ![Kind] = {}] /\ Fail
      /\ UNCHANGED <<route, eligible, packs, attached, cause>>
  BY DEF ReleaseOwner
<1>3. /\ prep'.pc = "failed" /\ Kind' = Kind /\ UNCHANGED todo
      /\ prep' \in [pc : PrepPlaces, kind : Layouts \cup {"none"},
                    layers : SUBSET LayerIds]
  BY <1>1, <1>2 DEF Fail, AssetTypes, PrepPlaces, Kind
<1>4. todo # <<>> /\ Kind = Head(todo) /\ cause
  BY <1>1, <1>2 DEF Preparing
<1>5. \A x \in Layouts : OwnerOf(x) = OwnerOf(Kind) => attached[x] = {}
  BY <1>2, <1>4, HeadIsFree
<1>6. packed \in [Layouts -> SUBSET LayerIds]
  BY <1>1 DEF AssetTypes
<1>7. AssetTypes'
  BY <1>1, <1>2, <1>3, <1>6 DEF AssetTypes
<1>8. Preparing'
  BY <1>2, <1>3, <1>4, NothingQueued DEF Preparing
<1>9. Selected'
  BY <1>3 DEF Selected
<1>10. ASSUME NEW x \in Layouts
       PROVE  attached[x] \subseteq packed'[x] /\ (attached[x] # {} => OwnerOf(x) \in alive')
  <2>1. attached[x] \subseteq packed[x] /\ (attached[x] # {} => OwnerOf(x) \in alive)
    BY <1>1 DEF PointersAreSound
  <2>2. CASE OwnerOf(x) = OwnerOf(Kind)
    BY <1>5, <2>2
  <2>3. CASE OwnerOf(x) # OwnerOf(Kind)
    <3>1. packed'[x] = packed[x]
      BY <1>2, <1>6, <2>3
    <3> QED BY <1>2, <2>1, <2>3, <3>1
  <2> QED BY <2>2, <2>3
<1>11. PointersAreSound'
  BY <1>1, <1>2, <1>10, NothingQueued DEF PointersAreSound
<1>12. {"resident", "weights", "request"} \subseteq alive' /\ "runner" \notin alive'
  BY <1>1, <1>2, OwnerNames
<1> QED BY <1>2, <1>7, <1>8, <1>9, <1>11, <1>12, AssetFrame

LEMMA AttachKeeps ==
  ASSUME AssetInv, life = "assets", life' = life, Attach, UNCHANGED loadVars
  PROVE  AssetInv'
<1>1. /\ AssetTypes /\ Preparing /\ PointersAreSound /\ Kind \in Layouts
      /\ {"resident", "weights", "request"} \subseteq alive /\ "runner" \notin alive
  BY AssetKnown DEF Attach
<1>2. /\ prep.pc = "pack" /\ prep.layers = {} /\ packs = <<>>
      /\ UNCHANGED <<route, eligible, todo, packs, alive, packed, cause>>
  BY DEF Attach, PacksDone
<1>3. todo # <<>> /\ Kind = Head(todo) /\ Wanted(Kind) # {} /\ OwnerOf(Kind) \in alive
  BY <1>1, <1>2 DEF Preparing
<1>4. Kind \in Chosen /\ Left(Kind) /\ attached[Kind] = {} /\ Compatible(Kind)
  BY <1>2, <1>3, HeadIsFree
<1>5. /\ prep'.pc = "judge" /\ Kind' = Kind
      /\ prep' \in [pc : PrepPlaces, kind : Layouts \cup {"none"},
                    layers : SUBSET LayerIds]
  BY <1>1, <1>4 DEF Attach, AssetTypes, Kind, PrepPlaces
<1>6. Wanted(Kind) \subseteq packed[Kind]
  BY <1>1, <1>2, NothingQueued DEF Preparing
<1>7. attached \in [Layouts -> SUBSET LayerIds] /\ Wanted(Kind) \in SUBSET LayerIds
  BY <1>1, WantedFacts DEF AssetTypes
<1>8. {"scale6", "consumer_order"} \subseteq Layouts
  BY LayoutNames
<1>9. Kind = "scale6" => attached["consumer_order"] = {}
  BY <1>1, <1>4 DEF PointersAreSound
<1>10. attached' = [attached EXCEPT ![Kind] = Wanted(Kind)]
  <2> DEFINE w == [attached EXCEPT ![Kind] = Wanted(Kind)]
  <2>1. attached' = IF Kind = "scale6" THEN [w EXCEPT !["consumer_order"] = {}] ELSE w
    BY <1>4 DEF Attach
  <2>2. CASE Kind = "scale6"
    <3>1. w["consumer_order"] = {} /\ w \in [Layouts -> SUBSET LayerIds]
      BY <1>1, <1>7, <1>8, <1>9, <2>2
    <3> HIDE DEF w
    <3>2. [w EXCEPT !["consumer_order"] = {}] = w
      BY <1>8, <3>1
    <3> QED BY <2>1, <2>2, <3>2 DEF w
  <2>3. CASE Kind # "scale6"
    BY <2>1, <2>3
  <2> QED BY <2>2, <2>3
<1>11. /\ attached' \in [Layouts -> SUBSET LayerIds] /\ attached'[Kind] = Wanted(Kind)
       /\ \A x \in Layouts : x # Kind => attached'[x] = attached[x]
  BY <1>1, <1>7, <1>10
<1>12. AssetTypes'
  BY <1>1, <1>2, <1>5, <1>11 DEF AssetTypes
<1>13. Wanted(Kind)' = Wanted(Kind)
  <2>1. CASE Kind = "consumer_order"
    BY <1>2, <1>5, <1>8, <1>11, <2>1 DEF Wanted
  <2>2. CASE Kind # "consumer_order"
    BY <1>2, <1>5, <2>2 DEF Wanted
  <2> QED BY <2>1, <2>2
<1>14. attached'[Kind'] = Wanted(Kind)
  BY <1>5, <1>11
<1>15. Preparing'
  BY <1>2, <1>3, <1>5, <1>13, <1>14, NothingQueued DEF Preparing
<1>16. Selected'
  <2>1. Chosen' = Chosen
    BY <1>2 DEF Chosen
  <2>2. \A x : Left(x)' <=> (Left(x) /\ x # Kind)
    BY <1>2, <1>5 DEF Left
  <2>3. \A x \in Layouts : attached'[x] # {} => x \in Chosen /\ ~Left(x)'
    BY <1>2, <1>4, <1>11, <2>2 DEF AssetInv, Selected
  <2>4. \A x \in Chosen \ Optional : Left(x)' \/ attached'[x] # {}
    <3> SUFFICES ASSUME NEW x \in Chosen \ Optional, x # Kind
                 PROVE  Left(x)' \/ attached'[x] # {}
      BY <1>3, <1>11
    <3>1. x \in Layouts
      BY ChosenFacts
    <3> QED BY <1>2, <1>11, <2>2, <3>1 DEF AssetInv, Selected
  <2>5. "scale6" \in Chosen /\ ~Left("scale6")' /\ ~cause =>
           attached'["scale6"] = eligible
    <3>1. CASE Kind = "scale6"
      BY <1>1, <1>11, <3>1, WantedFacts
    <3>2. CASE Kind # "scale6"
      BY <1>2, <1>8, <1>11, <2>2, <3>2 DEF AssetInv, Selected
    <3> QED BY <3>1, <3>2
  <2>6. \A x \in Chosen : Held(x) => Held(x)'
    <3> SUFFICES ASSUME NEW x \in Chosen, Held(x) PROVE attached'[x] # {}
      BY DEF Held
    <3>1. CASE x = Kind
      BY <1>3, <1>11, <3>1
    <3>2. CASE x # Kind
      <4>1. x \in Layouts
        BY ChosenFacts
      <4>2. attached[x] # {}
        BY <3>2 DEF Held
      <4> QED BY <1>11, <3>2, <4>1, <4>2
    <3> QED BY <3>1, <3>2
  <2>7. \A o \in alive \ {"resident", "weights", "request"} :
          \E x \in Chosen : OwnerOf(x) = o /\ Held(x)'
    <3> TAKE o \in alive \ {"resident", "weights", "request"}
    <3>1. \E x \in Chosen : OwnerOf(x) = o /\ Held(x)
      BY <1>2 DEF AssetInv, Selected
    <3> QED BY <2>6, <3>1
  <2>8. Arranged(todo) /\ Elems(todo) \subseteq Chosen
    BY <1>2 DEF AssetInv, Selected
  <2> QED BY <1>2, <2>1, <2>3, <2>4, <2>5, <2>7, <2>8 DEF Selected
<1>17. \A x \in Layouts : /\ attached'[x] \subseteq packed[x]
                          /\ attached'[x] # {} => OwnerOf(x) \in alive
  BY <1>1, <1>3, <1>6, <1>11 DEF PointersAreSound
<1>18. attached'["consumer_order"] \subseteq attached'["scale6"]
  <2>1. CASE Kind = "consumer_order"
    BY <1>1, <1>8, <1>11, <2>1, WantedFacts
  <2>2. CASE Kind = "scale6"
    BY <1>8, <1>9, <1>11, <2>2
  <2>3. CASE Kind \notin {"scale6", "consumer_order"}
    BY <1>1, <1>8, <1>11, <2>3 DEF PointersAreSound
  <2> QED BY <2>1, <2>2, <2>3
<1>19. PointersAreSound'
  BY <1>2, <1>17, <1>18, NothingQueued DEF PointersAreSound
<1> QED BY <1>1, <1>2, <1>12, <1>15, <1>16, <1>19, AssetFrame

LEMMA JudgeKeeps ==
  ASSUME AssetInv, life = "assets", life' = life, Judge, UNCHANGED loadVars
  PROVE  AssetInv'
<1>1. /\ AssetTypes /\ Preparing /\ Kind \in Layouts
  BY AssetKnown DEF Judge
<1>2. /\ prep.pc = "judge"
      /\ UNCHANGED <<route, eligible, packs, alive, packed, attached, cause>>
  BY DEF Judge
<1>3. /\ packs = <<>> /\ todo # <<>> /\ Kind = Head(todo)
      /\ attached[Kind] = Wanted(Kind)
  BY <1>1, <1>2 DEF Preparing
<1>4. cause \in BOOLEAN
  BY <1>1 DEF AssetTypes
<1>5. CASE Skip
  BY <1>2, <1>3, <1>4, <1>5, SkipKeeps DEF Skip
<1>6. CASE Kind = "consumer_order" /\ Cardinality(attached[Kind]) # PinnedLayers /\ Fail
  <2>1. cause
    <3> SUFFICES ASSUME ~cause PROVE FALSE
      OBVIOUS
    <3>1. todo \in Seq(Layouts) /\ Arranged(todo) /\ Elems(todo) \subseteq Chosen
      BY <1>1, <1>2 DEF AssetInv, AssetTypes, Selected
    <3>2. Kind \in Elems(todo) /\ "scale6" \notin Elems(todo)
      BY <1>3, <1>6, <3>1, TailSelection
    <3>3. "scale6" \in Chosen /\ ~Left("scale6")
      BY <1>6, <3>1, <3>2, ChosenFacts DEF Left
    <3>4. attached["scale6"] = eligible
      BY <1>2, <3>3 DEF AssetInv, Selected
    <3>5. attached[Kind] = eligible
      BY <1>1, <1>3, <1>6, <3>4, WantedFacts
    <3>6. Cardinality(eligible) = PinnedLayers
      BY DEF AssetInv, Stages
    <3> QED BY <1>6, <3>5, <3>6
  <2> QED BY <1>2, <1>3, <1>4, <1>6, <2>1, FailKeeps
<1> QED BY <1>5, <1>6 DEF Judge

LEMMA PrepareKeeps ==
  ASSUME AssetInv, life = "assets", life' = life, PrepareNext, UNCHANGED loadVars
  PROVE  AssetInv'
BY InventoryKeeps, AllocateKeeps, MemoryTightKeeps, PackKeeps, RunPackKeeps,
   PrepareFailsKeeps, ReleaseOwnerKeeps, AttachKeeps, JudgeKeeps DEF PrepareNext

-----------------------------------------------------------------------------
(* The rest of a build, and the destruction.                                *)

\* The calling thread of the loader: the arena exists from its allocation until
\* a failing call unwinds.
LEMMA LoaderHoldsArena ==
  ASSUME CopyInv, ArenaHeld, life = "load", life' = life, LoadNext
  PROVE  ArenaHeld'
<1>1. DOMAIN arena = {"live", "data"} /\ arena.live \in BOOLEAN
  BY DEF CopyInv, LoadTypes
<1>2. main \in {"spawn", "join"} => arena.live
  BY DEF CopyInv, Running
<1>3. main \in {"plan", "resources", "spawn", "join", "unwind", "returned"}
  BY DEF CopyInv, LoadTypes
<1>4. ASSUME UNCHANGED <<main, result>>, arena'.live = arena.live
      PROVE  ArenaHeld'
  BY <1>4 DEF ArenaHeld
<1>5. ASSUME NEW w \in Threads, Execute(w) \/ WorkerStep(w) \/ FreeWorker(w)
      PROVE  ArenaHeld'
  <2>1. UNCHANGED <<main, result>>
    BY <1>5 DEF Execute, WorkerStep, Start, Claim, Fill, Enqueue, Authenticate,
       Sync, FreeWorker
  <2>2. arena'.live = arena.live
    <3>1. CASE Execute(w)
      BY <1>1, <3>1 DEF Execute
    <3>2. CASE WorkerStep(w) \/ FreeWorker(w)
      BY <3>2 DEF WorkerStep, Start, Claim, Fill, Enqueue, Authenticate, Sync,
         FreeWorker, deviceVars
    <3> QED BY <1>5, <3>1, <3>2
  <2> QED BY <1>4, <2>1, <2>2
<1>6. CASE DeviceBreaks
  BY <1>4, <1>6 DEF DeviceBreaks
<1>7. CASE Plan
  BY <1>7 DEF Plan, ArenaHeld, deviceVars
<1>8. CASE AllocateWorker
  BY <1>8 DEF AllocateWorker, ArenaHeld, deviceVars
<1>9. CASE AllocateArena
  BY <1>9 DEF AllocateArena, ArenaHeld
<1>10. CASE Spawn
  BY <1>2, <1>10 DEF Spawn, ArenaHeld, deviceVars
<1>11. CASE Spawned
  BY <1>2, <1>11 DEF Spawned, ArenaHeld, deviceVars
<1>12. CASE Join
  BY <1>2, <1>12 DEF Join, ArenaHeld, deviceVars
<1>13. CASE Return
  BY <1>13 DEF Return, ArenaHeld, NoArena
<1> QED BY <1>5, <1>6, <1>7, <1>8, <1>9, <1>10, <1>11, <1>12, <1>13 DEF LoadNext

\* Nothing of a build changes.
LEMMA AssetsRest ==
  ASSUME AssetInv, UNCHANGED assetVars, life' = life
  PROVE  AssetTypes' /\ Stages' /\ Preparing' /\ Selected' /\ PointersAreSound'
<1>1. UNCHANGED <<route, eligible, todo, prep, packs, alive, packed, attached, cause>>
  BY DEF assetVars
<1>2. AssetTypes'
  BY <1>1 DEF AssetInv, AssetTypes
<1>3. Stages'
  BY <1>1 DEF AssetInv, Stages
<1>4. Preparing'
  BY <1>1 DEF AssetInv, Preparing, Kind, Wanted
<1>5. Selected'
  <2>1. Chosen' = Chosen /\ \A x : (Left(x)' <=> Left(x)) /\ (Held(x)' <=> Held(x))
    BY <1>1 DEF Chosen, Left, Held, Kind
  <2> QED BY <1>1, <2>1 DEF AssetInv, Selected
<1>6. PointersAreSound'
  BY <1>1 DEF AssetInv, LifetimesNest, PointersAreSound
<1> QED BY <1>2, <1>3, <1>4, <1>5, <1>6

\* While no preparation runs there is nothing to say about one.
LEMMA NoPreparation ==
  ASSUME todo = <<>>, prep = NoPrep, packs = <<>>, life # "assets"
  PROVE  Preparing /\ Selected
<1>1. prep.pc = "idle"
  BY DEF NoPrep
<1> QED BY <1>1, NothingQueued DEF Preparing, Selected

LEMMA AssetsStart == LifeInit => AssetInv
<1> SUFFICES ASSUME LifeInit PROVE AssetInv
  OBVIOUS
<1>1. /\ route = NoRoute /\ eligible = {} /\ todo = <<>> /\ prep = NoPrep
      /\ packs = <<>> /\ alive = {} /\ packed = Nothing /\ attached = Nothing
      /\ cause = FALSE /\ life = "load" /\ main = "plan" /\ result = "none"
      /\ arena = NoArena
  BY DEF LifeInit, LoadInit, AssetInit
<1>2. NoRoute \in Route
  BY DEF NoRoute, Route, Tactics, DecodeKinds
<1>3. NoPrep \in [pc : PrepPlaces, kind : Layouts \cup {"none"},
                  layers : SUBSET LayerIds]
  BY DEF NoPrep, PrepPlaces
<1>4. /\ Nothing \in [Layouts -> SUBSET LayerIds]
      /\ \A k \in Layouts : Nothing[k] = {}
  BY DEF Nothing
<1>5. AssetTypes
  <2>1. todo \in Seq(Layouts) /\ packs \in Seq([kind : Layouts, layer : LayerIds])
    BY <1>1
  <2> QED BY <1>1, <1>2, <1>3, <1>4, <2>1 DEF AssetTypes, Lives
<1>6. ArenaHeld
  BY <1>1 DEF ArenaHeld, NoArena
<1>7. Stages
  BY <1>1 DEF Stages
<1>8. Preparing /\ Selected
  BY <1>1, NoPreparation
<1>9. {"scale6", "consumer_order"} \subseteq Layouts
  BY LayoutNames
<1>10. PointersAreSound
  BY <1>1, <1>4, <1>9, NothingQueued DEF PointersAreSound
<1>11. LifetimesNest
  BY <1>1, <1>4, <1>10 DEF LifetimesNest
<1> QED BY <1>5, <1>6, <1>7, <1>8, <1>11 DEF AssetInv

LEMMA LoadStepKeeps ==
  ASSUME CopyInv, AssetInv, LoadStep
  PROVE  AssetInv'
<1>1. life = "load" /\ life' = life /\ LoadNext /\ UNCHANGED assetVars
  BY DEF LoadStep
<1>2. AssetTypes' /\ Stages' /\ Preparing' /\ Selected' /\ PointersAreSound'
  BY <1>1, AssetsRest
<1>3. ArenaHeld'
  BY <1>1, LoaderHoldsArena DEF AssetInv
<1>4. alive' = {} /\ attached' = Nothing /\ packs' = <<>>
  BY <1>1 DEF AssetInv, Stages, assetVars
<1>5. LifetimesNest'
  BY <1>2, <1>4 DEF LifetimesNest, Nothing
<1> QED BY <1>2, <1>3, <1>5 DEF AssetInv

LEMMA LoadReturnedKeeps ==
  ASSUME AssetInv, LoadReturned
  PROVE  AssetInv'
<1>1. /\ life = "load" /\ main = "returned" /\ main' = main /\ arena' = arena
      /\ UNCHANGED <<todo, prep, packs, packed, attached>>
  BY DEF LoadReturned
<1>2. /\ alive = {} /\ todo = <<>> /\ prep = NoPrep /\ packs = <<>>
      /\ attached = Nothing /\ (result = "ok" <=> arena.live)
      /\ AssetTypes /\ PointersAreSound
  BY <1>1 DEF AssetInv, Stages, ArenaHeld, LifetimesNest
<1>3. CASE result = "ok"
  <2>1. PICK r \in Routes, e \in SUBSET LayerIds :
          /\ ValidRoute(r) /\ route' = r /\ eligible' = e
          /\ cause' = (broken \/ Cardinality(e) # PinnedLayers)
    BY <1>3 DEF LoadReturned
  <2>2. alive' = {"resident"} /\ life' = "bind"
    BY <1>3 DEF LoadReturned
  <2>3. AssetTypes'
    <3>1. r \in Route
      BY AssetAssumption
    <3>2. "resident" \in MemberSet
      BY MembersAre
    <3>3. cause' \in BOOLEAN
      BY <2>1
    <3> QED BY <1>1, <1>2, <2>1, <2>2, <3>1, <3>2, <3>3 DEF AssetTypes, Lives
  <2>4. ArenaHeld'
    BY <1>1, <1>2, <1>3, <2>2 DEF ArenaHeld
  <2>5. Stages'
    BY <1>1, <1>2, <2>1, <2>2 DEF Stages
  <2>6. Preparing' /\ Selected'
    <3>1. (todo = <<>> /\ prep = NoPrep /\ packs = <<>> /\ life # "assets" =>
             Preparing /\ Selected)'
      BY NoPreparation, PTL
    <3> QED BY <1>1, <1>2, <2>2, <3>1
  <2>7. \A k \in Layouts : attached'[k] = {}
    BY <1>1, <1>2 DEF Nothing
  <2>8. LifetimesNest'
    <3>1. {"scale6", "consumer_order"} \subseteq Layouts
      BY LayoutNames
    <3>2. PointersAreSound'
      BY <1>1, <1>2, <2>7, <3>1, NothingQueued DEF PointersAreSound
    <3> QED BY <1>1, <1>2, <1>3, <2>2, <2>7, <3>2 DEF LifetimesNest
  <2> QED BY <2>3, <2>4, <2>5, <2>6, <2>8 DEF AssetInv
<1>4. CASE result # "ok"
  <2>1. /\ life' = "gone" /\ UNCHANGED <<result, route, eligible, cause, alive>>
    BY <1>4 DEF LoadReturned
  <2>2. AssetTypes'
    BY <1>1, <1>2, <2>1 DEF AssetTypes, Lives
  <2>3. ArenaHeld'
    BY <1>1, <1>2, <1>4, <2>1 DEF ArenaHeld
  <2>4. Stages'
    BY <1>1, <1>2, <2>1 DEF Stages
  <2>5. Preparing' /\ Selected'
    <3>1. (todo = <<>> /\ prep = NoPrep /\ packs = <<>> /\ life # "assets" =>
             Preparing /\ Selected)'
      BY NoPreparation, PTL
    <3> QED BY <1>1, <1>2, <2>1, <3>1
  <2>6. PointersAreSound'
    BY <1>1, <1>2, <2>1 DEF PointersAreSound
  <2>7. LifetimesNest'
    BY <1>1, <1>2, <2>1, <2>6 DEF LifetimesNest, Nothing
  <2> QED BY <2>2, <2>3, <2>4, <2>5, <2>7 DEF AssetInv
<1> QED BY <1>3, <1>4

\* A stage of the build ends, well or not: the members that exist are kept, and
\* what has been attached stays.
LEMMA StageEnds ==
  ASSUME AssetInv, life # "load", life' \in Lives, life' \notin {"load", "assets"},
         UNCHANGED loadVars, UNCHANGED <<packed, attached>>,
         todo' = <<>>, prep' = NoPrep, packs' = <<>>,
         alive \subseteq alive', alive' \subseteq MemberSet,
         "resident" \in alive' => "resident" \in alive,
         "weights" \in alive' => "resident" \in alive',
         "runner" \in alive' => {"weights", "request"} \subseteq alive',
         route' \in Route, eligible' \in SUBSET LayerIds, cause' \in BOOLEAN,
         Stages'
  PROVE  AssetInv'
<1>1. UNCHANGED <<main, result, arena>>
  BY DEF loadVars
<1>2. AssetTypes /\ PointersAreSound /\ LifetimesNest /\ ArenaHeld
  BY DEF AssetInv, LifetimesNest
<1>3. AssetTypes'
  <2>1. NoPrep \in [pc : PrepPlaces, kind : Layouts \cup {"none"},
                    layers : SUBSET LayerIds]
    BY DEF NoPrep, PrepPlaces
  <2>2. todo' \in Seq(Layouts) /\ packs' \in Seq([kind : Layouts, layer : LayerIds])
    OBVIOUS
  <2> QED BY <1>2, <2>1, <2>2 DEF AssetTypes
<1>4. ArenaHeld'
  BY <1>1, <1>2 DEF ArenaHeld
<1>5. Preparing' /\ Selected'
  <2>1. (todo = <<>> /\ prep = NoPrep /\ packs = <<>> /\ life # "assets" =>
           Preparing /\ Selected)'
    BY NoPreparation, PTL
  <2> QED BY <2>1
<1>6. PointersAreSound'
  BY <1>2, NothingQueued DEF PointersAreSound
<1>7. LifetimesNest'
  BY <1>1, <1>2, <1>6 DEF LifetimesNest, ArenaHeld
<1> QED BY <1>3, <1>4, <1>5, <1>7 DEF AssetInv

LEMMA NoRouteType == NoRoute \in Route /\ {} \in SUBSET LayerIds
  BY DEF NoRoute, Route, Tactics, DecodeKinds

LEMMA BindKeeps ==
  ASSUME AssetInv, Bind
  PROVE  AssetInv'
<1>1. /\ life = "bind" /\ UNCHANGED loadVars
      /\ UNCHANGED <<todo, prep, packs, packed, attached>>
  BY DEF Bind
<1>2. /\ AssetTypes /\ alive = {"resident"} /\ todo = <<>> /\ prep = NoPrep
      /\ packs = <<>> /\ attached = Nothing /\ ValidRoute(route)
      /\ (~cause => Cardinality(eligible) = PinnedLayers)
  BY <1>1 DEF AssetInv, Stages
<1>3. MemberSet = {"resident", "weights", "request", "runner"} \cup Elems(Owners)
  BY MembersAre
<1>4. CASE life' = "state" /\ alive' = alive \cup {"weights"}
           /\ UNCHANGED <<cause, route, eligible>>
  <2>1. Stages'
    BY <1>1, <1>2, <1>4 DEF Stages
  <2> QED BY <1>1, <1>2, <1>3, <1>4, <2>1, StageEnds DEF AssetTypes, Lives
<1>5. CASE BuildFails /\ UNCHANGED alive
  <2>1. life' = "destroy" /\ cause' = TRUE /\ route' = NoRoute /\ eligible' = {}
    BY <1>5 DEF BuildFails, Forget
  <2>2. Stages'
    BY <1>1, <1>2, <2>1 DEF Stages
  <2> QED BY <1>1, <1>2, <1>3, <1>5, <2>1, <2>2, StageEnds, NoRouteType DEF Lives
<1> QED BY <1>4, <1>5 DEF Bind

LEMMA CreateStateKeeps ==
  ASSUME AssetInv, CreateState
  PROVE  AssetInv'
<1>1. /\ life = "state" /\ UNCHANGED loadVars
      /\ UNCHANGED <<prep, packs, packed, attached>>
  BY DEF CreateState
<1>2. /\ AssetTypes /\ alive = {"resident", "weights"} /\ todo = <<>> /\ prep = NoPrep
      /\ packs = <<>> /\ attached = Nothing /\ ValidRoute(route) /\ route \in Route
      /\ (~cause => Cardinality(eligible) = PinnedLayers)
      /\ LifetimesNest /\ PointersAreSound /\ ArenaHeld
  BY <1>1 DEF AssetInv, Stages, AssetTypes, LifetimesNest
<1>3. MemberSet = {"resident", "weights", "request", "runner"} \cup Elems(Owners)
  BY MembersAre
<1>4. CASE /\ life' = "assets" /\ alive' = alive \cup {"request"}
           /\ todo' = Selection(route) /\ UNCHANGED <<cause, route, eligible>>
  <2>1. Selection(route) \in Seq(Layouts) /\ Arranged(Selection(route))
    BY <1>2, SelectionIs
  <2>2. AssetTypes'
    BY <1>1, <1>2, <1>3, <1>4, <2>1 DEF AssetTypes, Lives
  <2>3. UNCHANGED <<main, result, arena>>
    BY <1>1 DEF loadVars
  <2>4. ArenaHeld'
    BY <1>1, <1>2, <1>4, <2>3 DEF ArenaHeld
  <2>5. Stages'
    BY <1>2, <1>4 DEF Stages
  <2>6. prep' = NoPrep /\ prep'.pc = "idle" /\ packs' = <<>>
    BY <1>1, <1>2 DEF NoPrep
  <2>7. Preparing'
    BY <2>6, NothingQueued DEF Preparing
  <2>8. \A k \in Layouts : attached'[k] = {}
    BY <1>1, <1>2 DEF Nothing
  <2>9. Chosen' = Elems(todo') /\ Chosen' \subseteq Layouts
    <3>1. Elems(Selection(route)) \subseteq Layouts
      BY <1>2, SelectionFacts
    <3> QED BY <1>4, <3>1 DEF Chosen
  <2>10. \A k : Left(k)' <=> k \in Chosen'
    BY <2>6, <2>9 DEF Left
  <2>11. Selected'
    <3>1. Arranged(todo')
      BY <1>4, <2>1
    <3>2. \A k \in Layouts : attached'[k] # {} => k \in Chosen' /\ ~Left(k)'
      BY <2>8
    <3>3. \A k \in Chosen' \ Optional : Left(k)' \/ attached'[k] # {}
      BY <2>10
    <3>4. ~("scale6" \in Chosen' /\ ~Left("scale6")')
      BY <2>10
    <3>5. alive' \ {"resident", "weights", "request"} = {}
      BY <1>2, <1>4
    <3> QED BY <2>9, <3>1, <3>2, <3>3, <3>4, <3>5 DEF Selected
  <2>12. PointersAreSound'
    <3>1. {"scale6", "consumer_order"} \subseteq Layouts
      BY LayoutNames
    <3> QED BY <2>6, <2>8, <3>1, NothingQueued DEF PointersAreSound
  <2>13. LifetimesNest'
    BY <1>2, <1>4, <2>3, <2>6, <2>8, <2>12 DEF LifetimesNest
  <2> QED BY <2>2, <2>4, <2>5, <2>7, <2>11, <2>13 DEF AssetInv
<1>5. CASE BuildFails /\ UNCHANGED <<alive, todo>>
  <2>1. life' = "destroy" /\ cause' = TRUE /\ route' = NoRoute /\ eligible' = {}
    BY <1>5 DEF BuildFails, Forget
  <2>2. Stages'
    BY <1>1, <1>2, <1>5, <2>1 DEF Stages
  <2> QED BY <1>1, <1>2, <1>3, <1>5, <2>1, <2>2, StageEnds, NoRouteType DEF Lives
<1> QED BY <1>4, <1>5 DEF CreateState

LEMMA AssetsFailKeeps ==
  ASSUME AssetInv, AssetsFail
  PROVE  AssetInv'
<1>1. /\ life = "assets" /\ prep.pc = "failed" /\ life' = "destroy"
      /\ todo' = <<>> /\ prep' = NoPrep /\ route' = NoRoute /\ eligible' = {}
      /\ UNCHANGED loadVars /\ UNCHANGED <<packs, alive, packed, attached, cause>>
  BY DEF AssetsFail, Forget
<1>2. /\ AssetTypes /\ Preparing
      /\ {"resident", "weights", "request"} \subseteq alive /\ "runner" \notin alive
  BY <1>1, AssetKnown
<1>3. packs = <<>>
  BY <1>1, <1>2 DEF Preparing
<1>4. Stages'
  BY <1>1, <1>3 DEF Stages
<1> QED BY <1>1, <1>2, <1>3, <1>4, StageEnds, NoRouteType DEF AssetTypes, Lives

LEMMA CreateRunnerKeeps ==
  ASSUME AssetInv, CreateRunner
  PROVE  AssetInv'
<1>1. /\ life = "assets" /\ prep.pc = "idle" /\ todo = <<>> /\ UNCHANGED loadVars
      /\ UNCHANGED <<todo, prep, packs, packed, attached>>
      /\ route' = NoRoute /\ eligible' = {}
      /\ \/ alive' = alive \cup {"runner"} /\ life' = "built" /\ cause' = cause
         \/ life' = "destroy" /\ cause' = TRUE /\ alive' = alive
  BY DEF CreateRunner, BuildFails, Forget
<1>2. /\ AssetTypes /\ Preparing
      /\ {"resident", "weights", "request"} \subseteq alive /\ "runner" \notin alive
  BY <1>1, AssetKnown
<1>3. packs = <<>>
  BY <1>1, <1>2 DEF Preparing
<1>4. prep = NoPrep
  BY <1>1, <1>2 DEF Preparing
<1>5. Stages'
  BY <1>1, <1>2, <1>3, <1>4 DEF Stages
<1>6. alive \in SUBSET MemberSet /\ "runner" \in MemberSet /\ cause \in BOOLEAN
  BY <1>2, MembersAre DEF AssetTypes
<1> QED BY <1>1, <1>2, <1>3, <1>4, <1>5, <1>6, StageEnds, NoRouteType DEF Lives

LEMMA RunnerStepKeeps ==
  ASSUME AssetInv, RunnerStep
  PROVE  AssetInv'
<1>1. /\ life = "built" /\ UNCHANGED loadVars
      /\ UNCHANGED <<route, eligible, todo, prep, packs, packed, attached, cause>>
      /\ \/ life' = "destroy" /\ alive' = alive \ {"runner"}
         \/ UNCHANGED <<life, alive>>
  BY DEF RunnerStep
<1>2. /\ AssetTypes /\ LifetimesNest /\ PointersAreSound /\ ArenaHeld
      /\ {"resident", "weights", "request", "runner"} \subseteq alive
      /\ todo = <<>> /\ prep = NoPrep /\ packs = <<>>
  BY <1>1 DEF AssetInv, Stages, LifetimesNest
<1>3. UNCHANGED <<main, result, arena>>
  BY <1>1 DEF loadVars
<1>4. AssetTypes'
  BY <1>1, <1>2 DEF AssetTypes, Lives
<1>5. ArenaHeld'
  BY <1>1, <1>2, <1>3 DEF ArenaHeld
<1>6. Stages'
  BY <1>1, <1>2 DEF Stages
<1>7. Preparing' /\ Selected'
  <2>1. (todo = <<>> /\ prep = NoPrep /\ packs = <<>> /\ life # "assets" =>
           Preparing /\ Selected)'
    BY NoPreparation, PTL
  <2> QED BY <1>1, <1>2, <2>1
<1>8. PointersAreSound'
  <2>1. \A k \in Layouts : OwnerOf(k) \in alive => OwnerOf(k) \in alive'
    BY <1>1, OwnerNames
  <2> QED BY <1>1, <1>2, <2>1, NothingQueued DEF PointersAreSound
<1>9. LifetimesNest'
  BY <1>1, <1>2, <1>3, <1>8 DEF LifetimesNest
<1> QED BY <1>4, <1>5, <1>6, <1>7, <1>9 DEF AssetInv

LEMMA DestroyMemberKeeps ==
  ASSUME CopyInv, AssetInv, DestroyMember
  PROVE  AssetInv'
<1> DEFINE m == NextMember
<1>1. /\ life = "destroy" /\ life' = life /\ alive # {} /\ alive' = alive \ {m}
      /\ UNCHANGED <<main, result, route, eligible, todo, prep, packs, cause>>
      /\ attached' = IF m = "weights" THEN Nothing ELSE attached
      /\ packed' = [k \in Layouts |-> IF OwnerOf(k) = m THEN {} ELSE packed[k]]
      /\ arena' = IF m = "resident" THEN NoArena ELSE arena
  BY DEF DestroyMember
<1>2. /\ AssetTypes /\ LifetimesNest /\ PointersAreSound /\ ArenaHeld
      /\ todo = <<>> /\ prep = NoPrep /\ packs = <<>> /\ alive \subseteq MemberSet
  BY <1>1 DEF AssetInv, Stages, LifetimesNest, AssetTypes
<1>3. /\ m \in alive
      /\ "runner" \in alive => m = "runner"
      /\ m \in Elems(Owners) \cup {"resident"} => "weights" \notin alive
      /\ m = "resident" => alive = {"resident"}
  BY <1>1, <1>2, NextMemberFacts
<1> HIDE DEF m
<1>4. Nothing \in [Layouts -> SUBSET LayerIds] /\ \A k \in Layouts : Nothing[k] = {}
  BY DEF Nothing
<1>5. /\ packed \in [Layouts -> SUBSET LayerIds]
      /\ attached \in [Layouts -> SUBSET LayerIds]
  BY <1>2 DEF AssetTypes
<1>6. /\ packed' \in [Layouts -> SUBSET LayerIds]
      /\ attached' \in [Layouts -> SUBSET LayerIds]
      /\ \A k \in Layouts : packed'[k] = IF OwnerOf(k) = m THEN {} ELSE packed[k]
  BY <1>1, <1>4, <1>5
<1>7. AssetTypes'
  BY <1>1, <1>2, <1>6 DEF AssetTypes
<1>8. main = "returned" /\ NoArena.live = FALSE
  BY <1>1 DEF CopyInv, Running, NoArena
<1>9. ArenaHeld'
  BY <1>1, <1>2, <1>3, <1>8 DEF ArenaHeld
<1>10. Stages'
  BY <1>1, <1>2 DEF Stages
<1>11. Preparing' /\ Selected'
  <2>1. (todo = <<>> /\ prep = NoPrep /\ packs = <<>> /\ life # "assets" =>
           Preparing /\ Selected)'
    BY NoPreparation, PTL
  <2> QED BY <1>1, <1>2, <2>1
<1>12. {"scale6", "consumer_order"} \subseteq Layouts
  BY LayoutNames
<1>13. CASE \A k \in Layouts : attached'[k] = {}
  <2>1. PointersAreSound'
    BY <1>1, <1>2, <1>12, <1>13, NothingQueued DEF PointersAreSound
  <2>2. "resident" \in alive' => arena'.live
    BY <1>1, <1>2 DEF LifetimesNest
  <2>3. "weights" \in alive' => "resident" \in alive'
    BY <1>1, <1>2, <1>3 DEF LifetimesNest
  <2>4. "runner" \notin alive'
    BY <1>1, <1>3
  <2> QED BY <1>1, <1>2, <1>7, <1>9, <1>10, <1>11, <1>13, <2>1, <2>2, <2>3, <2>4
          DEF AssetInv, LifetimesNest
<1>14. CASE ~ \A k \in Layouts : attached'[k] = {}
  <2>1. attached' = attached /\ m # "weights"
    BY <1>1, <1>4, <1>14
  <2>2. "weights" \in alive
    BY <1>2, <1>14, <2>1 DEF LifetimesNest
  <2>3. m \notin Elems(Owners) /\ m # "resident"
    BY <1>3, <2>2
  <2>4. \A k \in Layouts : OwnerOf(k) # m
    BY <2>3, OwnerNames
  <2>5. \A k \in Layouts : packed'[k] = packed[k]
    BY <1>6, <2>4
  <2>6. PointersAreSound'
    BY <1>1, <1>2, <2>1, <2>4, <2>5, NothingQueued DEF PointersAreSound
  <2>7. LifetimesNest'
    BY <1>1, <1>2, <1>3, <2>1, <2>2, <2>3, <2>6 DEF LifetimesNest
  <2> QED BY <1>7, <1>9, <1>10, <1>11, <2>7 DEF AssetInv
<1> QED BY <1>13, <1>14

LEMMA DestroyedKeeps ==
  ASSUME AssetInv, Destroyed
  PROVE  AssetInv'
<1>1. /\ life = "destroy" /\ alive = {} /\ life' = "gone"
      /\ UNCHANGED loadVars /\ UNCHANGED assetVars
  BY DEF Destroyed
<1>2. UNCHANGED <<route, eligible, todo, prep, packs, alive, packed, attached, cause>>
  BY <1>1 DEF assetVars
<1>3. AssetTypes /\ LifetimesNest /\ todo = <<>> /\ prep = NoPrep /\ packs = <<>>
  BY <1>1 DEF AssetInv, Stages
<1>4. Stages'
  BY <1>1, <1>2, <1>3 DEF Stages
<1> QED BY <1>1, <1>2, <1>3, <1>4, StageEnds DEF AssetTypes, Lives

\* The inductive invariant of a build and of the destruction.
THEOREM BuildInvariant == LifeSpec => []AssetInv
<1>1. LifeInit => AssetInv
  BY AssetsStart
<1>2. CopyInv /\ AssetInv /\ [LifeNext]_lifeVars => AssetInv'
  <2> SUFFICES ASSUME CopyInv, AssetInv, [LifeNext]_lifeVars
               PROVE  AssetInv'
    OBVIOUS
  <2>1. CASE LoadStep
    BY <2>1, LoadStepKeeps
  <2>2. CASE LoadReturned
    BY <2>2, LoadReturnedKeeps
  <2>3. CASE Bind
    BY <2>3, BindKeeps
  <2>4. CASE CreateState
    BY <2>4, CreateStateKeeps
  <2>5. CASE AssetStep
    BY <2>5, PrepareKeeps DEF AssetStep
  <2>6. CASE AssetsFail
    BY <2>6, AssetsFailKeeps
  <2>7. CASE CreateRunner
    BY <2>7, CreateRunnerKeeps
  <2>8. CASE RunnerStep
    BY <2>8, RunnerStepKeeps
  <2>9. CASE DestroyMember
    BY <2>9, DestroyMemberKeeps
  <2>10. CASE Destroyed
    BY <2>10, DestroyedKeeps
  <2>11. CASE UNCHANGED lifeVars
    <3>1. UNCHANGED <<main, result, arena, life, alive, packs, attached>>
          /\ UNCHANGED assetVars
      BY <2>11 DEF lifeVars, loadVars, assetVars
    <3>2. AssetTypes' /\ Stages' /\ Preparing' /\ Selected' /\ PointersAreSound'
      BY <3>1, AssetsRest
    <3>3. ArenaHeld'
      BY <3>1 DEF AssetInv, ArenaHeld
    <3>4. LifetimesNest'
      BY <3>1, <3>2 DEF AssetInv, LifetimesNest
    <3> QED BY <3>2, <3>3, <3>4 DEF AssetInv
  <2> QED BY <2>1, <2>2, <2>3, <2>4, <2>5, <2>6, <2>7, <2>8, <2>9, <2>10, <2>11
          DEF LifeNext
<1> QED BY <1>1, <1>2, EngineInvariant, PTL DEF LifeSpec

\* ReferenceEngine::Impl: nothing outlives what it points into, the layouts of an
\* accepted route never exclude one another, a build fails only for a cause
\* outside it, and nothing is left of a destroyed engine.
THEOREM EngineStaysSound == LifeSpec => []EngineIsSound
<1>1. CopyInv /\ AssetInv => EngineIsSound
  <2> SUFFICES ASSUME CopyInv, AssetInv PROVE EngineIsSound
    OBVIOUS
  <2>1. LifetimesNest /\ Preparing /\ Stages /\ AssetTypes
    BY DEF AssetInv
  <2>2. LayoutsAreExclusive
    <3> SUFFICES ASSUME life = "assets", prep.pc = "idle", todo = <<>>
                 PROVE  /\ Cardinality(Served(Nvfp4Layouts)) <= 1
                        /\ Cardinality(Served(Fp8Layouts)) <= 1
                        /\ route.sm87 /\ route.chunk512 /\ route.nvfp4 =>
                             Served(Nvfp4Layouts) # {}
                        /\ \A k \in Layouts \ Optional :
                             k \in Chosen <=> attached[k] # {}
      BY DEF LayoutsAreExclusive, Chosen, Elems
    <3>1. route \in Route /\ ValidRoute(route)
      BY <2>1 DEF Stages, AssetTypes
    <3>2. \A k : ~Left(k)
      BY NothingQueued DEF Left, Elems
    <3>3. \A k \in Layouts \ Optional : k \in Chosen <=> attached[k] # {}
      BY <3>2 DEF AssetInv, Selected
    <3>4. /\ Nvfp4Layouts \subseteq Layouts \ Optional
          /\ Fp8Layouts \subseteq Layouts \ Optional
      BY LayoutNames DEF Nvfp4Layouts, Fp8Layouts, Optional
    <3>5. /\ Served(Nvfp4Layouts) = Chosen \cap Nvfp4Layouts
          /\ Served(Fp8Layouts) = Chosen \cap Fp8Layouts
      BY <3>3, <3>4 DEF Served
    <3>6. /\ \A k, l \in Chosen \cap Nvfp4Layouts : k = l
          /\ \A k, l \in Chosen \cap Fp8Layouts : k = l
          /\ route.sm87 /\ route.chunk512 /\ route.nvfp4 =>
               Chosen \cap Nvfp4Layouts # {}
      BY <3>1, SelectionFacts DEF Chosen
    <3>7. /\ Cardinality(Chosen \cap Nvfp4Layouts) <= 1
          /\ Cardinality(Chosen \cap Fp8Layouts) <= 1
      BY <3>6, AtMostOne
    <3> QED BY <3>3, <3>5, <3>6, <3>7
  <2>3. prep.pc = "failed" => cause
    BY <2>1 DEF Preparing
  <2>4. life = "gone" => alive = {} /\ ~arena.live /\ packs = <<>>
    BY <2>1 DEF AssetInv, Stages, ArenaHeld
  <2> QED BY <2>1, <2>2, <2>3, <2>4 DEF EngineIsSound
<1> QED BY <1>1, EngineInvariant, BuildInvariant, PTL

-----------------------------------------------------------------------------
(* Sums over finite sets.                                                   *)

\* Induction over the subsets of a finite set.
LEMMA SubsetInduction ==
  ASSUME NEW S, IsFiniteSet(S), NEW F,
         \A T \in SUBSET S : (\A x \in T : T \ {x} \in F) => T \in F
  PROVE  S \in F
<1> SUFFICES ASSUME S \notin F PROVE FALSE
  OBVIOUS
<1> DEFINE N == {n \in Nat : \E T \in SUBSET S : T \notin F /\ Cardinality(T) = n}
<1>1. \A T \in SUBSET S : IsFiniteSet(T) /\ Cardinality(T) \in Nat
  BY FS_Subset, FS_CardinalityType
<1>2. Cardinality(S) \in N
  BY <1>1
<1>3. Min(N) \in N /\ \A y \in N : Min(N) =< y
  BY <1>2, Least
<1>4. PICK T \in SUBSET S : T \notin F /\ Cardinality(T) = Min(N)
  BY <1>3
<1>5. PICK x \in T : T \ {x} \notin F
  BY <1>4
<1>6. Cardinality(T \ {x}) = Cardinality(T) - 1
  BY <1>1, FS_RemoveElement
<1>7. Cardinality(T \ {x}) \in N
  BY <1>1, <1>5
<1>8. Cardinality(T) \in Nat
  BY <1>1
<1> HIDE DEF N
<1> QED BY <1>3, <1>4, <1>6, <1>7, <1>8

Pick(s) == CHOOSE x \in s : TRUE

\* One step of a sum: g is the sum of every smaller set.
Summand(f, g, s) == IF s = {} THEN 0 ELSE f[Pick(s)] + g[s \ {Pick(s)}]

IsSumOn(f, g, D) == g = [s \in D |-> Summand(f, g, s)]

\* The recursion of a sum has a solution.
LEMMA SumExists ==
  ASSUME NEW S, IsFiniteSet(S), NEW f
  PROVE  \E g : IsSumOn(f, g, SUBSET S)
<1> DEFINE Upto(n) == {s \in SUBSET S : Cardinality(s) =< n}
           G == {n \in Nat : \E g : \A s \in Upto(n) : g[s] = Summand(f, g, s)}
<1>1. \A T \in SUBSET S : IsFiniteSet(T) /\ Cardinality(T) \in Nat
  BY FS_Subset, FS_CardinalityType
<1>2. 0 \in G
  <2>1. \A s \in Upto(0) : s = {}
    BY <1>1, FS_EmptySet
  <2>2. \A s \in Upto(0) : [t \in {{}} |-> 0][s] = Summand(f, [t \in {{}} |-> 0], s)
    BY <2>1 DEF Summand
  <2> QED BY <2>2
<1>3. ASSUME NEW n \in G PROVE n + 1 \in G
  <2>1. PICK g : \A s \in Upto(n) : g[s] = Summand(f, g, s)
    OBVIOUS
  <2> DEFINE h == [s \in SUBSET S |-> Summand(f, g, s)]
  <2>2. ASSUME NEW s \in Upto(n + 1) PROVE h[s] = Summand(f, h, s)
    <3>1. CASE s = {}
      BY <3>1 DEF Summand
    <3>2. CASE s # {}
      <4>1. Pick(s) \in s
        BY <3>2 DEF Pick
      <4>2. Cardinality(s \ {Pick(s)}) = Cardinality(s) - 1
        BY <1>1, <4>1, FS_RemoveElement
      <4>3. s \ {Pick(s)} \in Upto(n)
        <5>1. n \in Nat /\ Cardinality(s) \in Nat /\ Cardinality(s) =< n + 1
          BY <1>1
        <5> QED BY <4>2, <5>1
      <4>4. h[s \ {Pick(s)}] = g[s \ {Pick(s)}]
        BY <2>1, <4>3
      <4> HIDE DEF h
      <4>5. h[s] = Summand(f, g, s)
        BY DEF h
      <4> QED BY <3>2, <4>4, <4>5 DEF Summand
    <3> QED BY <3>1, <3>2
  <2> HIDE DEF h
  <2> QED BY <2>2
<1>4. G = Nat
  <2> DEFINE B == Nat \ G
  <2>1. CASE B # {}
    <3>1. Min(B) \in B /\ \A y \in B : Min(B) =< y
      <4> HIDE DEF G
      <4> QED BY <2>1, Least
    <3>2. Min(B) # 0 /\ Min(B) \in Nat
      BY <1>2, <3>1
    <3> HIDE DEF G
    <3>3. Min(B) - 1 \notin G
      <4>1. (Min(B) - 1) + 1 = Min(B)
        BY <3>2
      <4> QED BY <1>3, <3>1, <4>1
    <3>4. Min(B) - 1 \in Nat
      BY <3>2
    <3>5. Min(B) - 1 \in B
      BY <3>3, <3>4
    <3>6. Min(B) =< Min(B) - 1
      BY <3>1, <3>5
    <3> QED BY <3>2, <3>6
  <2> QED BY <2>1
<1>5. PICK g : \A s \in Upto(Cardinality(S)) : g[s] = Summand(f, g, s)
  BY <1>1, <1>4
<1>6. \A s \in SUBSET S : g[s] = Summand(f, g, s)
  BY <1>5, FS_Subset
<1> DEFINE h == [s \in SUBSET S |-> g[s]]
<1>7. \A s \in SUBSET S : h[s] = Summand(f, h, s)
  <2> SUFFICES ASSUME NEW s \in SUBSET S PROVE h[s] = Summand(f, h, s)
    OBVIOUS
  <2>1. h[s] = Summand(f, g, s) /\ h[s \ {Pick(s)}] = g[s \ {Pick(s)}]
    BY <1>6
  <2> HIDE DEF h
  <2> QED BY <2>1 DEF Summand
<1>8. IsSumOn(f, h, SUBSET S)
  BY <1>7 DEF IsSumOn
<1> QED BY <1>8

TheSum(f, S) == CHOOSE g : IsSumOn(f, g, SUBSET S)

\* The community module's sum is that solution.
LEMMA SumIsSolution ==
  ASSUME NEW S, NEW f
  PROVE  SumFunctionOnSet(f, S) = TheSum(f, S)[S]
BY DEF SumFunctionOnSet, FoldFunctionOnSet, MapThenFoldSet, TheSum, IsSumOn,
       Summand, Pick

\* A sum is its chosen member and the sum of the others.
LEMMA SumRecursion ==
  ASSUME NEW S, IsFiniteSet(S), NEW f
  PROVE  SumFunctionOnSet(f, S) =
           IF S = {} THEN 0
           ELSE f[Pick(S)] + SumFunctionOnSet(f, S \ {Pick(S)})
<1> DEFINE U == S \ {Pick(S)}
           G == TheSum(f, S)
           H == TheSum(f, U)
<1>1. IsFiniteSet(U)
  BY FS_RemoveElement
<1>2. IsSumOn(f, G, SUBSET S)
  <2>1. \E g : IsSumOn(f, g, SUBSET S)
    BY SumExists
  <2> QED BY <2>1 DEF TheSum
<1>3. IsSumOn(f, H, SUBSET U)
  <2>1. \E g : IsSumOn(f, g, SUBSET U)
    BY <1>1, SumExists
  <2> QED BY <2>1 DEF TheSum
<1> DEFINE F == {T \in SUBSET U : G[T] = H[T]}
<1> HIDE DEF G, H
<1>4. \A T \in SUBSET S : G[T] = Summand(f, G, T)
  BY <1>2 DEF IsSumOn
<1>5. \A T \in SUBSET U : H[T] = Summand(f, H, T)
  BY <1>3 DEF IsSumOn
<1>6. \A T \in SUBSET U : (\A x \in T : T \ {x} \in F) => T \in F
  <2> SUFFICES ASSUME NEW T \in SUBSET U, \A x \in T : T \ {x} \in F
               PROVE  T \in F
    OBVIOUS
  <2>1. G[T] = Summand(f, G, T) /\ H[T] = Summand(f, H, T)
    BY <1>4, <1>5
  <2>2. T # {} => Pick(T) \in T
    BY DEF Pick
  <2>3. T # {} => G[T \ {Pick(T)}] = H[T \ {Pick(T)}]
    BY <2>2
  <2> QED BY <2>1, <2>3 DEF Summand
<1> HIDE DEF F
<1>7. U \in F
  BY <1>1, <1>6, SubsetInduction
<1>8. G[U] = H[U]
  BY <1>7 DEF F
<1>9. SumFunctionOnSet(f, S) = G[S] /\ SumFunctionOnSet(f, U) = H[U]
  BY SumIsSolution DEF G, H
<1> QED BY <1>4, <1>8, <1>9 DEF Summand

\* Sums are integers.
LEMMA SumType ==
  ASSUME NEW S, IsFiniteSet(S), NEW f, \A x \in S : f[x] \in Int
  PROVE  SumFunctionOnSet(f, S) \in Int
<1> DEFINE F == {T \in SUBSET S : SumFunctionOnSet(f, T) \in Int}
<1>1. \A T \in SUBSET S : (\A x \in T : T \ {x} \in F) => T \in F
  <2> SUFFICES ASSUME NEW T \in SUBSET S, \A x \in T : T \ {x} \in F
               PROVE  T \in F
    OBVIOUS
  <2>1. IsFiniteSet(T)
    BY FS_Subset
  <2>2. T # {} => Pick(T) \in T
    BY DEF Pick
  <2>3. T # {} => SumFunctionOnSet(f, T \ {Pick(T)}) \in Int /\ f[Pick(T)] \in Int
    BY <2>2
  <2>4. SumFunctionOnSet(f, T) = IF T = {} THEN 0
          ELSE f[Pick(T)] + SumFunctionOnSet(f, T \ {Pick(T)})
    BY <2>1, SumRecursion
  <2> QED BY <2>3, <2>4
<1> HIDE DEF F
<1>2. S \in F
  BY <1>1, SubsetInduction
<1> QED BY <1>2 DEF F

\* The sum of nothing.
LEMMA SumEmpty ==
  ASSUME NEW f
  PROVE  SumFunctionOnSet(f, {}) = 0
BY FS_EmptySet, SumRecursion

\* A sum is any of its members and the sum of the others.
LEMMA SumRemove ==
  ASSUME NEW S, IsFiniteSet(S), NEW f, \A x \in S : f[x] \in Int, NEW a \in S
  PROVE  SumFunctionOnSet(f, S) = f[a] + SumFunctionOnSet(f, S \ {a})
<1> DEFINE Sum(T) == SumFunctionOnSet(f, T)
           F == {T \in SUBSET S : \A x \in T : Sum(T) = f[x] + Sum(T \ {x})}
<1> HIDE DEF Sum
<1>1. \A T \in SUBSET S : (\A x \in T : T \ {x} \in F) => T \in F
  <2> SUFFICES ASSUME NEW T \in SUBSET S, \A x \in T : T \ {x} \in F
               PROVE  T \in F
    OBVIOUS
  <2>1. SUFFICES ASSUME NEW x \in T PROVE Sum(T) = f[x] + Sum(T \ {x})
    OBVIOUS
  <2>2. IsFiniteSet(T)
    BY FS_Subset
  <2> DEFINE p == Pick(T)
  <2>3. p \in T
    BY DEF Pick
  <2>4. Sum(T) = f[p] + Sum(T \ {p})
    BY <2>2, SumRecursion DEF Sum
  <2> HIDE DEF p
  <2>5. CASE x = p
    BY <2>4, <2>5
  <2>6. CASE x # p
    <3>1. Sum(T \ {p}) = f[x] + Sum((T \ {p}) \ {x})
      BY <2>3, <2>6
    <3>2. Sum(T \ {x}) = f[p] + Sum((T \ {x}) \ {p})
      BY <2>3, <2>6
    <3>3. (T \ {p}) \ {x} = (T \ {x}) \ {p}
      OBVIOUS
    <3>4. IsFiniteSet((T \ {x}) \ {p})
      BY <2>2, FS_RemoveElement
    <3>5. Sum((T \ {x}) \ {p}) \in Int
      BY <3>4, SumType DEF Sum
    <3>6. f[x] \in Int /\ f[p] \in Int
      BY <2>3
    <3> DEFINE A == Sum((T \ {x}) \ {p})
               B == Sum(T \ {p})
               C == Sum(T \ {x})
    <3>7. Sum(T) = f[p] + B /\ B = f[x] + A /\ C = f[p] + A /\ A \in Int
      BY <2>4, <3>1, <3>2, <3>3, <3>5, Zenon
    <3> HIDE DEF A, B, C
    <3>8. Sum(T) = f[x] + C
      BY <3>6, <3>7
    <3> QED BY <3>8 DEF C
  <2> QED BY <2>5, <2>6
<1> HIDE DEF F
<1>2. S \in F
  BY <1>1, SubsetInduction
<1> QED BY <1>2 DEF F, Sum

\* Sums add up, term by term.
LEMMA SumPlus ==
  ASSUME NEW S, IsFiniteSet(S), NEW f, NEW g, NEW h,
         \A x \in S : f[x] \in Int /\ g[x] \in Int /\ h[x] = f[x] + g[x]
  PROVE  SumFunctionOnSet(h, S) = SumFunctionOnSet(f, S) + SumFunctionOnSet(g, S)
<1> DEFINE F == {T \in SUBSET S : SumFunctionOnSet(h, T) =
                   SumFunctionOnSet(f, T) + SumFunctionOnSet(g, T)}
<1>1. \A T \in SUBSET S : (\A x \in T : T \ {x} \in F) => T \in F
  <2> SUFFICES ASSUME NEW T \in SUBSET S, \A x \in T : T \ {x} \in F
               PROVE  T \in F
    OBVIOUS
  <2>1. IsFiniteSet(T)
    BY FS_Subset
  <2>2. CASE T = {}
    BY <2>2, SumEmpty
  <2>3. CASE T # {}
    <3> DEFINE p == Pick(T)
               R == T \ {p}
    <3>1. p \in T
      BY <2>3 DEF Pick
    <3>2. /\ SumFunctionOnSet(f, T) = f[p] + SumFunctionOnSet(f, R)
          /\ SumFunctionOnSet(g, T) = g[p] + SumFunctionOnSet(g, R)
          /\ SumFunctionOnSet(h, T) = h[p] + SumFunctionOnSet(h, R)
      BY <2>1, <2>3, SumRecursion
    <3>3. SumFunctionOnSet(h, R) = SumFunctionOnSet(f, R) + SumFunctionOnSet(g, R)
      BY <3>1
    <3>4. SumFunctionOnSet(f, R) \in Int /\ SumFunctionOnSet(g, R) \in Int
      <4>1. IsFiniteSet(R)
        BY <2>1, FS_RemoveElement
      <4>2. \A x \in R : f[x] \in Int /\ g[x] \in Int
        OBVIOUS
      <4> HIDE DEF R
      <4> QED BY <4>1, <4>2, SumType
    <3>5. f[p] \in Int /\ g[p] \in Int /\ h[p] = f[p] + g[p]
      BY <3>1
    <3> HIDE DEF p, R
    <3> QED BY <3>2, <3>3, <3>4, <3>5
  <2> QED BY <2>2, <2>3
<1> HIDE DEF F
<1>2. S \in F
  BY <1>1, SubsetInduction
<1> QED BY <1>2 DEF F

\* A sum depends only on the members, and grows with them.
LEMMA SumMono ==
  ASSUME NEW S, IsFiniteSet(S), NEW f, NEW g,
         \A x \in S : f[x] \in Int /\ g[x] \in Int /\ f[x] =< g[x]
  PROVE  SumFunctionOnSet(f, S) =< SumFunctionOnSet(g, S)
<1> DEFINE F == {T \in SUBSET S :
                   SumFunctionOnSet(f, T) =< SumFunctionOnSet(g, T)}
<1>1. \A T \in SUBSET S : (\A x \in T : T \ {x} \in F) => T \in F
  <2> SUFFICES ASSUME NEW T \in SUBSET S, \A x \in T : T \ {x} \in F
               PROVE  T \in F
    OBVIOUS
  <2>1. IsFiniteSet(T)
    BY FS_Subset
  <2>2. CASE T = {}
    BY <2>2, SumEmpty
  <2>3. CASE T # {}
    <3> DEFINE p == Pick(T)
               R == T \ {p}
    <3>1. p \in T
      BY <2>3 DEF Pick
    <3>2. /\ SumFunctionOnSet(f, T) = f[p] + SumFunctionOnSet(f, R)
          /\ SumFunctionOnSet(g, T) = g[p] + SumFunctionOnSet(g, R)
      BY <2>1, <2>3, SumRecursion
    <3>3. SumFunctionOnSet(f, R) =< SumFunctionOnSet(g, R)
      BY <3>1
    <3>4. SumFunctionOnSet(f, R) \in Int /\ SumFunctionOnSet(g, R) \in Int
      <4>1. IsFiniteSet(R)
        BY <2>1, FS_RemoveElement
      <4>2. \A x \in R : f[x] \in Int /\ g[x] \in Int
        OBVIOUS
      <4> HIDE DEF R
      <4> QED BY <4>1, <4>2, SumType
    <3>5. f[p] \in Int /\ g[p] \in Int /\ f[p] =< g[p]
      BY <3>1
    <3> HIDE DEF p, R
    <3> QED BY <3>2, <3>3, <3>4, <3>5
  <2> QED BY <2>2, <2>3
<1> HIDE DEF F
<1>2. S \in F
  BY <1>1, SubsetInduction
<1> QED BY <1>2 DEF F

\* Equal members, equal sums.
LEMMA SumSame ==
  ASSUME NEW S, IsFiniteSet(S), NEW f, NEW g,
         \A x \in S : f[x] \in Int /\ f[x] = g[x]
  PROVE  SumFunctionOnSet(f, S) = SumFunctionOnSet(g, S)
<1>1. \A x \in S : f[x] \in Int /\ g[x] \in Int /\ f[x] =< g[x] /\ g[x] =< f[x]
  OBVIOUS
<1>2. /\ SumFunctionOnSet(f, S) =< SumFunctionOnSet(g, S)
      /\ SumFunctionOnSet(g, S) =< SumFunctionOnSet(f, S)
      /\ SumFunctionOnSet(f, S) \in Int /\ SumFunctionOnSet(g, S) \in Int
  BY <1>1, SumMono, SumType
<1> QED BY <1>2

\* The sum of two disjoint parts.
LEMMA SumUnion ==
  ASSUME NEW S, IsFiniteSet(S), NEW X, X \subseteq S, NEW f, \A x \in S : f[x] \in Int
  PROVE  SumFunctionOnSet(f, S) = SumFunctionOnSet(f, X) + SumFunctionOnSet(f, S \ X)
<1> DEFINE F == {T \in SUBSET S : SumFunctionOnSet(f, T) =
                   SumFunctionOnSet(f, T \cap X) + SumFunctionOnSet(f, T \ X)}
<1>1. \A T \in SUBSET S : (\A x \in T : T \ {x} \in F) => T \in F
  <2> SUFFICES ASSUME NEW T \in SUBSET S, \A x \in T : T \ {x} \in F
               PROVE  T \in F
    OBVIOUS
  <2>1. IsFiniteSet(T)
    BY FS_Subset
  <2>2. CASE T = {}
    <3>1. T \cap X = {} /\ T \ X = {}
      BY <2>2
    <3> QED BY <2>2, <3>1, SumEmpty
  <2>3. CASE T # {}
    <3> DEFINE p == Pick(T)
               A == SumFunctionOnSet(f, (T \ {p}) \cap X)
               B == SumFunctionOnSet(f, (T \ {p}) \ X)
    <3>1. p \in T
      BY <2>3 DEF Pick
    <3>2. SumFunctionOnSet(f, T) = f[p] + (A + B)
      <4>1. SumFunctionOnSet(f, T) = f[p] + SumFunctionOnSet(f, T \ {p})
        BY <2>1, <2>3, SumRecursion
      <4>2. SumFunctionOnSet(f, T \ {p}) = A + B
        BY <3>1
      <4> QED BY <4>1, <4>2
    <3>3. A \in Int /\ B \in Int
      <4>1. (T \ {p}) \cap X \in SUBSET T /\ (T \ {p}) \ X \in SUBSET T
        OBVIOUS
      <4>2. IsFiniteSet((T \ {p}) \cap X) /\ IsFiniteSet((T \ {p}) \ X)
        BY <2>1, <4>1, FS_Subset
      <4> QED BY <4>1, <4>2, SumType
    <3>4. IsFiniteSet(T \cap X) /\ IsFiniteSet(T \ X)
      <4>1. T \cap X \in SUBSET T /\ T \ X \in SUBSET T
        OBVIOUS
      <4> QED BY <2>1, <4>1, FS_Subset
    <3>5. CASE p \in X
      <4>1. (T \cap X) \ {p} = (T \ {p}) \cap X /\ T \ X = (T \ {p}) \ X
        BY <3>5
      <4>2. p \in T \cap X /\ \A x \in T \cap X : f[x] \in Int
        BY <3>1, <3>5
      <4>3. SumFunctionOnSet(f, T \cap X) = f[p] + SumFunctionOnSet(f, (T \cap X) \ {p})
        BY <3>4, <4>2, SumRemove
      <4>4. SumFunctionOnSet(f, T \cap X) = f[p] + A /\ SumFunctionOnSet(f, T \ X) = B
        BY <4>1, <4>3
      <4>5. f[p] \in Int
        BY <3>1
      <4> HIDE DEF A, B, p
      <4>6. f[p] + (A + B) = (f[p] + A) + B
        BY <3>3, <4>5
      <4> QED BY <3>2, <4>4, <4>6
    <3>6. CASE p \notin X
      <4>1. (T \ X) \ {p} = (T \ {p}) \ X /\ T \cap X = (T \ {p}) \cap X
        BY <3>6
      <4>2. p \in T \ X /\ \A x \in T \ X : f[x] \in Int
        BY <3>1, <3>6
      <4>3. SumFunctionOnSet(f, T \ X) = f[p] + SumFunctionOnSet(f, (T \ X) \ {p})
        BY <3>4, <4>2, SumRemove
      <4>4. SumFunctionOnSet(f, T \ X) = f[p] + B /\ SumFunctionOnSet(f, T \cap X) = A
        BY <4>1, <4>3
      <4>5. f[p] \in Int
        BY <3>1
      <4> HIDE DEF A, B, p
      <4>6. f[p] + (A + B) = A + (f[p] + B)
        BY <3>3, <4>5
      <4> QED BY <3>2, <4>4, <4>6
    <3> QED BY <3>5, <3>6
  <2> QED BY <2>2, <2>3
<1> HIDE DEF F
<1>2. S \in F
  BY <1>1, SubsetInduction
<1>3. S \cap X = X
  OBVIOUS
<1> QED BY <1>2, <1>3 DEF F

\* A sum of zeros.
LEMMA SumZero ==
  ASSUME NEW S, IsFiniteSet(S), NEW f, \A x \in S : f[x] = 0
  PROVE  SumFunctionOnSet(f, S) = 0
<1>1. \A x \in S : f[x] \in Int /\ f[x] = f[x] + f[x]
  OBVIOUS
<1>2. SumFunctionOnSet(f, S) = SumFunctionOnSet(f, S) + SumFunctionOnSet(f, S)
  BY <1>1, SumPlus
<1>3. SumFunctionOnSet(f, S) \in Int
  BY <1>1, SumType
<1>4. \A a \in Int : a = a + a => a = 0
  OBVIOUS
<1> QED BY <1>2, <1>3, <1>4

\* Members that are zero do not count.
LEMMA SumSupport ==
  ASSUME NEW S, IsFiniteSet(S), NEW X, X \subseteq S, NEW f,
         \A x \in S : f[x] \in Int, \A x \in S \ X : f[x] = 0
  PROVE  SumFunctionOnSet(f, S) = SumFunctionOnSet(f, X)
<1>1. SumFunctionOnSet(f, S) = SumFunctionOnSet(f, X) + SumFunctionOnSet(f, S \ X)
  BY SumUnion
<1>2. IsFiniteSet(X) /\ IsFiniteSet(S \ X)
  BY FS_Subset
<1>3. SumFunctionOnSet(f, S \ X) = 0
  BY <1>2, SumZero
<1>4. SumFunctionOnSet(f, X) \in Int
  BY <1>2, SumType
<1> QED BY <1>1, <1>3, <1>4

\* A part of a sum of natural numbers.
LEMMA SumPart ==
  ASSUME NEW S, IsFiniteSet(S), NEW X, X \subseteq S, NEW f,
         \A x \in S : f[x] \in Nat
  PROVE  /\ SumFunctionOnSet(f, X) \in Nat /\ SumFunctionOnSet(f, S) \in Nat
         /\ SumFunctionOnSet(f, X) =< SumFunctionOnSet(f, S)
<1> DEFINE z == [x \in S |-> 0]
<1>1. IsFiniteSet(X) /\ IsFiniteSet(S \ X)
  BY FS_Subset
<1>2. \A T \in SUBSET S : IsFiniteSet(T) => SumFunctionOnSet(f, T) \in Nat
  <2> SUFFICES ASSUME NEW T \in SUBSET S, IsFiniteSet(T)
               PROVE  SumFunctionOnSet(f, T) \in Nat
    OBVIOUS
  <2>1. \A x \in T : z[x] \in Int /\ f[x] \in Int /\ z[x] =< f[x] /\ z[x] = 0
    OBVIOUS
  <2> HIDE DEF z
  <2>2. SumFunctionOnSet(z, T) =< SumFunctionOnSet(f, T) /\ SumFunctionOnSet(z, T) = 0
        /\ SumFunctionOnSet(f, T) \in Int
    BY <2>1, SumMono, SumZero, SumType
  <2> QED BY <2>2
<1>3. SumFunctionOnSet(f, S) = SumFunctionOnSet(f, X) + SumFunctionOnSet(f, S \ X)
  BY SumUnion
<1>4. /\ SumFunctionOnSet(f, X) \in Nat /\ SumFunctionOnSet(f, S) \in Nat
      /\ SumFunctionOnSet(f, S \ X) \in Nat
  BY <1>1, <1>2
<1> QED BY <1>3, <1>4

\* A sum of ones counts.
LEMMA SumOnes ==
  ASSUME NEW S, IsFiniteSet(S), NEW f, \A x \in S : f[x] = 1
  PROVE  SumFunctionOnSet(f, S) = Cardinality(S)
<1> DEFINE F == {T \in SUBSET S : SumFunctionOnSet(f, T) = Cardinality(T)}
<1>1. \A T \in SUBSET S : (\A x \in T : T \ {x} \in F) => T \in F
  <2> SUFFICES ASSUME NEW T \in SUBSET S, \A x \in T : T \ {x} \in F
               PROVE  T \in F
    OBVIOUS
  <2>1. IsFiniteSet(T) /\ Cardinality(T) \in Nat
    BY FS_Subset, FS_CardinalityType
  <2>2. CASE T = {}
    BY <2>2, SumEmpty, FS_EmptySet
  <2>3. CASE T # {}
    <3> DEFINE p == Pick(T)
    <3>1. p \in T
      BY <2>3 DEF Pick
    <3>2. SumFunctionOnSet(f, T) = f[p] + SumFunctionOnSet(f, T \ {p})
      BY <2>1, <2>3, SumRecursion
    <3>3. SumFunctionOnSet(f, T \ {p}) = Cardinality(T \ {p}) /\ f[p] = 1
      BY <3>1
    <3>4. Cardinality(T \ {p}) = Cardinality(T) - 1
      BY <2>1, <3>1, FS_RemoveElement
    <3> HIDE DEF p
    <3> QED BY <2>1, <3>2, <3>3, <3>4
  <2> QED BY <2>2, <2>3
<1> HIDE DEF F
<1>2. S \in F
  BY <1>1, SubsetInduction
<1> QED BY <1>2 DEF F

\* b lists the members of X by those of K, each once.
Listing(b, K, X) ==
  /\ \A k \in K : b[k] \in X
  /\ \A x \in X : \E k \in K : b[k] = x
  /\ \A k, l \in K : b[k] = b[l] => k = l

\* A sum over the members of a list that repeats none.
LEMMA SumReindex ==
  ASSUME NEW K, IsFiniteSet(K), NEW b, NEW X, NEW f, NEW g, Listing(b, K, X),
         \A k \in K : g[k] = f[b[k]] /\ f[b[k]] \in Int
  PROVE  IsFiniteSet(X) /\ SumFunctionOnSet(g, K) = SumFunctionOnSet(f, X)
<1> DEFINE Img(T) == {b[k] : k \in T}
           F == {T \in SUBSET K : /\ IsFiniteSet(Img(T))
                                  /\ SumFunctionOnSet(g, T) = SumFunctionOnSet(f, Img(T))}
<1>1. \A T \in SUBSET K : (\A x \in T : T \ {x} \in F) => T \in F
  <2> SUFFICES ASSUME NEW T \in SUBSET K, \A x \in T : T \ {x} \in F
               PROVE  T \in F
    OBVIOUS
  <2>1. IsFiniteSet(T)
    BY FS_Subset
  <2>2. CASE T = {}
    <3>1. Img(T) = {}
      BY <2>2
    <3> QED BY <2>2, <3>1, SumEmpty, FS_EmptySet
  <2>3. CASE T # {}
    <3> DEFINE p == Pick(T)
    <3>1. p \in T
      BY <2>3 DEF Pick
    <3>2. SumFunctionOnSet(g, T) = g[p] + SumFunctionOnSet(g, T \ {p})
      BY <2>1, <2>3, SumRecursion
    <3> HIDE DEF p
    <3>3. /\ IsFiniteSet(Img(T \ {p}))
          /\ SumFunctionOnSet(g, T \ {p}) = SumFunctionOnSet(f, Img(T \ {p}))
      BY <3>1
    <3>4. Img(T) = Img(T \ {p}) \cup {b[p]} /\ b[p] \in Img(T)
          /\ Img(T) \ {b[p]} = Img(T \ {p}) /\ \A x \in Img(T) : f[x] \in Int
      BY <3>1 DEF Listing
    <3> DEFINE I == Img(T)
               J == Img(T \ {p})
               q == b[p]
    <3>5. I = J \cup {q} /\ q \in I /\ I \ {q} = J /\ IsFiniteSet(J)
          /\ \A x \in I : f[x] \in Int
      BY <3>3, <3>4
    <3>6. g[p] = f[q]
      BY <3>1
    <3> HIDE DEF I, J, q
    <3>7. IsFiniteSet(I)
      BY <3>5, FS_AddElement
    <3>8. SumFunctionOnSet(f, I) = f[q] + SumFunctionOnSet(f, I \ {q})
      BY <3>5, <3>7, SumRemove
    <3>9. SumFunctionOnSet(g, T) = SumFunctionOnSet(f, I)
      BY <3>2, <3>3, <3>5, <3>6, <3>8 DEF J
    <3> QED BY <3>7, <3>9 DEF I
  <2> QED BY <2>2, <2>3
<1> HIDE DEF F
<1>2. K \in F
  BY <1>1, SubsetInduction
<1>3. Img(K) = X
  BY DEF Listing
<1> HIDE DEF Img
<1> QED BY <1>2, <1>3 DEF F

\* The key of each member names its group, and h has the sum of each group.
Grouped(S, f, key, K, h) ==
  /\ \A x \in S : f[x] \in Int /\ key[x] \in K
  /\ \A k \in K : h[k] = SumFunctionOnSet(f, {x \in S : key[x] = k})

\* A sum taken group by group.
LEMMA SumGroups ==
  ASSUME NEW S, IsFiniteSet(S), NEW K, IsFiniteSet(K), NEW key, NEW f, NEW h,
         Grouped(S, f, key, K, h)
  PROVE  SumFunctionOnSet(h, K) = SumFunctionOnSet(f, S)
<1> DEFINE In(T) == {x \in S : key[x] \in T}
           F == {T \in SUBSET K : SumFunctionOnSet(h, T) = SumFunctionOnSet(f, In(T))}
<1>1. \A T \in SUBSET K : (\A x \in T : T \ {x} \in F) => T \in F
  <2> SUFFICES ASSUME NEW T \in SUBSET K, \A x \in T : T \ {x} \in F
               PROVE  T \in F
    OBVIOUS
  <2>1. IsFiniteSet(T)
    BY FS_Subset
  <2>2. CASE T = {}
    <3>1. In(T) = {}
      BY <2>2
    <3> QED BY <2>2, <3>1, SumEmpty
  <2>3. CASE T # {}
    <3> DEFINE p == Pick(T)
               E == {x \in S : key[x] = p}
    <3>1. p \in T
      BY <2>3 DEF Pick
    <3>2. SumFunctionOnSet(h, T) = h[p] + SumFunctionOnSet(h, T \ {p})
      BY <2>1, <2>3, SumRecursion
    <3> HIDE DEF p
    <3>3. SumFunctionOnSet(h, T \ {p}) = SumFunctionOnSet(f, In(T \ {p}))
      BY <3>1
    <3>4. E \subseteq In(T) /\ In(T) \ E = In(T \ {p}) /\ In(T) \subseteq S
          /\ \A x \in In(T) : f[x] \in Int
      BY <3>1 DEF Grouped
    <3>5. h[p] = SumFunctionOnSet(f, E)
      BY <3>1 DEF Grouped
    <3> HIDE DEF In, E
    <3>6. IsFiniteSet(In(T))
      BY <3>4, FS_Subset
    <3>7. SumFunctionOnSet(f, In(T)) =
            SumFunctionOnSet(f, E) + SumFunctionOnSet(f, In(T) \ E)
      BY <3>4, <3>6, SumUnion
    <3> QED BY <3>2, <3>3, <3>4, <3>5, <3>7
  <2> QED BY <2>2, <2>3
<1> HIDE DEF F
<1>2. K \in F
  BY <1>1, SubsetInduction
<1>3. In(K) = S
  BY DEF Grouped
<1> HIDE DEF In
<1> QED BY <1>2, <1>3 DEF F

-----------------------------------------------------------------------------
(* Lists in order.                                                          *)

\* The members of a finite set have ranks 0, 1, ...: P gives those before each.
LEMMA Ranks ==
  ASSUME NEW S, IsFiniteSet(S), NEW P,
         \A x \in S : P[x] \subseteq S /\ x \notin P[x],
         \A x, y \in S : y \in P[x] => P[y] \subseteq P[x],
         \A x, y \in S : x = y \/ x \in P[y] \/ y \in P[x]
  PROVE  /\ \A i \in 1 .. Cardinality(S) : \E x \in S : Cardinality(P[x]) = i - 1
         /\ \A x \in S : Cardinality(P[x]) + 1 \in 1 .. Cardinality(S)
         /\ \A x, y \in S : Cardinality(P[x]) = Cardinality(P[y]) => x = y
<1> DEFINE n == Cardinality(S)
           r == [x \in S |-> Cardinality(P[x]) + 1]
<1>1. n \in Nat
  BY FS_CardinalityType
<1>2. \A x \in S : IsFiniteSet(P[x]) /\ Cardinality(P[x]) \in Nat
  BY FS_Subset, FS_CardinalityType
<1>3. \A x \in S : Cardinality(P[x]) < n
  <2> SUFFICES ASSUME NEW x \in S PROVE Cardinality(P[x]) < n
    OBVIOUS
  <2>1. P[x] \in SUBSET S /\ P[x] # S
    OBVIOUS
  <2>2. Cardinality(P[x]) =< n /\ (n = Cardinality(P[x]) => S = P[x])
    BY <2>1, FS_Subset
  <2> HIDE DEF n
  <2> QED BY <1>1, <1>2, <2>1, <2>2
<1>4. \A x, y \in S : y \in P[x] => Cardinality(P[y]) < Cardinality(P[x])
  <2> SUFFICES ASSUME NEW x \in S, NEW y \in P[x], y \in S
               PROVE  Cardinality(P[y]) < Cardinality(P[x])
    OBVIOUS
  <2>1. P[y] \in SUBSET P[x] /\ P[y] # P[x]
    OBVIOUS
  <2>2. /\ Cardinality(P[y]) =< Cardinality(P[x])
        /\ Cardinality(P[x]) = Cardinality(P[y]) => P[x] = P[y]
    BY <1>2, <2>1, FS_Subset
  <2> QED BY <1>2, <2>1, <2>2
<1>5. \A x, y \in S : Cardinality(P[x]) = Cardinality(P[y]) => x = y
  BY <1>2, <1>4
<1>6. \A x \in S : Cardinality(P[x]) + 1 \in 1 .. n
  <2> HIDE DEF n
  <2> QED BY <1>1, <1>2, <1>3
<1>7. r \in Injection(S, 1 .. n)
  <2>1. r \in [S -> 1 .. n]
    BY <1>6
  <2>2. \A x, y \in S : r[x] = r[y] => x = y
    <3> SUFFICES ASSUME NEW x \in S, NEW y \in S, r[x] = r[y] PROVE x = y
      OBVIOUS
    <3>1. Cardinality(P[x]) + 1 = Cardinality(P[y]) + 1
      OBVIOUS
    <3>2. Cardinality(P[x]) = Cardinality(P[y])
      BY <1>2, <3>1
    <3> QED BY <1>5, <3>2
  <2> HIDE DEF r, n
  <2> QED BY <2>1, <2>2 DEF Injection, IsInjective
<1>8. IsFiniteSet(1 .. n) /\ Cardinality(1 .. n) = n
  <2> HIDE DEF n
  <2>1. IsFiniteSet(1 .. n) /\ Cardinality(1 .. n) = IF 1 > n THEN 0 ELSE n - 1 + 1
    BY <1>1, FS_Interval
  <2> QED BY <1>1, <2>1
<1>9. r \in Surjection(S, 1 .. n)
  <2> HIDE DEF r
  <2> QED BY <1>7, <1>8, FS_Injection
<1>10. \A i \in 1 .. n : \E x \in S : Cardinality(P[x]) = i - 1
  <2> SUFFICES ASSUME NEW i \in 1 .. n
               PROVE  \E x \in S : Cardinality(P[x]) = i - 1
    OBVIOUS
  <2>1. \E x \in S : r[x] = i
    <3> HIDE DEF r, n
    <3> QED BY <1>9 DEF Surjection
  <2>2. PICK x \in S : r[x] = i
    BY <2>1
  <2>3. i = Cardinality(P[x]) + 1
    BY <2>2
  <2> HIDE DEF n
  <2> QED BY <1>2, <2>3
<1> QED BY <1>5, <1>6, <1>10

-----------------------------------------------------------------------------
(* The plan of a load.                                                      *)

USE LoaderAssumption

\* The text tensors are finitely many, each within its shard.
LEMMA TextIs ==
  ASSUME Planned
  PROVE  /\ IsFiniteSet(TextTensors) /\ Cardinality(TextTensors) \in Nat
         /\ IsFiniteSet(Indices)
         /\ \A t \in TextTensors :
              /\ t.shard \in Shards /\ t.shard \in Nat
              /\ t.begin \in Nat /\ t.end \in Nat
              /\ t.begin < t.end /\ t.end =< manifest.sizes[t.shard]
         /\ \A t, u \in TextTensors :
              t.shard = u.shard /\ t # u => t.end =< u.begin \/ u.end =< t.begin
<1>1. IsFiniteSet(TextTensors) /\ Cardinality(TextTensors) \in Nat
  <2>1. IsFiniteSet(manifest.tensors) /\ TextTensors \subseteq manifest.tensors
    BY DEF Planned, TextTensors
  <2> QED BY <2>1, FS_Subset, FS_CardinalityType
<1>2. IsFiniteSet(Indices)
  BY <1>1, FS_Interval DEF Indices
<1>3. \A t \in TextTensors : t \in Locator /\ t \in manifest.tensors
  BY DEF Planned, TextTensors
<1>4. \A t \in TextTensors : t.shard \in Nat /\ t.begin \in Nat /\ t.end \in Nat
  BY <1>3 DEF Locator
<1>5. \A t \in TextTensors :
        t.shard \in Shards /\ t.begin < t.end /\ t.end =< manifest.sizes[t.shard]
  BY <1>3 DEF Planned, ValidManifest
<1>6. \A t, u \in TextTensors :
        t.shard = u.shard /\ t # u => t.end =< u.begin \/ u.end =< t.begin
  BY <1>3 DEF Planned, ValidManifest
<1> QED BY <1>1, <1>2, <1>4, <1>5, <1>6

\* Tensors lists the text tensors, each once.
LEMMA TensorsIs ==
  ASSUME Planned
  PROVE  /\ DOMAIN Tensors = Indices
         /\ \A i \in Indices : Tensors[i] \in TextTensors
         /\ \A t \in TextTensors : \E i \in Indices : Tensors[i] = t
         /\ \A i, j \in Indices : Tensors[i] = Tensors[j] => i = j
         /\ Tensors \in Seq(TextTensors) /\ Len(Tensors) = Cardinality(TextTensors)
<1> DEFINE S == TextTensors
           P == [t \in S |-> {u \in S : Before(u, t)}]
           n == Cardinality(S)
<1>1. IsFiniteSet(S) /\ n \in Nat
  BY TextIs
<1>2. /\ \A t \in S : P[t] \subseteq S /\ t \notin P[t]
      /\ \A t, u \in S : u \in P[t] => P[u] \subseteq P[t]
      /\ \A t, u \in S : t = u \/ t \in P[u] \/ u \in P[t]
  <2>1. \A t \in S : ~ Before(t, t)
    BY TextIs DEF Before
  <2>2. \A t, u, v \in S : Before(v, u) /\ Before(u, t) => Before(v, t)
    BY TextIs DEF Before
  <2>3. \A t, u \in S : t = u \/ Before(t, u) \/ Before(u, t)
    <3> SUFFICES ASSUME NEW t \in S, NEW u \in S, t # u
                 PROVE  Before(t, u) \/ Before(u, t)
      OBVIOUS
    <3>1. t.shard = u.shard => t.end =< u.begin \/ u.end =< t.begin
      BY TextIs
    <3>2. /\ t.shard \in Nat /\ t.begin \in Nat /\ t.end \in Nat /\ t.begin < t.end
          /\ u.shard \in Nat /\ u.begin \in Nat /\ u.end \in Nat /\ u.begin < u.end
      BY TextIs
    <3> QED BY <3>1, <3>2 DEF Before
  <2> HIDE DEF S
  <2> QED BY <2>1, <2>2, <2>3
<1> HIDE DEF P
<1>3. /\ \A i \in 1 .. n : \E x \in S : Cardinality(P[x]) = i - 1
      /\ \A x \in S : Cardinality(P[x]) + 1 \in 1 .. n
      /\ \A x, y \in S : Cardinality(P[x]) = Cardinality(P[y]) => x = y
  BY <1>1, <1>2, Ranks
<1>4. Tensors = [i \in 1 .. n |-> CHOOSE x \in S : Cardinality({y \in S : Before(y, x)}) = i - 1]
  BY DEF Tensors, InOrder, TextTensors, Before
<1>5. \A x \in S : P[x] = {y \in S : Before(y, x)}
  BY DEF P
<1> HIDE DEF S, n
<1>6. \A i \in 1 .. n : Tensors[i] \in S /\ Cardinality(P[Tensors[i]]) = i - 1
  <2> SUFFICES ASSUME NEW i \in 1 .. n
               PROVE  Tensors[i] \in S /\ Cardinality(P[Tensors[i]]) = i - 1
    OBVIOUS
  <2>1. \E x \in S : Cardinality({y \in S : Before(y, x)}) = i - 1
    BY <1>3, <1>5
  <2>2. Tensors[i] = CHOOSE x \in S : Cardinality({y \in S : Before(y, x)}) = i - 1
    BY <1>4
  <2>3. Tensors[i] \in S /\ Cardinality({y \in S : Before(y, Tensors[i])}) = i - 1
    BY <2>1, <2>2
  <2> QED BY <1>5, <2>3
<1>7. \A t \in S : \E i \in 1 .. n : Tensors[i] = t
  <2> SUFFICES ASSUME NEW t \in S PROVE \E i \in 1 .. n : Tensors[i] = t
    OBVIOUS
  <2> DEFINE i == Cardinality(P[t]) + 1
  <2>1. i \in 1 .. n
    BY <1>3
  <2>2. Cardinality(P[t]) \in Int
    <3>1. P[t] \in SUBSET S
      BY <1>2
    <3> QED BY <1>1, <3>1, FS_Subset, FS_CardinalityType
  <2>3. Tensors[i] \in S /\ Cardinality(P[Tensors[i]]) = i - 1
    BY <1>6, <2>1
  <2>4. i - 1 = Cardinality(P[t])
    BY <2>2
  <2>5. Tensors[i] = t
    BY <1>3, <2>3, <2>4
  <2> QED BY <2>1, <2>5
<1>8. \A i, j \in 1 .. n : Tensors[i] = Tensors[j] => i = j
  <2> SUFFICES ASSUME NEW i \in 1 .. n, NEW j \in 1 .. n, Tensors[i] = Tensors[j]
               PROVE  i = j
    OBVIOUS
  <2>1. i - 1 = j - 1
    BY <1>6
  <2> QED BY <1>1, <2>1
<1>9. Tensors \in Seq(S) /\ Len(Tensors) = n /\ DOMAIN Tensors = 1 .. n
  <2>1. Tensors \in [1 .. n -> S]
    BY <1>4, <1>6
  <2> QED BY <1>1, <2>1
<1> QED BY <1>6, <1>7, <1>8, <1>9 DEF S, n, Indices

\* The fields of a listed tensor.
LEMMA TensorIs ==
  ASSUME Planned, NEW i \in Indices
  PROVE  /\ Tensors[i].shard \in Shards
         /\ Tensors[i].begin \in Nat /\ Tensors[i].end \in Nat
         /\ Tensors[i].begin < Tensors[i].end
         /\ Tensors[i].end =< manifest.sizes[Tensors[i].shard]
         /\ Bytes(Tensors[i]) \in Nat \ {0}
<1>1. Tensors[i] \in TextTensors
  BY TensorsIs
<1>2. /\ Tensors[i].shard \in Shards
      /\ Tensors[i].begin \in Nat /\ Tensors[i].end \in Nat
      /\ Tensors[i].begin < Tensors[i].end
      /\ Tensors[i].end =< manifest.sizes[Tensors[i].shard]
  BY <1>1, TextIs
<1> QED BY <1>2 DEF Bytes

\* Rounding up to the alignment.
LEMMA AlignUpIs ==
  ASSUME NEW n \in Nat
  PROVE  AlignUp(n) \in Nat /\ n =< AlignUp(n) /\ \E k \in Nat : AlignUp(n) = k * Alignment
<1> DEFINE x == n + Alignment - 1
           q == x \div Alignment
<1>1. x \in Nat /\ Alignment \in Nat \ {0}
  OBVIOUS
<1>2. q \in Nat /\ x < q * Alignment + Alignment
  <2> HIDE DEF x
  <2> QED BY <1>1
<1>3. AlignUp(n) = q * Alignment
  BY DEF AlignUp
<1> HIDE DEF q
<1>4. q * Alignment \in Nat
  BY <1>2
<1>5. n =< q * Alignment
  <2> DEFINE m == q * Alignment
  <2> HIDE DEF m
  <2>1. m \in Nat /\ x < m + Alignment
    BY <1>2, <1>4 DEF m
  <2>2. n =< m
    BY <2>1
  <2> QED BY <2>2 DEF m
<1> QED BY <1>2, <1>3, <1>4, <1>5

\* A sum over a list is a sum over its indices.
LEMMA TotalIs ==
  ASSUME NEW n \in Nat, NEW s, DOMAIN s = 1 .. n, NEW f, \A i \in 1 .. n : f[i] = s[i],
         \A i \in 1 .. n : s[i] \in Int
  PROVE  SumFunction(s) = SumFunctionOnSet(f, 1 .. n)
<1>1. IsFiniteSet(1 .. n)
  BY FS_Interval
<1>2. SumFunctionOnSet(s, 1 .. n) = SumFunctionOnSet(f, 1 .. n)
  BY <1>1, SumSame
<1> QED BY <1>2 DEF SumFunction

\* A tensor starts where the rooms before it end, and the arena ends after the
\* last room.
LEMMA OffsetIs ==
  ASSUME Planned
  PROVE  /\ \A i \in Indices : ArenaOffset(i) = SumFunctionOnSet(Room, 1 .. i - 1)
         /\ ArenaBytes = SumFunctionOnSet(Room, Indices)
         /\ \A i \in Indices : /\ Room[i] \in Nat /\ Bytes(Tensors[i]) =< Room[i]
                               /\ \E k \in Nat : Room[i] = k * Alignment
<1>1. \A i \in Indices : /\ Room[i] \in Nat /\ Bytes(Tensors[i]) =< Room[i]
                         /\ \E k \in Nat : Room[i] = k * Alignment
  <2> SUFFICES ASSUME NEW i \in Indices
               PROVE  /\ Room[i] \in Nat /\ Bytes(Tensors[i]) =< Room[i]
                      /\ \E k \in Nat : Room[i] = k * Alignment
    OBVIOUS
  <2>1. Bytes(Tensors[i]) \in Nat
    BY TensorIs
  <2>2. Room[i] = AlignUp(Bytes(Tensors[i]))
    BY DEF Room, Aligned
  <2> QED BY <2>1, <2>2, AlignUpIs
<1>2. /\ Tensors \in Seq(TextTensors) /\ Len(Tensors) \in Nat
      /\ Indices = 1 .. Len(Tensors) /\ DOMAIN Tensors = Indices
  BY TensorsIs, TextIs DEF Indices
<1>3. ArenaBytes = SumFunctionOnSet(Room, Indices)
  <2> DEFINE s == [i \in DOMAIN Tensors |-> Aligned(Tensors[i])]
  <2>1. ArenaBytes = SumFunction(s)
    BY DEF ArenaBytes, Total
  <2>2. DOMAIN s = 1 .. Len(Tensors)
    BY <1>2
  <2>3. \A i \in 1 .. Len(Tensors) : Room[i] = s[i] /\ s[i] \in Int
    <3>1. \A i \in Indices : Room[i] = s[i]
      BY <1>2 DEF Room
    <3> HIDE DEF s
    <3> QED BY <1>1, <1>2, <3>1
  <2> HIDE DEF s
  <2> QED BY <1>2, <2>1, <2>2, <2>3, TotalIs
<1>4. ASSUME NEW i \in Indices
      PROVE  ArenaOffset(i) = SumFunctionOnSet(Room, 1 .. i - 1)
  <2> DEFINE u == SubSeq(Tensors, 1, i - 1)
             s == [k \in DOMAIN u |-> Aligned(u[k])]
  <2>1. ArenaOffset(i) = SumFunction(s)
    BY DEF ArenaOffset, Total
  <2>2. i \in 1 .. Len(Tensors) /\ i - 1 \in Nat /\ 1 .. i - 1 \subseteq Indices
    BY <1>2
  <2>3. DOMAIN u = 1 .. i - 1 /\ \A k \in 1 .. i - 1 : u[k] = Tensors[k]
    BY <1>2, <2>2
  <2> HIDE DEF u
  <2>4. \A k \in 1 .. i - 1 : Room[k] = s[k] /\ s[k] \in Int
    <3>1. \A k \in 1 .. i - 1 : Room[k] = s[k]
      BY <2>2, <2>3 DEF Room
    <3> HIDE DEF s
    <3> QED BY <1>1, <2>2, <3>1
  <2>5. DOMAIN s = 1 .. i - 1
    BY <2>3
  <2> HIDE DEF s
  <2> QED BY <2>1, <2>2, <2>4, <2>5, TotalIs
<1> QED BY <1>1, <1>3, <1>4

\* The places of the tensors in the arena are apart.
LEMMA PlacesApart ==
  ASSUME Planned
  PROVE  /\ ArenaBytes \in Nat
         /\ \A i \in Indices :
              /\ ArenaOffset(i) \in Nat
              /\ ArenaOffset(i) + Bytes(Tensors[i]) =< ArenaBytes
         /\ \A i, j \in Indices : i < j =>
              ArenaOffset(i) + Bytes(Tensors[i]) =< ArenaOffset(j)
<1> DEFINE Sum(n) == SumFunctionOnSet(Room, 1 .. n)
           N == Cardinality(TextTensors)
<1>1. N \in Nat /\ Indices = 1 .. N
  BY TextIs DEF Indices
<1>2. \A i \in Indices : Room[i] \in Nat /\ Bytes(Tensors[i]) \in Nat
                         /\ Bytes(Tensors[i]) =< Room[i]
  BY OffsetIs, TensorIs
<1> HIDE DEF N
<1>3. \A n \in 0 .. N : Sum(n) \in Nat
  <2> SUFFICES ASSUME NEW n \in 0 .. N PROVE Sum(n) \in Nat
    OBVIOUS
  <2>1. \A i \in 1 .. n : Room[i] \in Nat
    BY <1>1, <1>2
  <2>2. IsFiniteSet(1 .. n)
    BY <1>1, FS_Interval
  <2> QED BY <2>1, <2>2, SumPart
<1>4. \A m, n \in 0 .. N : m =< n => Sum(m) =< Sum(n)
  <2> SUFFICES ASSUME NEW m \in 0 .. N, NEW n \in 0 .. N, m =< n
               PROVE  Sum(m) =< Sum(n)
    OBVIOUS
  <2>1. IsFiniteSet(1 .. n) /\ (\A i \in 1 .. n : Room[i] \in Nat)
        /\ 1 .. m \subseteq 1 .. n
    BY <1>1, <1>2, FS_Interval
  <2> QED BY <2>1, SumPart
<1>5. \A i \in Indices : Sum(i) = Room[i] + Sum(i - 1)
  <2> SUFFICES ASSUME NEW i \in Indices PROVE Sum(i) = Room[i] + Sum(i - 1)
    OBVIOUS
  <2>1. i \in 1 .. N
    BY <1>1
  <2>2. IsFiniteSet(1 .. i)
    BY <1>1, <2>1, FS_Interval
  <2>3. \A k \in 1 .. i : Room[k] \in Int
    BY <1>1, <1>2, <2>1
  <2>4. i \in 1 .. i /\ (1 .. i) \ {i} = 1 .. i - 1
    BY <1>1, <2>1
  <2> QED BY <2>2, <2>3, <2>4, SumRemove
<1>6. /\ \A i \in Indices : ArenaOffset(i) = Sum(i - 1)
      /\ ArenaBytes = Sum(N)
  BY <1>1, OffsetIs
<1> HIDE DEF Sum
<1>7. \A i \in Indices : ArenaOffset(i) \in Nat
        /\ ArenaOffset(i) + Bytes(Tensors[i]) =< Sum(i)
  <2> SUFFICES ASSUME NEW i \in Indices
               PROVE  ArenaOffset(i) \in Nat
                      /\ ArenaOffset(i) + Bytes(Tensors[i]) =< Sum(i)
    OBVIOUS
  <2>1. i - 1 \in 0 .. N
    BY <1>1
  <2>2. /\ Sum(i - 1) \in Nat /\ Sum(i) = Room[i] + Sum(i - 1)
        /\ ArenaOffset(i) = Sum(i - 1)
        /\ Room[i] \in Nat /\ Bytes(Tensors[i]) \in Nat /\ Bytes(Tensors[i]) =< Room[i]
    BY <1>2, <1>3, <1>5, <1>6, <2>1
  <2> QED BY <2>2
<1>8. \A i \in Indices : Sum(i) \in Nat /\ Sum(i) =< Sum(N) /\ Bytes(Tensors[i]) \in Nat
  BY <1>1, <1>2, <1>3, <1>4
<1>9. \A i, j \in Indices : i < j => Sum(i) =< Sum(j - 1) /\ Sum(j - 1) \in Nat
  BY <1>1, <1>3, <1>4
<1>10. Sum(N) \in Nat
  BY <1>1, <1>3
<1>11. \A i \in Indices : ArenaOffset(i) + Bytes(Tensors[i]) =< ArenaBytes
  BY <1>6, <1>7, <1>8, <1>10
<1>12. \A i, j \in Indices : i < j => ArenaOffset(i) + Bytes(Tensors[i]) =< ArenaOffset(j)
  BY <1>6, <1>7, <1>8, <1>9
<1> QED BY <1>6, <1>7, <1>10, <1>11, <1>12

\* A sum of multiples.
LEMMA SumMultiple ==
  ASSUME NEW S, IsFiniteSet(S), NEW f, NEW d \in Nat,
         \A x \in S : \E k \in Nat : f[x] = k * d
  PROVE  \E k \in Nat : SumFunctionOnSet(f, S) = k * d
<1> DEFINE F == {T \in SUBSET S : \E k \in Nat : SumFunctionOnSet(f, T) = k * d}
<1>1. \A T \in SUBSET S : (\A x \in T : T \ {x} \in F) => T \in F
  <2> SUFFICES ASSUME NEW T \in SUBSET S, \A x \in T : T \ {x} \in F
               PROVE  T \in F
    OBVIOUS
  <2>1. IsFiniteSet(T)
    BY FS_Subset
  <2>2. CASE T = {}
    <3>1. SumFunctionOnSet(f, T) = 0 * d
      BY <2>2, SumEmpty
    <3> QED BY <3>1
  <2>3. CASE T # {}
    <3> DEFINE p == Pick(T)
    <3>1. p \in T
      BY <2>3 DEF Pick
    <3>2. SumFunctionOnSet(f, T) = f[p] + SumFunctionOnSet(f, T \ {p})
      BY <2>1, <2>3, SumRecursion
    <3>3. PICK k \in Nat : SumFunctionOnSet(f, T \ {p}) = k * d
      BY <3>1
    <3>4. PICK l \in Nat : f[p] = l * d
      BY <3>1
    <3>5. l * d + k * d = (l + k) * d /\ l + k \in Nat
      OBVIOUS
    <3> QED BY <3>2, <3>3, <3>4, <3>5
  <2> QED BY <2>2, <2>3
<1> HIDE DEF F
<1>2. S \in F
  BY <1>1, SubsetInduction
<1> QED BY <1>2 DEF F

\* Every tensor is aligned.
LEMMA OffsetsAligned ==
  ASSUME Planned, NEW i \in Indices
  PROVE  ArenaOffset(i) % Alignment = 0
<1>1. i \in 1 .. Cardinality(TextTensors) /\ Cardinality(TextTensors) \in Nat
  BY TextIs DEF Indices
<1> DEFINE S == 1 .. i - 1
<1>2. IsFiniteSet(S)
  BY <1>1, FS_Interval
<1>3. \A k \in S : \E q \in Nat : Room[k] = q * Alignment
  <2>1. S \subseteq Indices
    BY <1>1 DEF Indices
  <2> QED BY <2>1, OffsetIs
<1>4. Alignment \in Nat \ {0} /\ Alignment \in Nat
  OBVIOUS
<1>5. \E q \in Nat : ArenaOffset(i) = q * Alignment
  <2>1. ArenaOffset(i) = SumFunctionOnSet(Room, S)
    BY OffsetIs
  <2> HIDE DEF S
  <2>2. \E q \in Nat : SumFunctionOnSet(Room, S) = q * Alignment
    BY <1>2, <1>3, <1>4, SumMultiple
  <2> QED BY <2>1, <2>2
<1>6. PICK q \in Nat : ArenaOffset(i) = q * Alignment
  BY <1>5
<1>7. (q * Alignment) % Alignment = 0
  <2>1. \A a \in Nat, d \in Nat \ {0} : (a * d) % d = 0
    OBVIOUS
  <2> QED BY <1>4, <2>1
<1> QED BY <1>6, <1>7

\* Intervals that do not overlap fit below the last end.
LEMMA Packed ==
  ASSUME NEW S, IsFiniteSet(S), NEW b, NEW e, NEW f, NEW m \in Nat,
         \A x \in S : b[x] \in Nat /\ e[x] \in Nat /\ b[x] < e[x] /\ e[x] =< m
                      /\ f[x] = e[x] - b[x],
         \A x, y \in S : x # y => e[x] =< b[y] \/ e[y] =< b[x]
  PROVE  SumFunctionOnSet(f, S) =< m
<1> DEFINE F == {T \in SUBSET S : \A k \in 0 .. m :
                   (\A x \in T : e[x] =< k) => SumFunctionOnSet(f, T) =< k}
<1>1. \A T \in SUBSET S : (\A x \in T : T \ {x} \in F) => T \in F
  <2> SUFFICES ASSUME NEW T \in SUBSET S, \A x \in T : T \ {x} \in F,
                      NEW k \in 0 .. m, \A x \in T : e[x] =< k
               PROVE  SumFunctionOnSet(f, T) =< k
    OBVIOUS
  <2>1. IsFiniteSet(T)
    BY FS_Subset
  <2>2. CASE T = {}
    BY <2>2, SumEmpty
  <2>3. CASE T # {}
    <3> DEFINE D == {m - e[x] : x \in T}
    <3>1. D \subseteq Nat /\ D # {}
      BY <2>3
    <3>2. Min(D) \in D /\ \A y \in D : Min(D) =< y
      <4> HIDE DEF D
      <4> QED BY <3>1, Least
    <3>3. PICK p \in T : Min(D) = m - e[p]
      BY <3>2
    <3>4. \A x \in T : e[x] =< e[p]
      <4> SUFFICES ASSUME NEW x \in T PROVE e[x] =< e[p]
        OBVIOUS
      <4>1. m - e[p] =< m - e[x]
        BY <3>2, <3>3
      <4>2. e[x] \in Nat /\ e[p] \in Nat
        OBVIOUS
      <4> QED BY <4>1, <4>2
    <3>5. \A x \in T \ {p} : e[x] =< b[p]
      <4> SUFFICES ASSUME NEW x \in T \ {p} PROVE e[x] =< b[p]
        OBVIOUS
      <4>1. e[x] =< e[p] /\ (e[x] =< b[p] \/ e[p] =< b[x])
        BY <3>4
      <4>2. e[x] \in Nat /\ e[p] \in Nat /\ b[x] \in Nat /\ b[x] < e[x]
        OBVIOUS
      <4> QED BY <4>1, <4>2
    <3>6. b[p] \in 0 .. m /\ b[p] \in Nat /\ e[p] \in Nat /\ f[p] = e[p] - b[p] /\ e[p] =< k
      OBVIOUS
    <3>7. SumFunctionOnSet(f, T \ {p}) =< b[p]
      BY <3>5, <3>6
    <3>8. \A x \in T : f[x] \in Int
      OBVIOUS
    <3>9. SumFunctionOnSet(f, T) = f[p] + SumFunctionOnSet(f, T \ {p})
      BY <2>1, <3>8, SumRemove
    <3>10. SumFunctionOnSet(f, T \ {p}) \in Int
      <4>1. IsFiniteSet(T \ {p})
        BY <2>1, FS_RemoveElement
      <4> QED BY <3>8, <4>1, SumType
    <3> QED BY <3>6, <3>7, <3>9, <3>10
  <2> QED BY <2>2, <2>3
<1> HIDE DEF F
<1>2. S \in F
  BY <1>1, SubsetInduction
<1>3. m \in 0 .. m
  OBVIOUS
<1> QED BY <1>2, <1>3 DEF F

-----------------------------------------------------------------------------
(* Chunks of a shard.                                                       *)

\* The larger of two.
LEMMA MaxOfTwo ==
  ASSUME NEW a \in Int, NEW b \in Int
  PROVE  Max({a, b}) = IF a >= b THEN a ELSE b
<1>1. \E x \in {a, b} : \A y \in {a, b} : x >= y
  <2>1. a >= b \/ b >= a
    OBVIOUS
  <2> QED BY <2>1
<1>2. Max({a, b}) \in {a, b} /\ \A y \in {a, b} : Max({a, b}) >= y
  BY <1>1 DEF Max
<1> QED BY <1>2

\* The smaller of two.
LEMMA MinIs ==
  ASSUME NEW a \in Int, NEW b \in Int
  PROVE  Min({a, b}) = IF a =< b THEN a ELSE b
<1>1. Min({a, b}) \in {a, b} /\ Min({a, b}) =< a /\ Min({a, b}) =< b
  BY MinOfTwo
<1>2. \A z \in {a, b} : z =< a /\ z =< b => z = IF a =< b THEN a ELSE b
  OBVIOUS
<1> QED BY <1>1, <1>2, Zenon

\* The tensors of a shard that a chunk touches.
Touched(s, from, to) ==
  {i \in Indices : /\ Tensors[i].shard = s
                   /\ Tensors[i].begin < to /\ from < Tensors[i].end}

\* Where the part of tensor i in a chunk begins and ends.
Lo(i, from) == IF Tensors[i].begin >= from THEN Tensors[i].begin ELSE from
Hi(i, to) == IF Tensors[i].end =< to THEN Tensors[i].end ELSE to

CopyOf(i, from, to) ==
  [at |-> ArenaOffset(i) + (Lo(i, from) - Tensors[i].begin),
   from |-> Lo(i, from) - from, bytes |-> Hi(i, to) - Lo(i, from)]

CopiesOf(X, c, r, from, to) ==
  /\ Listing(r, 1 .. Cardinality(X), X)
  /\ \A k \in 1 .. Cardinality(X) : c[k] = CopyOf(r[k], from, to)

\* The scatter loop queues one copy for every tensor the chunk touches.
LEMMA ScatterIs ==
  ASSUME Planned, NEW s, NEW from \in Nat, NEW to \in Nat
  PROVE  LET X == Touched(s, from, to)
             m == Cardinality(X)
             c == Scatter(s, from, to)
         IN  /\ IsFiniteSet(X) /\ m \in Nat
             /\ DOMAIN c = 1 .. m /\ Len(c) = m
             /\ \E r : CopiesOf(X, c, r, from, to)
<1> DEFINE X == Touched(s, from, to)
           m == Cardinality(X)
           P == [x \in X |-> {y \in X : y < x}]
           r == [k \in 1 .. m |-> CHOOSE x \in X : Cardinality({y \in X : y < x}) = k - 1]
<1>1. X \subseteq Indices /\ X \subseteq Nat
  BY TextIs DEF Touched, Indices
<1>2. IsFiniteSet(X) /\ m \in Nat
  <2> HIDE DEF X
  <2>1. IsFiniteSet(Indices)
    BY TextIs
  <2> QED BY <1>1, <2>1, FS_Subset, FS_CardinalityType
<1> HIDE DEF X
<1>3. /\ \A x \in X : P[x] \subseteq X /\ x \notin P[x]
      /\ \A x, y \in X : y \in P[x] => P[y] \subseteq P[x]
      /\ \A x, y \in X : x = y \/ x \in P[y] \/ y \in P[x]
  <2>1. \A x, y, z \in X : x < y /\ y < z => x < z
    BY <1>1
  <2>2. \A x, y \in X : (x = y \/ x < y \/ y < x) /\ ~ (x < x)
    BY <1>1
  <2> QED BY <2>1, <2>2
<1>4. \A x \in X : P[x] = {y \in X : y < x}
  OBVIOUS
<1> HIDE DEF P
<1>5. /\ \A k \in 1 .. m : \E x \in X : Cardinality(P[x]) = k - 1
      /\ \A x \in X : Cardinality(P[x]) + 1 \in 1 .. m
      /\ \A x, y \in X : Cardinality(P[x]) = Cardinality(P[y]) => x = y
  BY <1>2, <1>3, Ranks
<1>6. \A x \in X : Cardinality(P[x]) \in Nat
  <2>1. \A x \in X : P[x] \in SUBSET X
    BY <1>3
  <2> QED BY <1>2, <2>1, FS_Subset, FS_CardinalityType
<1> HIDE DEF m
<1>7. ASSUME NEW k \in 1 .. m
      PROVE  r[k] \in X /\ Cardinality(P[r[k]]) = k - 1
  <2>1. \E x \in X : Cardinality({y \in X : y < x}) = k - 1
    BY <1>4, <1>5
  <2>2. r[k] = CHOOSE x \in X : Cardinality({y \in X : y < x}) = k - 1
    OBVIOUS
  <2> HIDE DEF r
  <2>3. r[k] \in X /\ Cardinality({y \in X : y < r[k]}) = k - 1
    BY <2>1, <2>2
  <2> QED BY <1>4, <2>3
<1>8. \A i \in X : \E k \in 1 .. m : r[k] = i
  <2> SUFFICES ASSUME NEW i \in X PROVE \E k \in 1 .. m : r[k] = i
    OBVIOUS
  <2> DEFINE k == Cardinality(P[i]) + 1
  <2>1. k \in 1 .. m /\ k - 1 = Cardinality(P[i])
    BY <1>5, <1>6
  <2> HIDE DEF k, r
  <2>2. r[k] \in X /\ Cardinality(P[r[k]]) = k - 1
    BY <1>7, <2>1
  <2>3. r[k] = i
    BY <1>5, <2>1, <2>2
  <2> QED BY <2>1, <2>3
<1>9. \A k, l \in 1 .. m : r[k] = r[l] => k = l
  <2> SUFFICES ASSUME NEW k \in 1 .. m, NEW l \in 1 .. m, r[k] = r[l] PROVE k = l
    OBVIOUS
  <2> HIDE DEF r
  <2>1. k - 1 = l - 1
    BY <1>7
  <2> QED BY <1>2, <2>1
<1>10. /\ DOMAIN r = 1 .. m /\ Len(r) = m
  <2>1. r \in Seq(X)
    <3>1. r \in [1 .. m -> X]
      BY <1>7
    <3> HIDE DEF r
    <3> QED BY <1>2, <3>1
  <2> QED BY <1>2, <2>1
<1> DEFINE cp(i) == LET t == Tensors[i]
                        begin == Max({t.begin, from})
                    IN  [at |-> ArenaOffset(i) + (begin - t.begin),
                         from |-> begin - from,
                         bytes |-> Min({t.end, to}) - begin]
<1>11. Scatter(s, from, to) = [k \in 1 .. Len(r) |-> cp(r[k])]
  <2>1. DOMAIN Tensors = Indices
    BY TensorsIs
  <2> QED BY <2>1 DEF Scatter, InOrder, X, m, Touched
<1> HIDE DEF r
<1>12. ASSUME NEW i \in X PROVE cp(i) = CopyOf(i, from, to)
  <2>1. Tensors[i].begin \in Nat /\ Tensors[i].end \in Nat
    BY <1>1, TensorIs
  <2>2. Max({Tensors[i].begin, from}) = Lo(i, from)
    BY <2>1, MaxOfTwo DEF Lo
  <2>3. Min({Tensors[i].end, to}) = Hi(i, to)
    BY <2>1, MinIs DEF Hi
  <2> QED BY <2>2, <2>3 DEF CopyOf
<1> HIDE DEF cp
<1>13. \A k \in 1 .. m : r[k] \in X /\ Scatter(s, from, to)[k] = CopyOf(r[k], from, to)
  BY <1>7, <1>10, <1>11, <1>12
<1>14. DOMAIN Scatter(s, from, to) = 1 .. m /\ Len(Scatter(s, from, to)) = m
  BY <1>2, <1>10, <1>11
<1>15. Listing(r, 1 .. m, X)
  BY <1>8, <1>9, <1>13 DEF Listing
<1>16. CopiesOf(X, Scatter(s, from, to), r, from, to)
  BY <1>13, <1>15 DEF CopiesOf, m
<1> QED BY <1>2, <1>14, <1>16 DEF X, m

\* Both are numbers, and the tensors of a shard are finitely many.
LEMMA PartTypes ==
  ASSUME Planned
  PROVE  /\ \A i \in Indices : /\ FirstChunk(i) \in Nat /\ LastChunk(i) \in Nat
                               /\ FirstChunk(i) =< LastChunk(i)
         /\ \A i \in Indices, o \in Nat : Part(i, o) \in Nat /\ Hits(i, o) \in Nat
         /\ \A s : IsFiniteSet(Index(s)) /\ Index(s) \subseteq Indices
<1>1. ASSUME NEW i \in Indices
      PROVE  /\ FirstChunk(i) \in Nat /\ LastChunk(i) \in Nat
             /\ FirstChunk(i) =< LastChunk(i)
  <2> DEFINE b == Tensors[i].begin
             e == Tensors[i].end - 1
  <2>1. b \in Nat /\ e \in Nat /\ b =< e /\ ChunkBytes \in Nat \ {0}
    BY TensorIs
  <2>2. \A x, y \in Nat, d \in Nat \ {0} : x =< y => x \div d =< y \div d
    <3> SUFFICES ASSUME NEW x \in Nat, NEW y \in Nat, NEW d \in Nat \ {0}, x =< y
                 PROVE  x \div d =< y \div d
      OBVIOUS
    <3> DEFINE p == x \div d
               q == y \div d
    <3>1. p \in Nat /\ q \in Nat /\ p * d =< x /\ y < q * d + d
      OBVIOUS
    <3> HIDE DEF p, q
    <3>2. p * d < (q + 1) * d
      <4>1. (q + 1) * d = q * d + d /\ p * d \in Nat /\ q * d \in Nat
        BY <3>1
      <4> QED BY <3>1, <4>1
    <3>3. p < q + 1
      BY <3>1, <3>2
    <3> QED BY <3>1, <3>3 DEF p, q
  <2> HIDE DEF b, e
  <2>3. b \div ChunkBytes \in Nat /\ e \div ChunkBytes \in Nat
    BY <2>1
  <2> QED BY <2>1, <2>2, <2>3 DEF FirstChunk, LastChunk, b, e
<1>2. ASSUME NEW i \in Indices, NEW o \in Nat
      PROVE  Part(i, o) \in Nat /\ Hits(i, o) \in Nat
  BY <1>1, TensorIs DEF Part, Hits, Bytes
<1>3. ASSUME NEW s PROVE IsFiniteSet(Index(s)) /\ Index(s) \subseteq Indices
  <2>1. Index(s) \subseteq Indices
    BY DEF Index
  <2>2. IsFiniteSet(Indices)
    BY TextIs
  <2> QED BY <2>1, <2>2, FS_Subset
<1> QED BY <1>1, <1>2, <1>3

\* A chunk adds the bytes of its copies.
LEMMA PartStep ==
  ASSUME Planned, NEW s, NEW from \in Nat, NEW to \in Nat, from =< to
  PROVE  /\ Total(LAMBDA c : c.bytes, Scatter(s, from, to)) \in Nat
         /\ PartSum(s, to) =
              PartSum(s, from) + Total(LAMBDA c : c.bytes, Scatter(s, from, to))
<1> DEFINE X == Touched(s, from, to)
           m == Cardinality(X)
           c == Scatter(s, from, to)
           D == [i \in Indices |-> IF i \in X THEN Hi(i, to) - Lo(i, from) ELSE 0]
           g == [k \in DOMAIN c |-> c[k].bytes]
<1>1. /\ IsFiniteSet(X) /\ m \in Nat /\ DOMAIN c = 1 .. m
  BY ScatterIs
<1>2. PICK r : CopiesOf(X, c, r, from, to)
  BY ScatterIs
<1>3. X \subseteq Index(s) /\ Index(s) \subseteq Indices /\ IsFiniteSet(Index(s))
  BY PartTypes DEF Touched, Index
<1>4. \A i \in Index(s) : /\ Parts(from)[i] \in Int /\ D[i] \in Nat
                          /\ Parts(to)[i] = Parts(from)[i] + D[i]
  <2> SUFFICES ASSUME NEW i \in Index(s)
               PROVE  /\ Parts(from)[i] \in Int /\ D[i] \in Nat
                      /\ Parts(to)[i] = Parts(from)[i] + D[i]
    OBVIOUS
  <2>1. i \in Indices /\ Tensors[i].shard = s
    BY DEF Index
  <2>2. /\ Tensors[i].begin \in Nat /\ Tensors[i].end \in Nat
        /\ Tensors[i].begin < Tensors[i].end
    BY <2>1, TensorIs
  <2>3. i \in X <=> Tensors[i].begin < to /\ from < Tensors[i].end
    BY <2>1 DEF Touched
  <2>4. /\ Parts(from)[i] = Part(i, from) /\ Parts(to)[i] = Part(i, to)
        /\ D[i] = IF i \in X THEN Hi(i, to) - Lo(i, from) ELSE 0
    BY <2>1 DEF Parts
  <2> HIDE DEF X, D
  <2> DEFINE b == Tensors[i].begin
             e == Tensors[i].end
  <2>5. /\ Part(i, from) = IF from =< b THEN 0 ELSE IF from >= e THEN e - b ELSE from - b
        /\ Part(i, to) = IF to =< b THEN 0 ELSE IF to >= e THEN e - b ELSE to - b
        /\ Hi(i, to) = (IF e =< to THEN e ELSE to)
        /\ Lo(i, from) = (IF b >= from THEN b ELSE from)
    BY DEF Part, Hi, Lo, Bytes
  <2>6. b \in Nat /\ e \in Nat /\ b < e /\ (i \in X <=> b < to /\ from < e)
    BY <2>2, <2>3
  <2> HIDE DEF b, e
  <2>7. CASE i \in X
    BY <2>4, <2>5, <2>6, <2>7
  <2>8. CASE i \notin X
    BY <2>4, <2>5, <2>6, <2>8
  <2> QED BY <2>7, <2>8
<1>5. \A i \in Index(s) \ X : D[i] = 0
  BY <1>3
<1>6. \A k \in 1 .. m : g[k] = D[r[k]] /\ D[r[k]] \in Int
  <2> SUFFICES ASSUME NEW k \in 1 .. m PROVE g[k] = D[r[k]] /\ D[r[k]] \in Int
    OBVIOUS
  <2>1. r[k] \in X /\ c[k] = CopyOf(r[k], from, to) /\ r[k] \in Indices
    BY <1>2, <1>3 DEF CopiesOf, Listing
  <2>2. g[k] = Hi(r[k], to) - Lo(r[k], from)
    BY <1>1, <2>1 DEF CopyOf
  <2>3. D[r[k]] = Hi(r[k], to) - Lo(r[k], from)
    BY <2>1
  <2>4. D[r[k]] \in Int
    <3>1. r[k] \in Index(s)
      BY <1>3, <2>1
    <3> HIDE DEF D
    <3> QED BY <1>4, <3>1
  <2> QED BY <2>2, <2>3, <2>4
<1>7. Total(LAMBDA d : d.bytes, c) = SumFunctionOnSet(g, 1 .. m)
  BY <1>1 DEF Total, SumFunction
<1> HIDE DEF X, m, c, D, g
<1>8. SumFunctionOnSet(g, 1 .. m) = SumFunctionOnSet(D, X)
  <2>1. IsFiniteSet(1 .. m)
    BY <1>1, FS_Interval
  <2>2. Listing(r, 1 .. m, X)
    BY <1>2 DEF CopiesOf, m
  <2> DEFINE K == 1 .. m
  <2>3. IsFiniteSet(K) /\ Listing(r, K, X)
        /\ \A k \in K : g[k] = D[r[k]] /\ D[r[k]] \in Int
    BY <1>6, <2>1, <2>2
  <2> HIDE DEF K
  <2>4. SumFunctionOnSet(g, K) = SumFunctionOnSet(D, X)
    BY <2>3, SumReindex
  <2> QED BY <2>4 DEF K
<1>9. SumFunctionOnSet(D, Index(s)) = SumFunctionOnSet(D, X)
  <2>1. \A i \in Index(s) : D[i] \in Int
    BY <1>4
  <2> QED BY <1>3, <1>5, <2>1, SumSupport
<1>10. PartSum(s, to) = PartSum(s, from) + SumFunctionOnSet(D, Index(s))
  <2>1. \A i \in Index(s) : /\ Parts(from)[i] \in Int /\ D[i] \in Int
                            /\ Parts(to)[i] = Parts(from)[i] + D[i]
    BY <1>4
  <2> QED BY <1>3, <2>1, SumPlus DEF PartSum
<1>11. SumFunctionOnSet(D, Index(s)) \in Nat
  BY <1>3, <1>4, SumPart
<1> QED BY <1>7, <1>8, <1>9, <1>10, <1>11 DEF c

\* A chunk number and a place in the file.
LEMMA ChunkOf ==
  ASSUME NEW x \in Nat, NEW q \in Nat
  PROVE  /\ q =< x \div ChunkBytes <=> q * ChunkBytes =< x
         /\ q * ChunkBytes \in Nat /\ (q + 1) * ChunkBytes = q * ChunkBytes + ChunkBytes
<1> DEFINE d == ChunkBytes
           p == x \div d
<1>1. d \in Nat \ {0} /\ p \in Nat /\ p * d =< x /\ x < p * d + d
  OBVIOUS
<1> HIDE DEF d, p
<1>2. q * d \in Nat /\ (q + 1) * d = q * d + d /\ (p + 1) * d = p * d + d /\ p * d \in Nat
  BY <1>1
<1>3. q =< p => q * d =< p * d
  <2> SUFFICES ASSUME q =< p PROVE q * d =< p * d
    OBVIOUS
  <2>1. PICK r \in Nat : p = q + r
    BY <1>1
  <2>2. (q + r) * d = q * d + r * d /\ r * d \in Nat
    BY <1>1
  <2> QED BY <1>2, <2>1, <2>2
<1>4. ~ (q =< p) => (p + 1) * d =< q * d
  <2> SUFFICES ASSUME ~ (q =< p) PROVE (p + 1) * d =< q * d
    OBVIOUS
  <2>1. q - (p + 1) \in Nat /\ q = (p + 1) + (q - (p + 1))
    BY <1>1
  <2>2. PICK r \in Nat : q = (p + 1) + r
    BY <2>1
  <2>3. ((p + 1) + r) * d = (p + 1) * d + r * d /\ r * d \in Nat
    BY <1>1
  <2> QED BY <1>1, <1>2, <2>2, <2>3
<1>5. q =< p <=> q * d =< x
  BY <1>1, <1>2, <1>3, <1>4
<1> QED BY <1>2, <1>5 DEF d, p

\* A chunk adds one copy for every tensor it touches.
LEMMA HitStep ==
  ASSUME Planned, NEW s \in Shards, NEW q \in Nat, q * ChunkBytes < manifest.sizes[s]
  PROVE  HitSum(s, q + 1) =
           HitSum(s, q) + Len(Scatter(s, EndOfChunk(s, q), EndOfChunk(s, q + 1)))
<1> DEFINE from == EndOfChunk(s, q)
           to == EndOfChunk(s, q + 1)
           X == Touched(s, from, to)
           D == [i \in Indices |-> IF i \in X THEN 1 ELSE 0]
           z == manifest.sizes[s]
           C == ChunkBytes
<1>1. z \in Nat
  <2>1. manifest.sizes \in Seq(Nat \ {0})
    BY DEF Planned
  <2> QED BY <2>1 DEF Shards
<1>2. /\ q * C \in Nat /\ (q + 1) * C = q * C + C /\ C \in Nat \ {0}
      /\ from = q * C /\ to = (IF (q + 1) * C =< z THEN (q + 1) * C ELSE z)
      /\ q * C < z
  BY <1>1, ChunkOf DEF EndOfChunk
<1> HIDE DEF from, to, z, C
<1>3. from \in Nat /\ to \in Nat
  BY <1>1, <1>2
<1>4. X \subseteq Index(s) /\ Index(s) \subseteq Indices /\ IsFiniteSet(Index(s))
  BY PartTypes DEF Touched, Index
<1>5. Len(Scatter(s, from, to)) = Cardinality(X) /\ IsFiniteSet(X)
  BY <1>3, ScatterIs
<1>6. \A i \in Index(s) : /\ HitsOf(q)[i] \in Int /\ D[i] \in Int
                          /\ HitsOf(q + 1)[i] = HitsOf(q)[i] + D[i]
  <2> SUFFICES ASSUME NEW i \in Index(s)
               PROVE  /\ HitsOf(q)[i] \in Int /\ D[i] \in Int
                      /\ HitsOf(q + 1)[i] = HitsOf(q)[i] + D[i]
    OBVIOUS
  <2> DEFINE b == Tensors[i].begin
             e == Tensors[i].end
             f == FirstChunk(i)
             l == LastChunk(i)
  <2>1. i \in Indices /\ Tensors[i].shard = s
    BY DEF Index
  <2>2. b \in Nat /\ e \in Nat /\ b < e /\ e =< z
    BY <2>1, TensorIs DEF z
  <2>3. f \in Nat /\ l \in Nat /\ f =< l
    BY <2>1, PartTypes
  <2>4. i \in X <=> b < to /\ from < e
    BY <2>1 DEF Touched
  <2>5. e - 1 \in Nat /\ q + 1 \in Nat
    BY <2>2
  <2>6. (q + 1 =< f <=> (q + 1) * C =< b) /\ (q =< l <=> q * C =< e - 1)
    BY <2>2, <2>5, ChunkOf DEF FirstChunk, LastChunk, C
  <2>7. /\ HitsOf(q)[i] = (IF q =< f THEN 0 ELSE IF q > l THEN l - f + 1 ELSE q - f)
        /\ HitsOf(q + 1)[i] = (IF q + 1 =< f THEN 0
                               ELSE IF q + 1 > l THEN l - f + 1 ELSE (q + 1) - f)
        /\ D[i] = IF i \in X THEN 1 ELSE 0
    BY <2>1 DEF HitsOf, Hits
  <2> HIDE DEF b, e, f, l, X, D
  <2>8. i \in X <=> f =< q /\ q =< l
    <3>1. b < to <=> ~ ((q + 1) * C =< b)
      BY <1>1, <1>2, <2>2
    <3>2. from < e <=> q * C =< e - 1
      BY <1>2, <2>2
    <3> QED BY <2>3, <2>4, <2>6, <3>1, <3>2
  <2>9. CASE i \in X
    BY <2>3, <2>7, <2>8, <2>9
  <2>10. CASE i \notin X
    BY <2>3, <2>7, <2>8, <2>10
  <2> QED BY <2>9, <2>10
<1>7. \A i \in X : D[i] = 1
  BY <1>4
<1>8. \A i \in Index(s) \ X : D[i] = 0
  BY <1>4
<1> HIDE DEF D, X
<1>9. HitSum(s, q + 1) = HitSum(s, q) + SumFunctionOnSet(D, Index(s))
  BY <1>4, <1>6, SumPlus DEF HitSum
<1>10. SumFunctionOnSet(D, Index(s)) = SumFunctionOnSet(D, X)
  <2>1. \A i \in Index(s) : D[i] \in Int
    BY <1>6
  <2> QED BY <1>4, <1>8, <2>1, SumSupport
<1>11. SumFunctionOnSet(D, X) = Cardinality(X)
  BY <1>5, <1>7, SumOnes
<1> QED BY <1>5, <1>9, <1>10, <1>11 DEF from, to

\* The totals of the plan.
LEMMA TotalsAre ==
  ASSUME Planned
  PROVE  /\ CopiedBytes = SumFunctionOnSet(ByteCounts, Indices)
         /\ PlannedCopies = SumFunctionOnSet(Spans, Indices)
         /\ SourceBytes = SumFunctionOnSet(manifest.sizes, Shards)
         /\ \A i \in Indices : ByteCounts[i] \in Nat /\ Spans[i] \in Nat
         /\ IsFiniteSet(Shards) /\ \A s \in Shards : manifest.sizes[s] \in Nat
<1>1. \A i \in Indices : ByteCounts[i] \in Nat /\ Spans[i] \in Nat
  <2> SUFFICES ASSUME NEW i \in Indices
               PROVE  ByteCounts[i] \in Nat /\ Spans[i] \in Nat
    OBVIOUS
  <2>1. ByteCounts[i] = Bytes(Tensors[i]) /\ Spans[i] = LastChunk(i) - FirstChunk(i) + 1
    BY DEF ByteCounts, Spans
  <2>2. Bytes(Tensors[i]) \in Nat
    BY TensorIs
  <2>3. FirstChunk(i) \in Nat /\ LastChunk(i) \in Nat /\ FirstChunk(i) =< LastChunk(i)
    BY PartTypes
  <2> QED BY <2>1, <2>2, <2>3
<1>2. DOMAIN Tensors = Indices
  BY TensorsIs
<1>3. CopiedBytes = SumFunctionOnSet(ByteCounts, Indices)
  <2>1. [i \in DOMAIN Tensors |-> Bytes(Tensors[i])] = ByteCounts
    BY <1>2 DEF ByteCounts
  <2>2. DOMAIN ByteCounts = Indices
    BY DEF ByteCounts
  <2>3. CopiedBytes = SumFunction([i \in DOMAIN Tensors |-> Bytes(Tensors[i])])
    BY DEF CopiedBytes, Total
  <2> QED BY <2>1, <2>2, <2>3 DEF SumFunction
<1>4. PlannedCopies = SumFunctionOnSet(Spans, Indices)
  <2> DEFINE f == [i \in DOMAIN Tensors |->
                     (Tensors[i].end - 1) \div ChunkBytes
                       - Tensors[i].begin \div ChunkBytes + 1]
  <2>1. f = Spans
    BY <1>2 DEF Spans, FirstChunk, LastChunk
  <2>2. DOMAIN Spans = Indices
    BY DEF Spans
  <2>3. PlannedCopies = SumFunction(f)
    BY DEF PlannedCopies, Total
  <2> QED BY <2>1, <2>2, <2>3 DEF SumFunction
<1>5. manifest.sizes \in Seq(Nat \ {0})
  BY DEF Planned
<1>6. SourceBytes = SumFunctionOnSet(manifest.sizes, Shards)
  BY <1>5 DEF SourceBytes, SumFunction, Shards
<1>7. IsFiniteSet(Shards)
  BY <1>5, FS_Interval DEF Shards
<1>8. \A s \in Shards : manifest.sizes[s] \in Nat
  BY <1>5 DEF Shards
<1> QED BY <1>1, <1>3, <1>4, <1>6, <1>7, <1>8

\* Nothing of a shard is read at its start, everything at its end.
LEMMA SumsOfShard ==
  ASSUME Planned, NEW s \in Shards
  PROVE  /\ PartSum(s, 0) = 0 /\ HitSum(s, 0) = 0
         /\ PartSum(s, manifest.sizes[s]) = SumFunctionOnSet(ByteCounts, Index(s))
         /\ \A q \in Nat : manifest.sizes[s] =< q * ChunkBytes =>
              HitSum(s, q) = SumFunctionOnSet(Spans, Index(s))
         /\ \A q \in Nat : HitSum(s, q) \in Nat /\ HitSum(s, q) =< PlannedCopies
         /\ SumFunctionOnSet(ByteCounts, Index(s)) =< manifest.sizes[s]
<1> DEFINE z == manifest.sizes[s]
           I == Index(s)
<1>1. z \in Nat /\ IsFiniteSet(I) /\ I \subseteq Indices
  BY TotalsAre, PartTypes
<1>2. ASSUME NEW i \in I
      PROVE  /\ i \in Indices /\ Tensors[i].shard = s
             /\ Tensors[i].begin \in Nat /\ Tensors[i].end \in Nat
             /\ Tensors[i].begin < Tensors[i].end /\ Tensors[i].end =< z
             /\ FirstChunk(i) \in Nat /\ LastChunk(i) \in Nat
             /\ FirstChunk(i) =< LastChunk(i)
             /\ Spans[i] = LastChunk(i) - FirstChunk(i) + 1
             /\ ByteCounts[i] = Tensors[i].end - Tensors[i].begin
             /\ Tensors[i] \in TextTensors
  <2>1. i \in Indices /\ Tensors[i].shard = s
    BY DEF Index
  <2>2. Spans[i] = LastChunk(i) - FirstChunk(i) + 1
        /\ ByteCounts[i] = Tensors[i].end - Tensors[i].begin
    BY <2>1 DEF Spans, ByteCounts, Bytes
  <2>3. Tensors[i] \in TextTensors
    BY <2>1, TensorsIs
  <2> QED BY <2>1, <2>2, <2>3, TensorIs, PartTypes
<1> HIDE DEF z
<1>3. PartSum(s, 0) = 0
  <2>1. \A i \in I : Parts(0)[i] = 0
    BY <1>2 DEF Parts, Part
  <2> QED BY <1>1, <2>1, SumZero DEF PartSum
<1>4. HitSum(s, 0) = 0
  <2>1. \A i \in I : HitsOf(0)[i] = 0
    BY <1>2 DEF HitsOf, Hits
  <2> QED BY <1>1, <2>1, SumZero DEF HitSum
<1>5. PartSum(s, z) = SumFunctionOnSet(ByteCounts, I)
  <2>1. \A i \in I : Parts(z)[i] = ByteCounts[i] /\ Parts(z)[i] \in Int
    <3> SUFFICES ASSUME NEW i \in I
                 PROVE  Parts(z)[i] = ByteCounts[i] /\ Parts(z)[i] \in Int
      OBVIOUS
    <3>1. Parts(z)[i] = Part(i, z)
      BY <1>2 DEF Parts
    <3> QED BY <1>1, <1>2, <3>1 DEF Part, Bytes
  <2> QED BY <1>1, <2>1, SumSame DEF PartSum
<1>6. ASSUME NEW q \in Nat, z =< q * ChunkBytes
      PROVE  HitSum(s, q) = SumFunctionOnSet(Spans, I)
  <2>1. \A i \in I : HitsOf(q)[i] = Spans[i] /\ HitsOf(q)[i] \in Int
    <3> SUFFICES ASSUME NEW i \in I
                 PROVE  HitsOf(q)[i] = Spans[i] /\ HitsOf(q)[i] \in Int
      OBVIOUS
    <3>1. HitsOf(q)[i] = Hits(i, q)
      BY <1>2 DEF HitsOf
    <3>2. Tensors[i].end - 1 \in Nat /\ Tensors[i].end - 1 < z
      BY <1>1, <1>2
    <3>3. q * ChunkBytes \in Nat /\ ~ (q * ChunkBytes =< Tensors[i].end - 1)
      <4>1. q * ChunkBytes \in Nat
        BY <3>2, ChunkOf
      <4> QED BY <1>1, <1>6, <3>2, <4>1
    <3>4. ~ (q =< LastChunk(i))
      BY <3>2, <3>3, ChunkOf DEF LastChunk
    <3> QED BY <1>2, <3>1, <3>4 DEF Hits
  <2> QED BY <1>1, <2>1, SumSame DEF HitSum
<1>7. ASSUME NEW q \in Nat
      PROVE  HitSum(s, q) \in Nat /\ HitSum(s, q) =< PlannedCopies
  <2>1. \A i \in I : /\ HitsOf(q)[i] \in Nat /\ Spans[i] \in Nat
                     /\ HitsOf(q)[i] =< Spans[i]
    <3> SUFFICES ASSUME NEW i \in I
                 PROVE  /\ HitsOf(q)[i] \in Nat /\ Spans[i] \in Nat
                        /\ HitsOf(q)[i] =< Spans[i]
      OBVIOUS
    <3>1. HitsOf(q)[i] = Hits(i, q)
      BY <1>2 DEF HitsOf
    <3> QED BY <1>2, <3>1 DEF Hits
  <2>2. HitSum(s, q) \in Nat
    BY <1>1, <2>1, SumPart DEF HitSum
  <2>3. HitSum(s, q) =< SumFunctionOnSet(Spans, I)
    <3>1. \A i \in I : /\ HitsOf(q)[i] \in Int /\ Spans[i] \in Int
                       /\ HitsOf(q)[i] =< Spans[i]
      BY <2>1
    <3> QED BY <1>1, <3>1, SumMono DEF HitSum
  <2>4. /\ SumFunctionOnSet(Spans, I) =< SumFunctionOnSet(Spans, Indices)
        /\ SumFunctionOnSet(Spans, I) \in Nat /\ SumFunctionOnSet(Spans, Indices) \in Nat
    <3>1. IsFiniteSet(Indices) /\ \A i \in Indices : Spans[i] \in Nat
      BY TextIs, TotalsAre
    <3> QED BY <1>1, <3>1, SumPart
  <2>5. PlannedCopies = SumFunctionOnSet(Spans, Indices)
    BY TotalsAre
  <2> QED BY <2>2, <2>3, <2>4, <2>5
<1>8. SumFunctionOnSet(ByteCounts, I) =< z
  <2> DEFINE b == [i \in I |-> Tensors[i].begin]
             e == [i \in I |-> Tensors[i].end]
  <2>1. \A i \in I : b[i] \in Nat /\ e[i] \in Nat /\ b[i] < e[i] /\ e[i] =< z
                     /\ ByteCounts[i] = e[i] - b[i]
    BY <1>2
  <2>2. \A i, j \in I : i # j => e[i] =< b[j] \/ e[j] =< b[i]
    <3> SUFFICES ASSUME NEW i \in I, NEW j \in I, i # j
                 PROVE  Tensors[i].end =< Tensors[j].begin
                        \/ Tensors[j].end =< Tensors[i].begin
      OBVIOUS
    <3>1. i \in Indices /\ j \in Indices /\ Tensors[i].shard = Tensors[j].shard
          /\ Tensors[i] \in TextTensors /\ Tensors[j] \in TextTensors
      BY <1>2
    <3>2. Tensors[i] # Tensors[j]
      BY <3>1, TensorsIs
    <3> QED BY <3>1, <3>2, TextIs
  <2> HIDE DEF b, e
  <2> QED BY <1>1, <2>1, <2>2, Packed
<1> QED BY <1>3, <1>4, <1>5, <1>6, <1>7, <1>8 DEF z

\* When every shard is loaded the statistics agree with the plan.
LEMMA StatisticsAgree ==
  ASSUME Planned, DOMAIN outcome = Shards,
         \A s \in Shards :
           /\ outcome[s].read = manifest.sizes[s]
           /\ outcome[s].copied = SumFunctionOnSet(ByteCounts, Index(s))
           /\ outcome[s].copies = SumFunctionOnSet(Spans, Index(s))
  PROVE  Agrees
<1> DEFINE key == [i \in Indices |-> Tensors[i].shard]
           rd == [s \in Shards |-> outcome[s].read]
           cd == [s \in Shards |-> outcome[s].copied]
           cs == [s \in Shards |-> outcome[s].copies]
<1>1. /\ IsFiniteSet(Shards) /\ IsFiniteSet(Indices)
      /\ \A i \in Indices : ByteCounts[i] \in Int /\ Spans[i] \in Int /\ key[i] \in Shards
      /\ \A s \in Shards : manifest.sizes[s] \in Int
      /\ \A s \in Shards : Index(s) = {i \in Indices : key[i] = s}
  BY TotalsAre, TextIs, TensorIs DEF Index
<1>2. \A s \in Shards :
        /\ rd[s] = manifest.sizes[s]
        /\ cd[s] = SumFunctionOnSet(ByteCounts, {i \in Indices : key[i] = s})
        /\ cs[s] = SumFunctionOnSet(Spans, {i \in Indices : key[i] = s})
  BY <1>1
<1>3. /\ Total(LAMBDA o : o.read, outcome) = SumFunctionOnSet(rd, Shards)
      /\ Total(LAMBDA o : o.copied, outcome) = SumFunctionOnSet(cd, Shards)
      /\ Total(LAMBDA o : o.copies, outcome) = SumFunctionOnSet(cs, Shards)
  BY DEF Total, SumFunction
<1>4. \A s \in Shards : SumFunctionOnSet(ByteCounts, Index(s)) =< manifest.sizes[s]
  BY SumsOfShard
<1>5. \A s \in Shards : cd[s] \in Int /\ rd[s] \in Int /\ cd[s] =< rd[s]
  <2> SUFFICES ASSUME NEW s \in Shards
               PROVE  cd[s] \in Int /\ rd[s] \in Int /\ cd[s] =< rd[s]
    OBVIOUS
  <2>1. IsFiniteSet(Index(s)) /\ Index(s) \subseteq Indices
    BY PartTypes
  <2>2. SumFunctionOnSet(ByteCounts, Index(s)) \in Int
    BY <1>1, <2>1, SumType
  <2> QED BY <1>1, <1>2, <1>4, <2>2
<1> HIDE DEF key, rd, cd, cs
<1>6. SumFunctionOnSet(cd, Shards) = SumFunctionOnSet(ByteCounts, Indices)
  <2>1. Grouped(Indices, ByteCounts, key, Shards, cd)
    BY <1>1, <1>2 DEF Grouped
  <2> QED BY <1>1, <2>1, SumGroups
<1>7. SumFunctionOnSet(cs, Shards) = SumFunctionOnSet(Spans, Indices)
  <2>1. Grouped(Indices, Spans, key, Shards, cs)
    BY <1>1, <1>2 DEF Grouped
  <2> QED BY <1>1, <2>1, SumGroups
<1>8. SumFunctionOnSet(rd, Shards) = SumFunctionOnSet(manifest.sizes, Shards)
  <2> DEFINE sz == manifest.sizes
  <2>1. \A s \in Shards : rd[s] \in Int /\ rd[s] = sz[s]
    BY <1>2, <1>5
  <2> HIDE DEF sz
  <2>2. SumFunctionOnSet(rd, Shards) = SumFunctionOnSet(sz, Shards)
    BY <1>1, <2>1, SumSame
  <2> QED BY <2>2 DEF sz
<1>9. SumFunctionOnSet(cd, Shards) =< SumFunctionOnSet(rd, Shards)
  BY <1>1, <1>5, SumMono
<1>10. /\ CopiedBytes = SumFunctionOnSet(ByteCounts, Indices)
       /\ PlannedCopies = SumFunctionOnSet(Spans, Indices)
       /\ SourceBytes = SumFunctionOnSet(manifest.sizes, Shards)
  BY TotalsAre
<1>11. CopiedBytes =< SourceBytes
  BY <1>6, <1>8, <1>9, <1>10
<1> QED BY <1>3, <1>6, <1>7, <1>8, <1>10, <1>11 DEF Agrees

-----------------------------------------------------------------------------
(* What a load keeps true.                                                  *)

\* The plan depends on the checkpoint only.
LEMMA PlanFixed ==
  ASSUME manifest' = manifest
  PROVE  /\ Tensors' = Tensors /\ Indices' = Indices /\ Shards' = Shards
         /\ (Planned <=> Planned') /\ PlannedCopies' = PlannedCopies
         /\ ArenaBytes' = ArenaBytes
         /\ ByteCounts' = ByteCounts /\ Spans' = Spans
         /\ \A i : ArenaOffset(i)' = ArenaOffset(i)
         /\ \A s : Index(s)' = Index(s)
         /\ \A s, o : PartSum(s, o)' = PartSum(s, o)
         /\ \A s, q : HitSum(s, q)' = HitSum(s, q)
         /\ \A s, q : EndOfChunk(s, q)' = EndOfChunk(s, q)
<1>1. Tensors' = Tensors
  BY DEF Tensors, InOrder
<1>2. Indices' = Indices /\ Shards' = Shards
  BY DEF Indices, TextTensors, Shards
<1>3. Planned <=> Planned'
  BY <1>2 DEF Planned, ValidManifest, Shards, Locators
<1>4. PlannedCopies' = PlannedCopies /\ ArenaBytes' = ArenaBytes
  BY <1>1 DEF PlannedCopies, ArenaBytes, Total
<1>5. \A i : ArenaOffset(i)' = ArenaOffset(i)
  BY <1>1 DEF ArenaOffset, Total
<1>6. ByteCounts' = ByteCounts /\ Spans' = Spans
  BY <1>1, <1>2 DEF ByteCounts, Spans, FirstChunk, LastChunk
<1>7. \A s : Index(s)' = Index(s)
  BY <1>1, <1>2 DEF Index
<1>8. \A s, o : PartSum(s, o)' = PartSum(s, o)
  BY <1>1, <1>2, <1>7 DEF PartSum, Parts, Part
<1>9. \A s, q : HitSum(s, q)' = HitSum(s, q)
  BY <1>1, <1>2, <1>7 DEF HitSum, HitsOf, Hits, FirstChunk, LastChunk
<1>10. \A s, q : EndOfChunk(s, q)' = EndOfChunk(s, q)
  BY DEF EndOfChunk
<1> QED BY <1>1, <1>2, <1>3, <1>4, <1>5, <1>6, <1>7, <1>8, <1>9, <1>10

\* What is queued stays aimed, and what is counted stays counted.
LEMMA AimedFrame ==
  ASSUME manifest' = manifest, NEW v, stream'[v] = stream[v], AimedAt(v),
         worker'[v].shard = worker[v].shard, worker'[v].hash => worker[v].hash
  PROVE  AimedAt(v)'
<1>1. Tensors' = Tensors /\ Indices' = Indices /\ \A i : ArenaOffset(i)' = ArenaOffset(i)
  BY PlanFixed
<1> QED BY <1>1 DEF AimedAt, Carries, IsCopy

LEMMA CountedFrame ==
  ASSUME manifest' = manifest, NEW v, worker'[v] = worker[v],
         staging'[v] = staging[v], CountedAt(v)
  PROVE  CountedAt(v)'
<1>1. /\ \A s, o : PartSum(s, o)' = PartSum(s, o)
      /\ \A s, q : HitSum(s, q)' = HitSum(s, q)
      /\ \A s, q : EndOfChunk(s, q)' = EndOfChunk(s, q)
  BY PlanFixed
<1> QED BY <1>1 DEF CountedAt, Size, Slot

\* What a step leaves alone about a worker that it does not touch.
LEMMA WorkerFrame ==
  ASSUME manifest' = manifest, NEW v \in Threads, worker'[v] = worker[v],
         stream'[v] = stream[v], staging'[v] = staging[v]
  PROVE  /\ AimedAt(v) => AimedAt(v)'
         /\ CountedAt(v) => CountedAt(v)'
         /\ arena' = arena /\ broken' = broken /\ LandingAt(v) => LandingAt(v)'
         /\ /\ ClaimedBy(v) /\ next \in Nat /\ next' \in Nat /\ next' >= next
            /\ worker[v].shard # 0 =>
                 outcome'[worker[v].shard].status = outcome[worker[v].shard].status
            => ClaimedBy(v)'
<1>1. AimedAt(v) => AimedAt(v)'
  BY AimedFrame
<1>2. CountedAt(v) => CountedAt(v)'
  BY CountedFrame
<1>3. arena' = arena /\ broken' = broken /\ LandingAt(v) => LandingAt(v)'
  BY PlanFixed DEF LandingAt, InArena, Covers, Carries, IsCopy
<1>4. /\ ClaimedBy(v) /\ next \in Nat /\ next' \in Nat /\ next' >= next
      /\ worker[v].shard # 0 =>
           outcome'[worker[v].shard].status = outcome[worker[v].shard].status
      => ClaimedBy(v)'
  <2> SUFFICES ASSUME ClaimedBy(v), next \in Nat, next' \in Nat, next' >= next,
                      worker[v].shard # 0 =>
                        outcome'[worker[v].shard].status =
                          outcome[worker[v].shard].status
               PROVE  ClaimedBy(v)'
    OBVIOUS
  <2>1. worker[v].shard \in Shards => worker[v].shard \in Int
    BY DEF Shards
  <2>2. worker[v].shard # 0 =>
          /\ worker[v].shard \in Shards /\ worker[v].shard < next'
          /\ outcome'[worker[v].shard].status =
               IF worker[v].pc \in Busy THEN "none" ELSE "failed"
    BY <2>1 DEF ClaimedBy
  <2>3. worker[v].pc = "ended" /\ worker[v].shard = 0 => next' > Len(manifest.sizes)
    BY LoaderAssumption DEF ClaimedBy
  <2> QED BY <2>2, <2>3, PlanFixed DEF ClaimedBy
<1> QED BY <1>1, <1>2, <1>3, <1>4

\* A thread runs only in a load that has started.
LEMMA AtWorkLoads ==
  ASSUME CopyInv, LoadInv, NEW w \in Threads, worker[w].pc \notin Idle
  PROVE  /\ Started /\ main \in {"spawn", "join"} /\ life = "load" /\ w \in held
         /\ Planned /\ PlannedCopies =< MaxCopies
         /\ DOMAIN arena.data = 0 .. ArenaBytes - 1
         /\ Claims /\ (\A s \in Shards : Arrived(s))
         /\ \A v \in Threads : ClaimedBy(v) /\ AimedAt(v) /\ CountedAt(v) /\ LandingAt(v)
         /\ manifest.sizes \in Seq(Nat \ {0}) /\ next \in Nat /\ faults \in Nat
         /\ DOMAIN worker = Threads /\ DOMAIN stream = Threads
         /\ DOMAIN staging = Threads /\ DOMAIN worker[w] = WorkFields
<1>1. /\ main \in {"spawn", "join"} /\ arena.live /\ life = "load" /\ w \in held
      /\ WorkerType(w)
  BY AtWork
<1>2. Started
  BY <1>1 DEF Started
<1>3. Planned /\ PlannedCopies =< MaxCopies
  BY <1>1 DEF LoadInv
<1>4. manifest.sizes \in Seq(Nat \ {0})
  BY <1>3 DEF Planned
<1>5. /\ next \in Nat /\ DOMAIN worker = Threads /\ DOMAIN stream = Threads
      /\ DOMAIN staging = Threads
  BY DEF CopyInv, LoadTypes
<1>6. faults \in Nat
  BY DEF LoadInv, Causes
<1> QED BY <1>1, <1>2, <1>3, <1>4, <1>5, <1>6 DEF LoadInv, WorkerType

\* A step of a thread leaves its caller and the arena alone.
LEMMA ThreadStep ==
  ASSUME CopyInv, LoadInv, NEW w \in Threads, worker[w].pc \notin Idle,
         UNCHANGED <<manifest, main, result, held, arena, broken, life>>,
         next' \in Nat, next' >= next, faults' \in Nat, faults' >= faults,
         \A v \in Threads \ {w} : /\ worker'[v] = worker[v]
                                  /\ stream'[v] = stream[v]
                                  /\ staging'[v] = staging[v],
         \A s \in Shards : s # worker[w].shard => outcome'[s] = outcome[s],
         \A s \in Shards : outcome'[s].status = "failed" =>
                             outcome[s].status = "failed" \/ faults' > 0,
         worker'[w].pc # "unborn",
         worker'[w].pc = "refused" \/ ~ worker'[w].hash => faults' > 0,
         Claims', \A s \in Shards : Arrived(s)',
         ClaimedBy(w)', AimedAt(w)', CountedAt(w)', LandingAt(w)'
  PROVE  LoadInv'
<1>1. /\ Started /\ main \in {"spawn", "join"} /\ life = "load" /\ w \in held
      /\ Planned /\ PlannedCopies =< MaxCopies
      /\ DOMAIN arena.data = 0 .. ArenaBytes - 1
      /\ Claims /\ (\A s \in Shards : Arrived(s))
      /\ \A v \in Threads : ClaimedBy(v) /\ AimedAt(v) /\ CountedAt(v) /\ LandingAt(v)
      /\ next \in Nat /\ faults \in Nat
  BY AtWorkLoads
<1>2. Shards' = Shards /\ Planned' /\ PlannedCopies' =< MaxCopies
      /\ ArenaBytes' = ArenaBytes
  BY <1>1, PlanFixed
<1>3. ASSUME NEW v \in Threads \ {w}
      PROVE  ClaimedBy(v)' /\ AimedAt(v)' /\ CountedAt(v)' /\ LandingAt(v)'
  <2>1. ClaimedBy(v) /\ AimedAt(v) /\ CountedAt(v) /\ LandingAt(v)
    BY <1>1
  <2>2. worker[v].shard # 0 =>
          worker[v].shard \in Shards /\ worker[v].shard # worker[w].shard
    BY <1>1, <2>1 DEF Claims, ClaimedBy
  <2>3. worker[v].shard # 0 =>
          outcome'[worker[v].shard].status = outcome[worker[v].shard].status
    BY <2>2
  <2> QED BY <1>1, <2>1, <2>3, WorkerFrame
<1>4. \A v \in Threads : ClaimedBy(v)' /\ AimedAt(v)' /\ CountedAt(v)' /\ LandingAt(v)'
  BY <1>3
<1>5. Causes'
  <2>1. Causes
    BY DEF LoadInv
  <2>2. \A s \in Shards : outcome'[s].status = "failed" => faults' > 0
    BY <1>1, <2>1 DEF Causes
  <2>3. \A v \in Threads : worker'[v].pc = "refused" \/ ~ worker'[v].hash => faults' > 0
    BY <1>1, <2>1 DEF Causes
  <2> QED BY <1>1, <1>2, <2>1, <2>2, <2>3 DEF Causes
<1>6. Progress'
  <2>1. Progress
    BY DEF LoadInv
  <2>2. main = "join" /\ result = "none" => \A v \in held : worker'[v].pc # "unborn"
    <3>1. held \subseteq Threads
      BY DEF CopyInv, LoadTypes
    <3> QED BY <2>1, <3>1 DEF Progress
  <2> QED BY <1>1, <2>1, <2>2 DEF Progress
<1>7. DOMAIN arena'.data = 0 .. ArenaBytes' - 1
  BY <1>1, <1>2
<1> QED BY <1>2, <1>4, <1>5, <1>6, <1>7 DEF LoadInv

\* What is loaded stays loaded while the arena is left alone.
LEMMA ArrivedFrame ==
  ASSUME manifest' = manifest, arena' = arena, NEW s, outcome'[s] = outcome[s],
         Arrived(s)
  PROVE  Arrived(s)'
BY PlanFixed DEF Arrived, InArena

\* A step that neither claims nor reports a shard.
LEMMA ClaimsFrame ==
  ASSUME manifest' = manifest, outcome' = outcome, next' = next, Claims,
         \A v \in Threads : /\ worker'[v].shard = worker[v].shard
                            /\ worker[v].pc \in Busy => worker'[v].pc \in Busy
  PROVE  Claims'
<1>1. Shards' = Shards
  BY PlanFixed
<1>2. \A s \in Shards : s < next /\ outcome[s].status = "none" =>
        \E w \in Threads : worker'[w].pc \in Busy /\ worker'[w].shard = s
  BY DEF Claims
<1>3. \A v, w \in Threads : worker'[v].shard = worker'[w].shard =>
        v = w \/ worker'[v].shard = 0
  BY DEF Claims
<1> QED BY <1>1, <1>2, <1>3 DEF Claims

\* cudaSetDevice in the new thread.
LEMMA StartLoads ==
  ASSUME CopyInv, LoadInv, NEW w \in Threads, Start(w), life' = life
  PROVE  LoadInv'
<1>1. /\ worker[w].pc = "start" /\ worker[w].pc \notin Idle
      /\ UNCHANGED <<manifest, main, result, held, staging, stream, broken,
                     arena, next, outcome, life>>
  BY DEF Start, deviceVars, Idle
<1>2. /\ Claims /\ (\A s \in Shards : Arrived(s))
      /\ ClaimedBy(w) /\ AimedAt(w) /\ CountedAt(w) /\ LandingAt(w)
      /\ next \in Nat /\ faults \in Nat
      /\ DOMAIN worker = Threads /\ DOMAIN worker[w] = WorkFields
  BY <1>1, AtWorkLoads
<1>3. /\ main \in {"spawn", "join"} /\ Causes
  BY <1>1, AtWorkLoads DEF LoadInv
<1>4. /\ faults' \in Nat /\ faults' >= faults
      /\ \E p \in {"refused", "claim"} :
           /\ worker' = [worker EXCEPT ![w].pc = p]
           /\ p = "refused" => faults' > 0
  <2>1. \/ faults' = faults + 1 /\ worker' = [worker EXCEPT ![w].pc = "refused"]
        \/ worker' = [worker EXCEPT ![w].pc = "claim"] /\ UNCHANGED faults
        \/ broken /\ worker' = [worker EXCEPT ![w].pc = "refused"] /\ UNCHANGED faults
    BY DEF Start, Faulty
  <2>2. broken => faults > 0
    BY <1>3 DEF Causes
  <2> QED BY <1>2, <2>1, <2>2
<1>5. PICK p \in {"refused", "claim"} :
           /\ worker' = [worker EXCEPT ![w].pc = p]
           /\ p = "refused" => faults' > 0
  BY <1>4
<1>6. /\ \A v \in Threads \ {w} : worker'[v] = worker[v]
      /\ worker'[w].pc = p /\ worker'[w].shard = worker[w].shard
      /\ worker'[w].hash = worker[w].hash
  BY <1>2, <1>5 DEF WorkFields
<1>7. Claims'
  <2>1. \A v \in Threads : /\ worker'[v].shard = worker[v].shard
                           /\ worker[v].pc \in Busy => worker'[v].pc \in Busy
    BY <1>1, <1>6 DEF Busy
  <2> QED BY <1>1, <1>2, <2>1, ClaimsFrame
<1>8. \A s \in Shards : Arrived(s)'
  BY <1>1, <1>2, ArrivedFrame
<1>9. worker[w].shard = 0 /\ stream[w] = <<>>
  BY <1>1, <1>2 DEF ClaimedBy, Busy
<1>10. p \notin Busy \cup {"ended"}
  BY DEF Busy
<1>11. ClaimedBy(w)'
  BY <1>1, <1>2, <1>6, <1>9, <1>10 DEF ClaimedBy
<1>12. CountedAt(w)' /\ LandingAt(w)'
  BY <1>6, <1>10 DEF CountedAt, LandingAt
<1>13. AimedAt(w)'
  BY <1>1, <1>9, NothingQueued DEF AimedAt
<1>14. worker'[w].pc # "unborn"
       /\ (worker'[w].pc = "refused" \/ ~ worker'[w].hash => faults' > 0)
  BY <1>2, <1>3, <1>4, <1>5, <1>6, <1>1 DEF Causes
<1> QED BY <1>1, <1>2, <1>4, <1>6, <1>7, <1>8, <1>11, <1>12, <1>13, <1>14, ThreadStep

\* next_shard.fetch_add.
LEMMA ClaimLoads ==
  ASSUME CopyInv, LoadInv, NEW w \in Threads, Claim(w), life' = life
  PROVE  LoadInv'
<1>1. /\ worker[w].pc = "claim" /\ worker[w].pc \notin Idle /\ next' = next + 1
      /\ UNCHANGED <<manifest, main, result, held, staging, stream, broken,
                     arena, outcome, faults, life>>
      /\ worker' = [worker EXCEPT ![w] =
                      IF next \in Shards
                      THEN [NoWork EXCEPT !.pc = "fill", !.shard = next]
                      ELSE [@ EXCEPT !.pc = "ended"]]
  BY DEF Claim, deviceVars, Idle
<1>2. /\ Claims /\ (\A s \in Shards : Arrived(s))
      /\ (\A v \in Threads : ClaimedBy(v))
      /\ next \in Nat \ {0} /\ faults \in Nat /\ Planned
      /\ manifest.sizes \in Seq(Nat \ {0})
      /\ DOMAIN worker = Threads /\ DOMAIN worker[w] = WorkFields
      /\ Causes /\ main \in {"spawn", "join"}
  BY <1>1, AtWorkLoads DEF CopyInv, LoadTypes, LoadInv
<1>3. worker[w].shard = 0 /\ stream[w] = <<>>
  BY <1>1, <1>2 DEF ClaimedBy, Busy
<1>4. Shards' = Shards /\ Shards \subseteq Nat \ {0} /\ Len(manifest.sizes) \in Nat
  BY <1>1, <1>2, PlanFixed DEF Shards
<1>5. \A v \in Threads \ {w} : worker'[v] = worker[v]
  BY <1>1
<1>6. \A s \in Shards : Arrived(s)'
  BY <1>1, <1>2, ArrivedFrame
<1>7. AimedAt(w)'
  BY <1>1, <1>3, NothingQueued DEF AimedAt
<1>8. \A v \in Threads : worker[v].shard # 0 => worker[v].shard < next /\ worker[v].shard \in Nat
  BY <1>2, <1>4 DEF ClaimedBy
<1>9. /\ UNCHANGED <<manifest, main, result, held, arena, broken, life>>
      /\ next' \in Nat /\ next' >= next /\ faults' \in Nat /\ faults' >= faults
      /\ \A v \in Threads \ {w} : /\ worker'[v] = worker[v] /\ stream'[v] = stream[v]
                                   /\ staging'[v] = staging[v]
      /\ \A s \in Shards : outcome'[s] = outcome[s]
  BY <1>1, <1>2, <1>5
<1>10. CASE next \in Shards
  <2>1. /\ worker'[w].pc = "fill" /\ worker'[w].shard = next /\ worker'[w].hash = TRUE
        /\ worker'[w].offset = 0 /\ worker'[w].copied = 0 /\ worker'[w].copies = 0
    BY <1>1, <1>2, <1>10 DEF NoWork
  <2>2. Claims'
    <3>1. ASSUME NEW s \in Shards, s < next', outcome[s].status = "none"
          PROVE  \E v \in Threads : worker'[v].pc \in Busy /\ worker'[v].shard = s
      <4>1. CASE s = next
        BY <2>1, <4>1 DEF Busy
      <4>2. CASE s # next
        <5>1. s < next
          BY <1>1, <1>2, <1>4, <3>1, <4>2
        <5>2. PICK v \in Threads : worker[v].pc \in Busy /\ worker[v].shard = s
          BY <1>2, <3>1, <5>1 DEF Claims
        <5>3. v # w
          BY <1>1, <5>2 DEF Busy
        <5> QED BY <1>5, <5>2, <5>3
      <4> QED BY <4>1, <4>2
    <3>2. \A u, v \in Threads : worker'[u].shard = worker'[v].shard =>
            u = v \/ worker'[u].shard = 0
      <4>1. \A v \in Threads \ {w} : worker[v].shard # next
        BY <1>2, <1>8
      <4> QED BY <1>2, <1>5, <2>1, <4>1 DEF Claims
    <3>3. \A s \in Shards : s >= next' => outcome[s].status = "none"
      BY <1>1, <1>2, <1>4 DEF Claims
    <3> QED BY <1>1, <1>2, <1>4, <3>1, <3>2, <3>3 DEF Claims
  <2>3. ClaimedBy(w)'
    <3>1. outcome[next].status = "none"
      BY <1>2, <1>10 DEF Claims
    <3>2. next < next' /\ next # 0 /\ outcome'[next].status = "none"
      BY <1>1, <1>2, <3>1
    <3>3. worker'[w].pc \in Busy
      BY <2>1 DEF Busy
    <3> QED BY <1>4, <1>10, <2>1, <3>2, <3>3 DEF ClaimedBy
  <2>4. CountedAt(w)'
    <3>1. manifest.sizes[next] \in Nat \ {0}
      BY <1>2, <1>10 DEF Shards
    <3>2. 0 * ChunkBytes = 0
      OBVIOUS
    <3>3. EndOfChunk(next, 0) = 0
      BY <3>1, <3>2 DEF EndOfChunk
    <3>4. HitSum(next, 0) = 0 /\ PartSum(next, 0) = 0
      BY <1>2, <1>10, SumsOfShard
    <3>5. /\ \E q \in Nat : /\ worker'[w].offset = EndOfChunk(next, q)
                            /\ worker'[w].copies = HitSum(next, q)
          /\ worker'[w].copied = PartSum(next, worker'[w].offset)
      BY <2>1, <3>3, <3>4
    <3>6. worker'[w].offset =< manifest.sizes[next]
      BY <2>1, <3>1
    <3> QED BY <1>1, <2>1, <3>5, <3>6, PlanFixed DEF CountedAt, Size
  <2>5. LandingAt(w)'
    <3>1. \A i \in Index(next) : \A b \in 0 .. Bytes(Tensors[i]) - 1 :
            ~ (Tensors[i].begin + b < 0)
      BY <1>2, TensorIs DEF Index
    <3> QED BY <1>1, <2>1, <3>1, PlanFixed DEF LandingAt
  <2>6. worker'[w].pc # "unborn" /\ worker'[w].pc # "refused" /\ worker'[w].hash
    BY <2>1
  <2>7. worker[w].pc \notin Idle
    BY <1>1
  <2> QED BY <1>6, <1>7, <1>9, <2>2, <2>3, <2>4, <2>5, <2>6, <2>7, ThreadStep
<1>11. CASE next \notin Shards
  <2>1. /\ worker'[w].pc = "ended" /\ worker'[w].shard = worker[w].shard
        /\ worker'[w].hash = worker[w].hash
    BY <1>1, <1>2, <1>11 DEF WorkFields
  <2>2. next > Len(manifest.sizes)
    BY <1>2, <1>4, <1>11 DEF Shards
  <2>3. Claims'
    <3>1. ASSUME NEW s \in Shards, s < next', outcome[s].status = "none"
          PROVE  \E v \in Threads : worker'[v].pc \in Busy /\ worker'[v].shard = s
      <4>1. s < next
        BY <1>2, <1>4, <2>2 DEF Shards
      <4>2. PICK v \in Threads : worker[v].pc \in Busy /\ worker[v].shard = s
        BY <1>2, <3>1, <4>1 DEF Claims
      <4>3. v # w
        BY <1>1, <4>2 DEF Busy
      <4> QED BY <1>5, <4>2, <4>3
    <3>2. \A u, v \in Threads : worker'[u].shard = worker'[v].shard =>
            u = v \/ worker'[u].shard = 0
      BY <1>2, <1>5, <2>1 DEF Claims
    <3>3. \A s \in Shards : s >= next' => outcome[s].status = "none"
      BY <1>1, <1>2, <1>4 DEF Claims
    <3> QED BY <1>1, <1>2, <1>4, <3>1, <3>2, <3>3 DEF Claims
  <2>4. ClaimedBy(w)'
    BY <1>1, <1>2, <1>3, <1>4, <2>1, <2>2 DEF ClaimedBy, Busy
  <2>5. CountedAt(w)' /\ LandingAt(w)'
    BY <2>1 DEF CountedAt, LandingAt, Busy
  <2>6. worker'[w].pc # "unborn" /\ worker'[w].pc # "refused"
        /\ (~ worker'[w].hash => faults' > 0)
    BY <1>1, <1>2, <2>1 DEF Causes
  <2>7. worker[w].pc \notin Idle
    BY <1>1
  <2> QED BY <1>6, <1>7, <1>9, <2>3, <2>4, <2>5, <2>6, <2>7, ThreadStep
<1> QED BY <1>10, <1>11

\* The thread records the failure of its shard and ends.
LEMMA AbandonLoads ==
  ASSUME CopyInv, LoadInv, NEW w \in Threads, worker[w].pc \in Busy, Abandon(w),
         UNCHANGED <<manifest, main, result, held, staging, broken, arena, life>>,
         \A v \in Threads \ {w} : stream'[v] = stream[v],
         faults' \in Nat, faults' >= faults, faults' > 0, AimedAt(w)'
  PROVE  LoadInv'
<1> DEFINE s == worker[w].shard
<1>1. worker[w].pc \notin Idle
  BY DEF Busy, Idle
<1>2. /\ Claims /\ (\A t \in Shards : Arrived(t)) /\ ClaimedBy(w)
      /\ next \in Nat /\ next' = next
      /\ DOMAIN worker = Threads /\ DOMAIN worker[w] = WorkFields
  BY <1>1, AtWorkLoads DEF Abandon
<1>3. s \in Shards /\ s # 0 /\ s < next
  BY <1>2 DEF ClaimedBy
<1>4. /\ \A v \in Threads \ {w} : worker'[v] = worker[v]
      /\ worker'[w].pc = "ended" /\ worker'[w].shard = s
      /\ worker'[w].hash = worker[w].hash
  BY <1>2 DEF Abandon, WorkFields
<1>5. outcome' = [outcome EXCEPT ![s].status = "failed"]
  BY DEF Abandon
<1> HIDE DEF s
<1>6. /\ DOMAIN outcome' = Shards
      /\ \A t \in Shards : t # s => outcome'[t] = outcome[t]
      /\ "status" \in DOMAIN outcome'[s] /\ outcome'[s].status = "failed"
  BY <1>2, <1>3, <1>5 DEF Claims
<1>7. Shards' = Shards
  BY PlanFixed
<1>8. Claims'
  <2>1. ASSUME NEW t \in Shards, t < next, outcome'[t].status = "none"
        PROVE  \E v \in Threads : worker'[v].pc \in Busy /\ worker'[v].shard = t
    <3>1. t # s /\ outcome[t].status = "none"
      BY <1>6, <2>1
    <3>2. PICK v \in Threads : worker[v].pc \in Busy /\ worker[v].shard = t
      BY <1>2, <2>1, <3>1 DEF Claims
    <3>3. v # w
      BY <3>1, <3>2 DEF s
    <3> QED BY <1>4, <3>2, <3>3
  <2>2. \A u, v \in Threads : worker'[u].shard = worker'[v].shard =>
          u = v \/ worker'[u].shard = 0
    BY <1>2, <1>4 DEF Claims, s
  <2>3. \A t \in Shards : t >= next => outcome'[t].status = "none"
    <3>1. ~ (s >= next)
      BY <1>2, <1>3 DEF Shards
    <3> QED BY <1>2, <1>6, <3>1 DEF Claims
  <2>4. \A t \in Shards : /\ "status" \in DOMAIN outcome'[t]
                          /\ outcome'[t].status \in {"none", "ok", "failed"}
    BY <1>2, <1>6 DEF Claims
  <2> QED BY <1>2, <1>6, <1>7, <2>1, <2>2, <2>3, <2>4 DEF Claims
<1>9. \A t \in Shards : Arrived(t)'
  <2>1. \A t \in Shards : t = s => Arrived(t)'
    BY <1>6 DEF Arrived
  <2>2. \A t \in Shards : t # s => Arrived(t)'
    BY <1>2, <1>6, ArrivedFrame
  <2> QED BY <2>1, <2>2
<1>10. ClaimedBy(w)'
  <2>1. worker'[w].pc \notin Busy
    BY <1>4 DEF Busy
  <2> QED BY <1>2, <1>3, <1>4, <1>6, <1>7, <2>1 DEF ClaimedBy
<1>11. CountedAt(w)' /\ LandingAt(w)'
  BY <1>4 DEF CountedAt, LandingAt, Busy
<1>12. \A t \in Shards : outcome'[t].status = "failed" =>
                             outcome[t].status = "failed" \/ faults' > 0
  OBVIOUS
<1>13. \A t \in Shards : t # worker[w].shard => outcome'[t] = outcome[t]
  BY <1>6 DEF s
<1>14. worker'[w].pc # "unborn"
  BY <1>4
<1> QED BY <1>1, <1>2, <1>4, <1>8, <1>9, <1>10, <1>11, <1>12, <1>13, <1>14, ThreadStep

\* A failing call is counted, and the device's error was.
LEMMA FaultsCount ==
  ASSUME LoadInv, main # "returned", Faulty \/ (broken /\ UNCHANGED faults)
  PROVE  faults' \in Nat /\ faults' >= faults /\ faults' > 0
<1>1. faults \in Nat /\ (broken => faults > 0)
  BY DEF LoadInv, Causes
<1> QED BY <1>1 DEF Faulty

\* The read and the hash of a chunk.
LEMMA FillLoads ==
  ASSUME CopyInv, LoadInv, NEW w \in Threads, Fill(w), life' = life
  PROVE  LoadInv'
<1>1. /\ worker[w].pc = "fill" /\ worker[w].pc \in Busy /\ worker[w].pc \notin Idle
      /\ worker[w].offset < Size(w)
      /\ UNCHANGED <<manifest, main, result, held, stream, broken, arena, life>>
  BY DEF Fill, Idle, Busy
<1>2. /\ Claims /\ (\A s \in Shards : Arrived(s)) /\ Causes
      /\ ClaimedBy(w) /\ AimedAt(w) /\ CountedAt(w) /\ LandingAt(w)
      /\ next \in Nat /\ faults \in Nat /\ main \in {"spawn", "join"} /\ LoadTypes
      /\ DOMAIN worker = Threads /\ DOMAIN worker[w] = WorkFields
      /\ DOMAIN staging = Threads /\ WorkerType(w)
  BY <1>1, AtWorkLoads DEF CopyInv, LoadTypes, LoadInv
<1>3. /\ worker[w].shard \in Shards /\ worker[w].shard # 0
      /\ Slot(w) \in 0 .. StagingSlots - 1
  <2>1. worker[w].shard \in Shards /\ worker[w].shard # 0
    BY <1>1, <1>2 DEF ClaimedBy
  <2> QED BY <1>2, <2>1, ChunkTypes DEF StagingSlots
<1>4. CASE /\ Faulty \/ (broken /\ UNCHANGED faults)
           /\ Abandon(w) /\ UNCHANGED staging
  <2>1. faults' \in Nat /\ faults' >= faults /\ faults' > 0
    BY <1>2, <1>4, FaultsCount
  <2>2. worker'[w].shard = worker[w].shard /\ worker'[w].hash = worker[w].hash
    BY <1>2, <1>4 DEF Abandon, WorkFields
  <2>3. AimedAt(w)'
    BY <1>1, <1>2, <2>2, AimedFrame
  <2> QED BY <1>1, <1>4, <2>1, <2>3, AbandonLoads
<1>5. ASSUME NEW good \in BOOLEAN, IF good THEN UNCHANGED faults ELSE Faulty,
             staging' = [staging EXCEPT ![w][Slot(w)] =
                           [shard |-> worker[w].shard,
                            begin |-> worker[w].offset, good |-> good]],
             worker' = [worker EXCEPT ![w].pc = "scatter",
                                      ![w].hash = @ /\ good],
             UNCHANGED <<next, outcome>>
      PROVE  LoadInv'
  <2> DEFINE c == [shard |-> worker[w].shard, begin |-> worker[w].offset,
                   good |-> good]
  <2>1. /\ \A v \in Threads \ {w} : worker'[v] = worker[v]
        /\ worker'[w].pc = "scatter" /\ worker'[w].shard = worker[w].shard
        /\ worker'[w].offset = worker[w].offset
        /\ worker'[w].copied = worker[w].copied
        /\ worker'[w].copies = worker[w].copies
        /\ (worker'[w].hash <=> worker[w].hash /\ good) /\ worker'[w].hash \in BOOLEAN
    BY <1>2, <1>5, Zenon DEF WorkFields
  <2>2. /\ \A v \in Threads \ {w} : staging'[v] = staging[v]
        /\ staging'[w] = [staging[w] EXCEPT ![Slot(w)] = c]
    BY <1>2, <1>5
  <2>3. staging'[w][Slot(w)] = c
    <3>1. Slot(w) \in DOMAIN staging[w]
      BY <1>2, <1>3 DEF WorkerType
    <3> HIDE DEF c
    <3> QED BY <2>2, <3>1
  <2>4. faults' \in Nat /\ faults' >= faults /\ (~ good => faults' > 0)
    BY <1>2, <1>5 DEF Faulty
  <2>5. ~ worker[w].hash => faults' > 0
    BY <1>2, <2>4 DEF Causes
  <2>6. Claims'
    <3>1. \A v \in Threads : /\ worker'[v].shard = worker[v].shard
                             /\ worker[v].pc \in Busy => worker'[v].pc \in Busy
      BY <2>1 DEF Busy
    <3> QED BY <1>1, <1>2, <1>5, <3>1, ClaimsFrame
  <2>7. \A s \in Shards : Arrived(s)'
    BY <1>1, <1>2, <1>5, ArrivedFrame
  <2>8. worker'[w].pc \in Busy
    BY <2>1 DEF Busy
  <2>9. ClaimedBy(w)'
    BY <1>1, <1>2, <1>3, <1>5, <2>1, <2>8, PlanFixed DEF ClaimedBy
  <2>10. AimedAt(w)'
    BY <1>1, <1>2, <2>1, AimedFrame
  <2>11. CountedAt(w)'
    <3>1. Slot(w)' = Slot(w)
      BY <2>1 DEF Slot
    <3>2. /\ \E q \in Nat : /\ worker[w].offset = EndOfChunk(worker[w].shard, q)
                            /\ worker[w].copies = HitSum(worker[w].shard, q)
          /\ worker[w].copied = PartSum(worker[w].shard, worker[w].offset)
      BY <1>1, <1>2 DEF CountedAt
    <3>3. Size(w)' = Size(w)
      BY <1>1, <2>1 DEF Size
    <3>4. /\ \E q \in Nat : /\ worker'[w].offset = EndOfChunk(worker[w].shard, q)
                            /\ worker'[w].copies = HitSum(worker[w].shard, q)
          /\ worker'[w].copied = PartSum(worker[w].shard, worker'[w].offset)
      BY <2>1, <3>2
    <3>5. (\E q \in Nat : /\ worker[w].offset = EndOfChunk(worker[w].shard, q)
                          /\ worker[w].copies = HitSum(worker[w].shard, q))'
          /\ worker'[w].copied = PartSum(worker[w].shard, worker[w].offset)'
      BY <1>1, <2>1, <3>4, PlanFixed
    <3>6. /\ staging'[w][Slot(w)].shard = worker'[w].shard
          /\ staging'[w][Slot(w)].begin = worker'[w].offset
          /\ staging'[w][Slot(w)].good \/ ~ worker'[w].hash
      BY <2>1, <2>3
    <3>7. worker'[w].offset < Size(w) /\ worker'[w].offset =< Size(w)
      <4>1. Size(w) \in Nat /\ worker[w].offset \in Nat
        BY <1>2, <1>3, ChunkTypes DEF WorkerType
      <4> QED BY <1>1, <2>1, <4>1
    <3> HIDE DEF c
    <3> QED BY <2>1, <3>1, <3>3, <3>5, <3>6, <3>7 DEF CountedAt
  <2>12. LandingAt(w)'
    <3>1. worker'[w].hash => worker[w].hash
      BY <2>1
    <3> QED BY <1>1, <1>2, <2>1, <3>1, PlanFixed
         DEF LandingAt, InArena, Covers, Carries, IsCopy
  <2>13. worker'[w].pc # "unborn"
         /\ (worker'[w].pc = "refused" \/ ~ worker'[w].hash => faults' > 0)
    BY <2>1, <2>4, <2>5
  <2> HIDE DEF c
  <2> QED BY <1>1, <1>2, <1>5, <2>1, <2>2, <2>4, <2>6, <2>7, <2>9, <2>10, <2>11,
             <2>12, <2>13, ThreadStep
<1> QED BY <1>4, <1>5 DEF Fill

\* The end of the file.
LEMMA AuthenticateLoads ==
  ASSUME CopyInv, LoadInv, NEW w \in Threads, Authenticate(w), life' = life
  PROVE  LoadInv'
<1>1. /\ worker[w].pc = "fill" /\ worker[w].pc \in Busy /\ worker[w].pc \notin Idle
      /\ worker[w].offset = Size(w)
      /\ UNCHANGED <<manifest, main, result, held, staging, stream, broken, arena,
                     life>>
  BY DEF Authenticate, Idle, Busy, deviceVars
<1>2. /\ Claims /\ (\A s \in Shards : Arrived(s)) /\ Causes
      /\ ClaimedBy(w) /\ AimedAt(w) /\ CountedAt(w) /\ LandingAt(w)
      /\ next \in Nat /\ faults \in Nat /\ main \in {"spawn", "join"} /\ LoadTypes
      /\ DOMAIN worker = Threads /\ DOMAIN worker[w] = WorkFields
      /\ WorkerType(w)
  BY <1>1, AtWorkLoads DEF CopyInv, LoadTypes, LoadInv
<1>3. worker[w].shard \in Shards /\ worker[w].shard # 0
  BY <1>1, <1>2 DEF ClaimedBy
<1>4. CASE Abandon(w) /\ (Faulty \/ (~ worker[w].hash /\ UNCHANGED faults))
  <2>1. faults' \in Nat /\ faults' >= faults /\ faults' > 0
    BY <1>2, <1>4 DEF Faulty, Causes
  <2>2. worker'[w].shard = worker[w].shard /\ worker'[w].hash = worker[w].hash
    BY <1>2, <1>4 DEF Abandon, WorkFields
  <2>3. AimedAt(w)'
    BY <1>1, <1>2, <2>2, AimedFrame
  <2> QED BY <1>1, <1>4, <2>1, <2>3, AbandonLoads
<1>5. CASE /\ worker[w].hash /\ worker' = [worker EXCEPT ![w].pc = "sync"]
           /\ UNCHANGED <<next, outcome, faults>>
  <2>1. /\ \A v \in Threads \ {w} : worker'[v] = worker[v]
        /\ worker'[w].pc = "sync" /\ worker'[w].shard = worker[w].shard
        /\ worker'[w].offset = worker[w].offset
        /\ worker'[w].copied = worker[w].copied
        /\ worker'[w].copies = worker[w].copies
        /\ worker'[w].hash = worker[w].hash
    BY <1>2, <1>5 DEF WorkFields
  <2>2. worker'[w].pc \in Busy
    BY <2>1 DEF Busy
  <2>3. Claims'
    <3>1. \A v \in Threads : /\ worker'[v].shard = worker[v].shard
                             /\ worker[v].pc \in Busy => worker'[v].pc \in Busy
      BY <2>1, <2>2
    <3> QED BY <1>1, <1>2, <1>5, <3>1, ClaimsFrame
  <2>4. \A s \in Shards : Arrived(s)'
    BY <1>1, <1>2, <1>5, ArrivedFrame
  <2>5. ClaimedBy(w)'
    BY <1>1, <1>2, <1>3, <1>5, <2>1, <2>2, PlanFixed DEF ClaimedBy
  <2>6. AimedAt(w)'
    BY <1>1, <1>2, <2>1, AimedFrame
  <2>7. CountedAt(w)'
    <3>1. Size(w)' = Size(w)
      BY <1>1, <2>1 DEF Size
    <3>2. /\ \E q \in Nat : /\ worker[w].offset = EndOfChunk(worker[w].shard, q)
                            /\ worker[w].copies = HitSum(worker[w].shard, q)
          /\ worker[w].copied = PartSum(worker[w].shard, worker[w].offset)
          /\ worker[w].offset =< Size(w)
      BY <1>1, <1>2 DEF CountedAt
    <3>3. (\E q \in Nat : /\ worker[w].offset = EndOfChunk(worker[w].shard, q)
                          /\ worker[w].copies = HitSum(worker[w].shard, q))'
          /\ worker'[w].copied = PartSum(worker[w].shard, worker[w].offset)'
      BY <1>1, <2>1, <3>2, PlanFixed
    <3> QED BY <1>1, <1>5, <2>1, <3>1, <3>2, <3>3 DEF CountedAt
  <2>8. LandingAt(w)'
    BY <1>1, <1>2, <2>1, PlanFixed DEF LandingAt, InArena, Covers, Carries, IsCopy
  <2>9. worker'[w].pc # "unborn" /\ worker'[w].pc # "refused" /\ worker'[w].hash
    BY <1>5, <2>1
  <2> QED BY <1>1, <1>2, <1>5, <2>1, <2>3, <2>4, <2>5, <2>6, <2>7, <2>8, <2>9,
             ThreadStep
<1> QED BY <1>4, <1>5 DEF Authenticate

\* The stream is empty: what the worker has read is in the arena.
LEMMA SyncLoads ==
  ASSUME CopyInv, LoadInv, NEW w \in Threads, Sync(w), life' = life
  PROVE  LoadInv'
<1> DEFINE s == worker[w].shard
<1>1. /\ worker[w].pc = "sync" /\ worker[w].pc \in Busy /\ worker[w].pc \notin Idle
      /\ stream[w] = <<>>
      /\ UNCHANGED <<manifest, main, result, held, staging, stream, broken, arena,
                     life>>
  BY DEF Sync, Idle, Busy, deviceVars, Drained
<1>2. /\ Claims /\ (\A t \in Shards : Arrived(t)) /\ Planned
      /\ ClaimedBy(w) /\ AimedAt(w) /\ CountedAt(w) /\ LandingAt(w)
      /\ next \in Nat /\ faults \in Nat /\ main \in {"spawn", "join"}
      /\ DOMAIN worker = Threads /\ DOMAIN worker[w] = WorkFields
  BY <1>1, AtWorkLoads
<1>3. s \in Shards /\ s # 0 /\ s < next /\ outcome[s].status = "none"
  BY <1>1, <1>2 DEF ClaimedBy
<1>4. CASE (Faulty \/ (broken /\ UNCHANGED faults)) /\ Abandon(w)
  <2>1. faults' \in Nat /\ faults' >= faults /\ faults' > 0
    BY <1>2, <1>4, FaultsCount
  <2>2. AimedAt(w)'
    BY <1>1, NothingQueued DEF AimedAt
  <2> QED BY <1>1, <1>4, <2>1, <2>2, AbandonLoads
<1>5. CASE /\ ~ broken
           /\ outcome' = [outcome EXCEPT ![worker[w].shard] =
                [status |-> "ok", read |-> Size(w), copied |-> worker[w].copied,
                 copies |-> worker[w].copies]]
           /\ worker' = [worker EXCEPT ![w] = [NoWork EXCEPT !.pc = "claim"]]
           /\ UNCHANGED <<next, faults>>
  <2>1. /\ \A v \in Threads \ {w} : worker'[v] = worker[v]
        /\ worker'[w].pc = "claim" /\ worker'[w].shard = 0
        /\ worker'[w].hash = TRUE
    BY <1>2, <1>5 DEF NoWork
  <2>2. /\ DOMAIN outcome' = Shards
        /\ \A t \in Shards : t # s => outcome'[t] = outcome[t]
        /\ outcome'[s] = [status |-> "ok", read |-> Size(w),
                          copied |-> worker[w].copied, copies |-> worker[w].copies]
    BY <1>2, <1>3, <1>5 DEF Claims
  <2>3. /\ "status" \in DOMAIN outcome'[s] /\ outcome'[s].status = "ok"
        /\ outcome'[s].read = Size(w) /\ outcome'[s].copied = worker[w].copied
        /\ outcome'[s].copies = worker[w].copies
    BY <2>2
  <2>4. worker[w].hash /\ worker[w].offset = Size(w) /\ Size(w) = manifest.sizes[s]
    BY <1>1, <1>2 DEF CountedAt, Size
  <2>5. /\ worker[w].copied = SumFunctionOnSet(ByteCounts, Index(s))
        /\ worker[w].copies = SumFunctionOnSet(Spans, Index(s))
    <3>1. worker[w].copied = PartSum(s, manifest.sizes[s])
      BY <1>1, <1>2, <2>4 DEF CountedAt
    <3>2. PICK q \in Nat : /\ worker[w].offset = EndOfChunk(s, q)
                           /\ worker[w].copies = HitSum(s, q)
      BY <1>1, <1>2 DEF CountedAt
    <3>3. manifest.sizes[s] \in Nat /\ q * ChunkBytes \in Nat
      BY <1>2, <1>3, <3>2, ChunkOf, TotalsAre
    <3>4. manifest.sizes[s] =< q * ChunkBytes
      <4> HIDE DEF s
      <4> QED BY <2>4, <3>2, <3>3 DEF EndOfChunk
    <3> HIDE DEF s
    <3> QED BY <1>2, <1>3, <3>1, <3>2, <3>4, SumsOfShard
  <2>6. \A i \in Index(s) : \A b \in 0 .. Bytes(Tensors[i]) - 1 : InArena(i, b)
    <3> SUFFICES ASSUME NEW i \in Index(s), NEW b \in 0 .. Bytes(Tensors[i]) - 1
                 PROVE  InArena(i, b)
      OBVIOUS
    <3>1. /\ Tensors[i].begin \in Nat /\ Tensors[i].end \in Nat
          /\ Tensors[i].end =< manifest.sizes[s]
      BY <1>2, TensorIs DEF Index
    <3>2. Tensors[i].begin + b < manifest.sizes[s]
      <4>1. manifest.sizes[s] \in Nat
        BY <1>2, <1>3, TotalsAre
      <4> HIDE DEF s
      <4> QED BY <3>1, <4>1 DEF Bytes
    <3> QED BY <1>1, <1>2, <1>5, <2>4, <3>2, NothingQueued DEF LandingAt
  <2> HIDE DEF s
  <2>7. Shards' = Shards
    BY <1>1, PlanFixed
  <2>8. \A t \in Shards : t = s => Arrived(t)'
    <3>1. \A t \in Shards : t = s =>
            /\ \A i \in Index(t) : \A b \in 0 .. Bytes(Tensors[i]) - 1 : InArena(i, b)
            /\ outcome'[t].read = manifest.sizes[t]
            /\ outcome'[t].copied = SumFunctionOnSet(ByteCounts, Index(t))
            /\ outcome'[t].copies = SumFunctionOnSet(Spans, Index(t))
      BY <2>3, <2>4, <2>5, <2>6
    <3> QED BY <1>1, <3>1, PlanFixed DEF Arrived, InArena
  <2>9. \A t \in Shards : Arrived(t)'
    <3>1. \A t \in Shards : t # s => Arrived(t)'
      BY <1>1, <1>2, <2>2, ArrivedFrame
    <3> QED BY <2>8, <3>1
  <2>10. Claims'
    <3>1. ASSUME NEW t \in Shards, t < next, outcome'[t].status = "none"
          PROVE  \E v \in Threads : worker'[v].pc \in Busy /\ worker'[v].shard = t
      <4>1. t # s /\ outcome[t].status = "none"
        BY <2>2, <2>3, <3>1
      <4>2. PICK v \in Threads : worker[v].pc \in Busy /\ worker[v].shard = t
        BY <1>2, <3>1, <4>1 DEF Claims
      <4>3. v # w
        BY <4>1, <4>2 DEF s
      <4> QED BY <2>1, <4>2, <4>3
    <3>2. \A u, v \in Threads : worker'[u].shard = worker'[v].shard =>
            u = v \/ worker'[u].shard = 0
      BY <1>2, <2>1 DEF Claims
    <3>3. \A t \in Shards : t >= next => outcome'[t].status = "none"
      <4>1. ~ (s >= next)
        BY <1>2, <1>3 DEF Shards
      <4> QED BY <1>2, <2>2, <4>1 DEF Claims
    <3>4. \A t \in Shards : /\ "status" \in DOMAIN outcome'[t]
                            /\ outcome'[t].status \in {"none", "ok", "failed"}
      BY <1>2, <2>2, <2>3 DEF Claims
    <3> QED BY <1>2, <1>5, <2>2, <2>7, <3>1, <3>2, <3>3, <3>4 DEF Claims
  <2>11. ClaimedBy(w)'
    BY <1>1, <2>1 DEF ClaimedBy, Busy
  <2>12. CountedAt(w)' /\ LandingAt(w)'
    BY <2>1 DEF CountedAt, LandingAt, Busy
  <2>13. AimedAt(w)'
    BY <1>1, NothingQueued DEF AimedAt
  <2>14. \A t \in Shards : t # worker[w].shard => outcome'[t] = outcome[t]
    BY <2>2 DEF s
  <2>15. \A t \in Shards : outcome'[t].status = "failed" => outcome[t].status = "failed"
    BY <2>2, <2>3
  <2>16. worker'[w].pc # "unborn" /\ worker'[w].pc # "refused" /\ worker'[w].hash
    BY <2>1
  <2> QED BY <1>1, <1>2, <1>5, <2>1, <2>9, <2>10, <2>11, <2>12, <2>13, <2>14, <2>15,
             <2>16, ThreadStep
<1> QED BY <1>4, <1>5 DEF Sync

\* What a queue holds once more is queued behind it.
LEMMA QueueGrows ==
  ASSUME NEW q, IsSeq(q), NEW n \in Nat, NEW t, t = [k \in 1 .. n |-> t[k]]
  PROVE  /\ IsSeq(q \o t) /\ Len(q) \in Nat
         /\ \A i \in DOMAIN q : i \in DOMAIN (q \o t) /\ (q \o t)[i] = q[i]
         /\ \A k \in 1 .. n : /\ Len(q) + k \in DOMAIN (q \o t)
                              /\ (q \o t)[Len(q) + k] = t[k]
         /\ \A i \in DOMAIN (q \o t) :
              i \in DOMAIN q \/ \E k \in 1 .. n : i = Len(q) + k
<1>1. IsSeq(t) /\ Len(t) = n
  <2> DEFINE R == {t[k] : k \in 1 .. n}
  <2>1. \A k \in 1 .. n : t[k] \in R
    OBVIOUS
  <2> HIDE DEF R
  <2>2. t \in Seq(R) /\ Len(t) = n
    BY <2>1
  <2> QED BY <2>2, IsSeqOf
<1>2. /\ IsSeq(q \o t) /\ Len(q) \in Nat
      /\ DOMAIN q = 1 .. Len(q)
      /\ DOMAIN (q \o t) = 1 .. Len(q) + n
      /\ \A i \in 1 .. Len(q) + n :
           (q \o t)[i] = IF i =< Len(q) THEN q[i] ELSE t[i - Len(q)]
  BY <1>1, ConcatFacts
<1>3. \A i \in DOMAIN q : i \in DOMAIN (q \o t) /\ (q \o t)[i] = q[i]
  BY <1>2
<1>4. \A k \in 1 .. n : /\ Len(q) + k \in DOMAIN (q \o t)
                        /\ (q \o t)[Len(q) + k] = t[k]
  <2> TAKE k \in 1 .. n
  <2>1. Len(q) + k \in 1 .. Len(q) + n /\ ~ (Len(q) + k =< Len(q))
        /\ Len(q) + k - Len(q) = k
    BY <1>2
  <2> QED BY <1>2, <2>1
<1>5. \A i \in DOMAIN (q \o t) :
        i \in DOMAIN q \/ \E k \in 1 .. n : i = Len(q) + k
  <2> TAKE i \in DOMAIN (q \o t)
  <2>1. i \in 1 .. Len(q) + n /\ (i \in 1 .. Len(q) \/ i - Len(q) \in 1 .. n)
    BY <1>2
  <2>2. i = Len(q) + (i - Len(q))
    BY <1>2, <2>1
  <2> QED BY <1>2, <2>1, <2>2
<1> QED BY <1>2, <1>3, <1>4, <1>5

\* The part of a tensor in a chunk goes where it belongs.
LEMMA CopyCarries ==
  ASSUME Planned, NEW from \in Nat, NEW to \in Nat, from < to, NEW s,
         NEW i \in Touched(s, from, to), NEW op,
         op.at = CopyOf(i, from, to).at, op.from = CopyOf(i, from, to).from,
         op.bytes = CopyOf(i, from, to).bytes,
         op.chunk.shard = s, op.chunk.begin = from
  PROVE  /\ i \in Indices /\ Carries(op, i)
         /\ \A b \in 0 .. Bytes(Tensors[i]) - 1 :
              from =< Tensors[i].begin + b /\ Tensors[i].begin + b < to =>
                Covers(op, i, b)
<1>1. /\ i \in Indices /\ Tensors[i].shard = s
      /\ Tensors[i].begin < to /\ from < Tensors[i].end
  BY DEF Touched
<1>2. /\ Tensors[i].begin \in Nat /\ Tensors[i].end \in Nat
      /\ Tensors[i].begin < Tensors[i].end /\ ArenaOffset(i) \in Nat
  BY <1>1, TensorIs, PlacesApart
<1>3. /\ op.at = ArenaOffset(i) + (Lo(i, from) - Tensors[i].begin)
      /\ op.from = Lo(i, from) - from /\ op.bytes = Hi(i, to) - Lo(i, from)
  BY DEF CopyOf
<1>4. /\ Lo(i, from) \in Nat /\ Hi(i, to) \in Nat /\ Lo(i, from) < Hi(i, to)
      /\ Tensors[i].begin =< Lo(i, from) /\ from =< Lo(i, from)
      /\ Hi(i, to) =< Tensors[i].end
  BY <1>1, <1>2 DEF Lo, Hi
<1> DEFINE a == ArenaOffset(i)
           l == Lo(i, from)
           h == Hi(i, to)
           x == Tensors[i].begin
           y == Tensors[i].end
<1>5. Carries(op, i)
  <2>1. /\ op.at = a + (l - x) /\ op.from = l - from /\ op.bytes = h - l
        /\ a \in Nat /\ l \in Nat /\ h \in Nat /\ x \in Nat /\ y \in Nat
        /\ l < h /\ x =< l /\ from =< l /\ h =< y
    BY <1>2, <1>3, <1>4
  <2> HIDE DEF a, l, h, x, y
  <2>2. op.at \in Nat /\ op.from \in Nat /\ op.bytes \in Nat
    BY <2>1
  <2>3. a =< op.at /\ op.at + op.bytes =< a + (y - x)
    BY <2>1
  <2>4. from + op.from + a = x + op.at
    BY <2>1
  <2> QED BY <1>1, <2>2, <2>3, <2>4 DEF Carries, Bytes, a, x, y
<1>6. \A b \in 0 .. Bytes(Tensors[i]) - 1 :
        from =< Tensors[i].begin + b /\ Tensors[i].begin + b < to =>
          op.at =< ArenaOffset(i) + b /\ ArenaOffset(i) + b < op.at + op.bytes
  <2> TAKE b \in 0 .. Bytes(Tensors[i]) - 1
  <2> HAVE from =< Tensors[i].begin + b /\ Tensors[i].begin + b < to
  <2>1. b \in Nat /\ Tensors[i].begin + b < Tensors[i].end
    BY <1>2 DEF Bytes
  <2>2. Lo(i, from) =< Tensors[i].begin + b /\ Tensors[i].begin + b < Hi(i, to)
    BY <1>2, <2>1 DEF Lo, Hi
  <2>3. /\ op.at = a + (l - x) /\ op.bytes = h - l
        /\ a \in Nat /\ l \in Nat /\ h \in Nat /\ x \in Nat
        /\ l =< x + b /\ x + b < h /\ b \in Nat
    BY <1>2, <1>3, <1>4, <2>1, <2>2
  <2> HIDE DEF a, l, h, x, y
  <2>4. op.at =< a + b /\ a + b < op.at + op.bytes
    BY <2>3
  <2> QED BY <2>4 DEF a
<1> QED BY <1>1, <1>5, <1>6 DEF Covers

\* A worker at a chunk: where the chunk ends, and that its copies are within the
\* plan.
LEMMA ChunkFits ==
  ASSUME CopyInv, LoadInv, NEW w \in Threads, worker[w].pc = "scatter",
         NEW s, s = worker[w].shard, NEW from, from = worker[w].offset,
         NEW to, to = ChunkEnd(w)
  PROVE  /\ s \in Shards /\ from \in Nat /\ to \in Nat /\ from < to /\ to =< Size(w)
         /\ worker[w].copies + Len(Scatter(s, from, to)) =< MaxCopies
         /\ Len(Scatter(s, from, to)) \in Nat
         /\ worker[w].copied + Total(LAMBDA c : c.bytes, Scatter(s, from, to)) =
              PartSum(s, to)
         /\ \E q \in Nat : /\ to = EndOfChunk(s, q)
                           /\ worker[w].copies + Len(Scatter(s, from, to)) = HitSum(s, q)
<1>1. worker[w].pc \in Busy /\ worker[w].pc \notin Idle
  BY DEF Idle, Busy
<1>2. /\ Planned /\ PlannedCopies =< MaxCopies /\ ClaimedBy(w) /\ CountedAt(w)
      /\ LoadTypes /\ WorkerType(w)
  BY <1>1, AtWorkLoads DEF CopyInv, LoadTypes
<1>3. s \in Shards
  BY <1>1, <1>2 DEF ClaimedBy
<1>4. /\ Size(w) \in Nat /\ Size(w) = manifest.sizes[s] /\ from \in Nat
      /\ from < Size(w)
  BY <1>1, <1>2, <1>3, ChunkTypes DEF WorkerType, Size, CountedAt
<1>5. PICK q \in Nat : from = EndOfChunk(s, q) /\ worker[w].copies = HitSum(s, q)
  BY <1>1, <1>2 DEF CountedAt
<1>6. /\ q * ChunkBytes \in Nat /\ (q + 1) * ChunkBytes = q * ChunkBytes + ChunkBytes
      /\ ChunkBytes \in Nat \ {0}
  BY <1>5, ChunkOf
<1>7. from = q * ChunkBytes
  BY <1>4, <1>5, <1>6 DEF EndOfChunk
<1>8. to = IF from + ChunkBytes =< Size(w) THEN from + ChunkBytes ELSE Size(w)
  <2>1. from + ChunkBytes \in Int /\ Size(w) \in Int
    BY <1>4, <1>6
  <2> QED BY <2>1, MinIs DEF ChunkEnd
<1>9. to = EndOfChunk(s, q + 1)
  BY <1>4, <1>6, <1>7, <1>8 DEF EndOfChunk
<1>10. to \in Nat /\ from < to /\ to =< Size(w)
  BY <1>4, <1>6, <1>8
<1>11. HitSum(s, q + 1) = HitSum(s, q) + Len(Scatter(s, from, to))
  <2>1. q * ChunkBytes < manifest.sizes[s]
    BY <1>4, <1>7
  <2> QED BY <1>2, <1>3, <1>5, <1>9, <2>1, HitStep
<1>12. worker[w].copied + Total(LAMBDA c : c.bytes, Scatter(s, from, to)) =
         PartSum(s, to)
  <2>1. worker[w].copied = PartSum(s, from)
    BY <1>1, <1>2 DEF CountedAt
  <2>2. from =< to
    BY <1>4, <1>10
  <2>3. PartSum(s, to) =
          PartSum(s, from) + Total(LAMBDA c : c.bytes, Scatter(s, from, to))
    BY <1>2, <1>4, <1>10, <2>2, PartStep
  <2> QED BY <2>1, <2>3
<1>13. q + 1 \in Nat /\ HitSum(s, q + 1) =< MaxCopies
  <2>1. q + 1 \in Nat
    OBVIOUS
  <2>2. HitSum(s, q + 1) \in Nat /\ HitSum(s, q + 1) =< PlannedCopies
    BY <1>2, <1>3, <2>1, SumsOfShard
  <2>3. PlannedCopies \in Int
    BY <1>2, TotalsAre, TextIs, SumType
  <2> QED BY <1>2, <2>1, <2>2, <2>3
<1>14. Len(Scatter(s, from, to)) \in Nat
  BY <1>2, ScatterIsSeq
<1> QED BY <1>3, <1>4, <1>5, <1>9, <1>10, <1>11, <1>12, <1>13, <1>14

\* The copies of a chunk: one for every tensor it touches, within the plan.
LEMMA EnqueueLoads ==
  ASSUME CopyInv, LoadInv, NEW w \in Threads, Enqueue(w), life' = life
  PROVE  LoadInv'
<1> DEFINE s == worker[w].shard
           from == worker[w].offset
           to == ChunkEnd(w)
           copies == Scatter(worker[w].shard, worker[w].offset, ChunkEnd(w))
           chunk == staging[w][Slot(w)]
           op(k) == [kind |-> "copy", slot |-> Slot(w), at |-> copies[k].at,
                     from |-> copies[k].from, bytes |-> copies[k].bytes,
                     chunk |-> staging[w][Slot(w)]]
           ops(n) == [k \in 1 .. n |-> op(k)]
           event == [kind |-> "event", slot |-> Slot(w)]
           allowed == Min({Len(copies), MaxCopies - worker[w].copies})
           q == stream[w]
           X == Touched(s, from, to)
           m == Cardinality(X)
<1>1. /\ worker[w].pc = "scatter" /\ worker[w].pc \in Busy /\ worker[w].pc \notin Idle
      /\ UNCHANGED <<manifest, main, result, held, staging, broken, arena, life>>
  BY DEF Enqueue, Idle, Busy
<1>2. /\ Claims /\ (\A t \in Shards : Arrived(t)) /\ Causes /\ Planned
      /\ ClaimedBy(w) /\ AimedAt(w) /\ CountedAt(w) /\ LandingAt(w)
      /\ next \in Nat /\ faults \in Nat /\ main \in {"spawn", "join"}
      /\ DOMAIN worker = Threads /\ DOMAIN worker[w] = WorkFields
      /\ DOMAIN stream = Threads /\ DOMAIN staging = Threads /\ IsSeq(q)
      /\ worker[w].copies \in Nat
  BY <1>1, AtWorkLoads DEF CopyInv, LoadTypes, LoadInv, WorkerType
<1>3. /\ s \in Shards /\ from \in Nat /\ to \in Nat /\ from < to /\ to =< Size(w)
      /\ worker[w].copies + Len(copies) =< MaxCopies /\ Len(copies) \in Nat
      /\ worker[w].copied + Total(LAMBDA c : c.bytes, copies) = PartSum(s, to)
      /\ \E z \in Nat : to = EndOfChunk(s, z)
                        /\ worker[w].copies + Len(copies) = HitSum(s, z)
  BY <1>1, ChunkFits
<1>4. /\ chunk.shard = s /\ chunk.begin = from /\ (chunk.good \/ ~ worker[w].hash)
  BY <1>1, <1>2 DEF CountedAt
<1>5. allowed = Len(copies) /\ m \in Nat /\ Len(copies) = m
  <2>1. allowed = Len(copies)
    <3> DEFINE x == Len(copies)
               y == MaxCopies - worker[w].copies
    <3>1. x \in Int /\ y \in Int /\ x =< y
      <4> HIDE DEF copies
      <4> QED BY <1>2, <1>3
    <3>2. allowed = Min({x, y})
      OBVIOUS
    <3> HIDE DEF x, y, allowed
    <3>3. Min({x, y}) = x
      BY <3>1, MinIs
    <3> QED BY <3>2, <3>3 DEF x
  <2>2. m \in Nat /\ Len(copies) = m
    BY <1>2, <1>3, ScatterIs
  <2> QED BY <2>1, <2>2
<1>6. PICK r : CopiesOf(X, copies, r, from, to)
  BY <1>2, <1>3, ScatterIs
<1>7. /\ \A k \in 1 .. m : r[k] \in X /\ copies[k] = CopyOf(r[k], from, to)
      /\ \A i \in X : \E k \in 1 .. m : r[k] = i
  BY <1>6 DEF CopiesOf, Listing
<1>8. \A k \in 1 .. m :
        /\ op(k).kind = "copy" /\ op(k).chunk = chunk
        /\ r[k] \in Indices /\ Carries(op(k), r[k])
        /\ \A b \in 0 .. Bytes(Tensors[r[k]]) - 1 :
             from =< Tensors[r[k]].begin + b /\ Tensors[r[k]].begin + b < to =>
               Covers(op(k), r[k], b)
  <2> TAKE k \in 1 .. m
  <2> DEFINE o == op(k)
             i == r[k]
  <2>1. i \in X /\ copies[k] = CopyOf(i, from, to)
    BY <1>7
  <2>2. /\ o.kind = "copy" /\ o.chunk = chunk /\ o.at = copies[k].at
        /\ o.from = copies[k].from /\ o.bytes = copies[k].bytes
    OBVIOUS
  <2> HIDE DEF o, i, X, copies, s, from, to, chunk
  <2>3. /\ i \in Indices /\ Carries(o, i)
        /\ \A b \in 0 .. Bytes(Tensors[i]) - 1 :
             from =< Tensors[i].begin + b /\ Tensors[i].begin + b < to =>
               Covers(o, i, b)
    BY <1>2, <1>3, <1>4, <2>1, <2>2, CopyCarries DEF X
  <2> QED BY <2>2, <2>3 DEF o, i
<1> HIDE DEF op
\* The queue with n of the copies behind it.
<1>9. ASSUME NEW n \in 0 .. m
      PROVE  /\ IsSeq(q \o ops(n)) /\ Len(q) \in Nat
             /\ \A i \in DOMAIN q : i \in DOMAIN (q \o ops(n)) /\ (q \o ops(n))[i] = q[i]
             /\ \A k \in 1 .. n : /\ Len(q) + k \in DOMAIN (q \o ops(n))
                                  /\ (q \o ops(n))[Len(q) + k] = op(k)
             /\ \A i \in DOMAIN (q \o ops(n)) : i \in DOMAIN q \/
                  \E k \in 1 .. m : (q \o ops(n))[i] = op(k)
  <2>1. n \in Nat /\ \A k \in 1 .. n : k \in 1 .. m
    BY <1>5
  <2>2. ops(n) = [k \in 1 .. n |-> ops(n)[k]] /\ \A k \in 1 .. n : ops(n)[k] = op(k)
    OBVIOUS
  <2> HIDE DEF ops, q, m
  <2>3. /\ IsSeq(q \o ops(n)) /\ Len(q) \in Nat
        /\ \A i \in DOMAIN q : i \in DOMAIN (q \o ops(n)) /\ (q \o ops(n))[i] = q[i]
        /\ \A k \in 1 .. n : /\ Len(q) + k \in DOMAIN (q \o ops(n))
                             /\ (q \o ops(n))[Len(q) + k] = ops(n)[k]
        /\ \A i \in DOMAIN (q \o ops(n)) :
             i \in DOMAIN q \/ \E k \in 1 .. n : i = Len(q) + k
    BY <1>2, <2>1, <2>2, QueueGrows
  <2>4. \A k \in 1 .. n : (q \o ops(n))[Len(q) + k] = op(k)
    BY <2>2, <2>3
  <2> QED BY <2>1, <2>3, <2>4
<1> DEFINE Aim(Q) == \A i \in DOMAIN Q : Q[i].kind = "copy" =>
                       /\ Q[i].chunk.shard = s /\ (Q[i].chunk.good \/ ~ worker[w].hash)
                       /\ \E j \in Indices : Carries(Q[i], j)
<1>10. \A n \in 0 .. m : Aim(q \o ops(n))
  <2> TAKE n \in 0 .. m
  <2> DEFINE Q == q \o ops(n)
  <2>1. \A i \in DOMAIN Q : \/ i \in DOMAIN q /\ Q[i] = q[i]
                            \/ \E k \in 1 .. m : Q[i] = op(k)
    BY <1>9
  <2>2. \A i \in DOMAIN q : q[i].kind = "copy" =>
          /\ q[i].chunk.shard = s /\ (q[i].chunk.good \/ ~ worker[w].hash)
          /\ \E j \in Indices : Carries(q[i], j)
    BY <1>2 DEF AimedAt, IsCopy
  <2>3. \A k \in 1 .. m :
          /\ op(k).chunk.shard = s /\ (op(k).chunk.good \/ ~ worker[w].hash)
          /\ \E j \in Indices : Carries(op(k), j)
    BY <1>4, <1>8
  <2> HIDE DEF Q, q, s, m
  <2>4. Aim(Q)
    BY <2>1, <2>2, <2>3
  <2> QED BY <2>4 DEF Q
<1>11. ASSUME Aim(stream'[w]), worker'[w].shard = s, worker'[w].hash = worker[w].hash
       PROVE  AimedAt(w)'
  BY <1>1, <1>11, PlanFixed DEF AimedAt, IsCopy, Carries
<1>12. ASSUME Abandon(w), Faulty \/ (broken /\ UNCHANGED faults), Aim(stream'[w]),
              \A v \in Threads \ {w} : stream'[v] = stream[v]
       PROVE  LoadInv'
  <2>1. faults' \in Nat /\ faults' >= faults /\ faults' > 0
    BY <1>2, <1>12, FaultsCount
  <2>2. worker'[w].shard = s /\ worker'[w].hash = worker[w].hash
    BY <1>2, <1>12 DEF Abandon, WorkFields
  <2>3. AimedAt(w)'
    BY <1>11, <1>12, <2>2
  <2> QED BY <1>1, <1>12, <2>1, <2>3, AbandonLoads
<1>13. ASSUME ~ broken,
              stream' = [stream EXCEPT ![w] = (@ \o ops(allowed)) \o <<event>>],
              worker' = [worker EXCEPT
                ![w].pc = "fill", ![w].offset = ChunkEnd(w),
                ![w].pending = @ \cup {Slot(w)},
                ![w].copied = @ + Total(LAMBDA c : c.bytes, copies),
                ![w].copies = @ + Len(copies)],
              UNCHANGED <<next, outcome, faults>>
       PROVE  LoadInv'
  <2> DEFINE R == q \o ops(m)
             Q == R \o <<event>>
             total == Total(LAMBDA c : c.bytes, copies)
  <2>1. /\ DOMAIN worker' = Threads
        /\ \A v \in Threads \ {w} : worker'[v] = worker[v]
        /\ worker'[w].pc = "fill" /\ worker'[w].offset = to
        /\ worker'[w].copied = worker[w].copied + total
        /\ worker'[w].copies = worker[w].copies + Len(copies)
        /\ worker'[w].shard = s /\ worker'[w].hash = worker[w].hash
    <3>1. worker' = [worker EXCEPT
                ![w].pc = "fill", ![w].offset = to,
                ![w].pending = @ \cup {Slot(w)},
                ![w].copied = @ + total,
                ![w].copies = @ + Len(copies)]
      BY <1>13
    <3> HIDE DEF copies, total, to
    <3> QED BY <1>2, <3>1 DEF WorkFields
  <2>2. stream'[w] = Q /\ \A v \in Threads \ {w} : stream'[v] = stream[v]
    <3>1. stream' = [stream EXCEPT ![w] = (@ \o ops(m)) \o <<event>>]
      BY <1>5, <1>13
    <3> HIDE DEF ops, m, event
    <3> QED BY <1>2, <3>1
  <2>3. m \in 0 .. m
    BY <1>5
  <2>4. /\ \A i \in DOMAIN R : i \in DOMAIN Q /\ Q[i] = R[i]
        /\ \A i \in DOMAIN Q : i \in DOMAIN R \/ Q[i] = event
    <3>1. IsSeq(R)
      BY <1>9, <2>3
    <3>2. <<event>> = [k \in 1 .. 1 |-> <<event>>[k]] /\ <<event>>[1] = event
      <4> HIDE DEF event
      <4> QED OBVIOUS
    <3> HIDE DEF R, event
    <3>3. /\ \A i \in DOMAIN R : i \in DOMAIN Q /\ Q[i] = R[i]
          /\ \A k \in 1 .. 1 : Q[Len(R) + k] = <<event>>[k]
          /\ \A i \in DOMAIN Q :
              i \in DOMAIN R \/ \E k \in 1 .. 1 : i = Len(R) + k
      BY <3>1, <3>2, QueueGrows
    <3>4. \A k \in 1 .. 1 : <<event>>[k] = event
      BY <3>2
    <3> HIDE DEF Q
    <3> QED BY <3>3, <3>4
  <2>5. Aim(Q)
    <3>1. Aim(R)
      BY <1>10, <2>3
    <3>2. event.kind # "copy"
      OBVIOUS
    <3> HIDE DEF R, Q, event, s
    <3> QED BY <2>4, <3>1, <3>2
  <2>6. AimedAt(w)'
    BY <1>11, <2>1, <2>2, <2>5
  <2>7. Claims'
    <3>1. \A v \in Threads : /\ worker'[v].shard = worker[v].shard
                             /\ worker[v].pc \in Busy => worker'[v].pc \in Busy
      BY <2>1 DEF Busy
    <3> QED BY <1>1, <1>2, <1>13, <3>1, ClaimsFrame
  <2>8. \A t \in Shards : Arrived(t)'
    BY <1>1, <1>2, <1>13, ArrivedFrame
  <2>9. ClaimedBy(w)'
    <3>1. worker'[w].pc \in Busy /\ s # 0
      BY <1>1, <1>2, <2>1 DEF Busy, ClaimedBy
    <3>2. next' = next /\ outcome' = outcome /\ Shards' = Shards
      BY <1>1, <1>13, PlanFixed
    <3>3. worker'[w].shard = worker[w].shard /\ worker'[w].hash = worker[w].hash
      BY <2>1
    <3>4. ClaimedBy(w) /\ worker[w].pc \in Busy /\ worker'[w].pc # "ended"
      BY <1>1, <1>2, <2>1
    <3> QED BY <1>3, <3>1, <3>2, <3>3, <3>4 DEF ClaimedBy
  <2>10. CountedAt(w)'
    <3>1. /\ \E z \in Nat : /\ worker'[w].offset = EndOfChunk(worker'[w].shard, z)
                            /\ worker'[w].copies = HitSum(worker'[w].shard, z)
          /\ worker'[w].copied = PartSum(worker'[w].shard, worker'[w].offset)
      BY <1>3, <2>1
    <3>2. (\E z \in Nat : /\ worker[w].offset = EndOfChunk(worker[w].shard, z)
                          /\ worker[w].copies = HitSum(worker[w].shard, z))'
          /\ worker'[w].copied = PartSum(worker[w].shard, worker[w].offset)'
      BY <1>1, <3>1, PlanFixed
    <3>3. Size(w)' = Size(w) /\ worker'[w].offset =< Size(w)
      BY <1>1, <1>3, <2>1 DEF Size
    <3> QED BY <2>1, <3>2, <3>3 DEF CountedAt
  <2>11. LandingAt(w)'
    <3>1. ASSUME worker[w].hash, NEW i \in Index(s), NEW b \in 0 .. Bytes(Tensors[i]) - 1,
                 Tensors[i].begin + b < to
          PROVE  \/ InArena(i, b)
                 \/ \E n \in DOMAIN Q : Q[n].kind = "copy" /\ Covers(Q[n], i, b)
      <4>1. /\ i \in Indices /\ Tensors[i].shard = s
            /\ Tensors[i].begin \in Nat /\ Tensors[i].end \in Nat
            /\ Tensors[i].begin < Tensors[i].end
        BY <1>2, TensorIs DEF Index
      <4>2. \A n \in DOMAIN q : n \in DOMAIN Q /\ Q[n] = q[n]
        <5>1. \A n \in DOMAIN q : n \in DOMAIN R /\ R[n] = q[n]
          BY <1>9, <2>3
        <5> HIDE DEF R, Q, q
        <5> QED BY <2>4, <5>1
      <4>3. CASE Tensors[i].begin + b < from
        <5>1. \/ InArena(i, b)
              \/ \E n \in DOMAIN q : q[n].kind = "copy" /\ Covers(q[n], i, b)
          BY <1>1, <1>2, <1>13, <3>1, <4>3 DEF LandingAt, IsCopy
        <5> HIDE DEF Q, q
        <5> QED BY <4>2, <5>1
      <4>4. CASE ~ (Tensors[i].begin + b < from)
        <5>1. /\ from =< Tensors[i].begin + b /\ from < Tensors[i].end
              /\ Tensors[i].begin < to
          <6>1. b \in Nat /\ Tensors[i].begin + b < Tensors[i].end
            BY <4>1 DEF Bytes
          <6>2. from \in Nat /\ Tensors[i].begin \in Nat /\ Tensors[i].end \in Nat /\ to \in Nat
            BY <1>3, <4>1
          <6> HIDE DEF from, to
          <6>3. PICK f \in Nat, t \in Nat, x \in Nat, y \in Nat :
                  f = from /\ t = to /\ x = Tensors[i].begin /\ y = Tensors[i].end
            BY <6>2
          <6>4. x + b < t /\ ~ (x + b < f) /\ x + b < y
            BY <3>1, <4>4, <6>1, <6>3
          <6>5. f =< x + b /\ f < y /\ x < t
            BY <6>1, <6>4
          <6> QED BY <6>3, <6>5
        <5>2. i \in X
          BY <4>1, <5>1 DEF Touched
        <5>3. PICK k \in 1 .. m : r[k] = i
          BY <1>7, <5>2
        <5>4. op(k).kind = "copy" /\ Covers(op(k), i, b)
          BY <1>8, <3>1, <5>1, <5>3
        <5>5. Len(q) + k \in DOMAIN R /\ R[Len(q) + k] = op(k)
          BY <1>9, <2>3
        <5> HIDE DEF R, Q, q
        <5>6. Len(q) + k \in DOMAIN Q /\ Q[Len(q) + k] = op(k)
          BY <2>4, <5>5
        <5> QED BY <5>4, <5>6
      <4> QED BY <4>3, <4>4
    <3> HIDE DEF Q, s, to
    <3>2. ASSUME worker'[w].hash, NEW i \in Index(worker'[w].shard),
                 NEW b \in 0 .. Bytes(Tensors[i]) - 1,
                 Tensors[i].begin + b < worker'[w].offset
          PROVE  \/ InArena(i, b)
                 \/ \E n \in DOMAIN stream'[w] :
                      stream'[w][n].kind = "copy" /\ Covers(stream'[w][n], i, b)
      BY <2>1, <2>2, <3>1, <3>2
    <3> QED BY <1>1, <3>2, PlanFixed DEF LandingAt, InArena, Covers, Carries, IsCopy
  <2>12. worker'[w].pc # "unborn" /\ worker'[w].pc # "refused"
         /\ (~ worker'[w].hash => faults' > 0)
    BY <1>2, <1>13, <2>1 DEF Causes
  <2>13. /\ UNCHANGED <<outcome>> /\ next' \in Nat /\ next' >= next
         /\ faults' \in Nat /\ faults' >= faults
         /\ \A v \in Threads : staging'[v] = staging[v]
    <3>1. next' = next /\ outcome' = outcome /\ faults' = faults
      BY <1>13, Zenon
    <3>2. next \in Nat /\ faults \in Nat
      BY <1>2
    <3> QED BY <1>1, <3>1, <3>2
  <2> HIDE DEF Q
  <2> QED BY <1>1, <2>1, <2>2, <2>6, <2>7, <2>8, <2>9, <2>10, <2>11, <2>12, <2>13,
             ThreadStep
<1>14. \/ /\ ~ broken
          /\ stream' = [stream EXCEPT ![w] = (@ \o ops(allowed)) \o <<event>>]
          /\ worker' = [worker EXCEPT
               ![w].pc = "fill", ![w].offset = ChunkEnd(w),
               ![w].pending = @ \cup {Slot(w)},
               ![w].copied = @ + Total(LAMBDA c : c.bytes, copies),
               ![w].copies = @ + Len(copies)]
          /\ UNCHANGED <<next, outcome, faults>>
       \/ /\ \E n \in 0 .. allowed :
               stream' = IF broken THEN stream
                         ELSE [stream EXCEPT ![w] = @ \o ops(n)]
          /\ Faulty \/ ((broken \/ allowed < Len(copies)) /\ UNCHANGED faults)
          /\ Abandon(w)
  BY Zenon DEF Enqueue, op
<1>15. ASSUME NEW n \in 0 .. allowed, Abandon(w),
              Faulty \/ ((broken \/ allowed < Len(copies)) /\ UNCHANGED faults),
              stream' = IF broken THEN stream
                        ELSE [stream EXCEPT ![w] = @ \o ops(n)]
       PROVE  LoadInv'
  <2>1. n \in 0 .. m /\ ~ (allowed < Len(copies))
    <3> HIDE DEF allowed, copies, m
    <3> QED BY <1>3, <1>5, <1>15
  <2>2. \A v \in Threads \ {w} : stream'[v] = stream[v]
    <3> HIDE DEF ops
    <3> QED BY <1>2, <1>15
  <2>3. stream'[w] \in {q, q \o ops(n)}
    <3> HIDE DEF ops
    <3> QED BY <1>2, <1>15
  <2>4. Aim(q)
    BY <1>2 DEF AimedAt, IsCopy
  <2>5. Aim(stream'[w])
    <3>1. Aim(q \o ops(n))
      BY <1>10, <2>1
    <3> HIDE DEF ops, q, s
    <3> QED BY <2>3, <2>4, <3>1
  <2> HIDE DEF allowed, copies
  <2> QED BY <1>12, <1>15, <2>1, <2>2, <2>5
<1> HIDE DEF allowed, ops, event, copies
<1> QED BY <1>13, <1>14, <1>15

\* A step of the device leaves the threads alone.
LEMMA DeviceStep ==
  ASSUME CopyInv, LoadInv, main # "returned",
         UNCHANGED <<manifest, main, result, held, staging, next, worker, outcome,
                     life>>,
         broken' \in BOOLEAN, faults' \in Nat, faults' >= faults,
         broken' => broken \/ faults' > 0, arena'.live = arena.live,
         Started => /\ DOMAIN arena'.data = 0 .. ArenaBytes - 1
                    /\ \A s \in Shards : Arrived(s)'
                    /\ \A v \in Threads : /\ AimedAt(v)' /\ LandingAt(v)'
                                          /\ worker[v].shard = 0 => stream'[v] = <<>>
  PROVE  LoadInv'
<1>1. /\ Shards' = Shards /\ (Planned => Planned') /\ PlannedCopies' = PlannedCopies
      /\ ArenaBytes' = ArenaBytes /\ (Started' <=> Started)
  BY PlanFixed DEF Started
<1>2. Causes'
  <2>1. Causes
    BY DEF LoadInv
  <2> QED BY <1>1, <2>1 DEF Causes
<1>3. Progress'
  BY <1>1 DEF LoadInv, Progress
<1>4. ASSUME Started PROVE Claims' /\ \A v \in Threads : ClaimedBy(v)' /\ CountedAt(v)'
  <2>1. Claims /\ \A v \in Threads : ClaimedBy(v) /\ CountedAt(v)
    BY <1>4 DEF LoadInv
  <2>2. Claims'
    BY <2>1, ClaimsFrame
  <2>3. \A v \in Threads : ClaimedBy(v)'
    BY <1>1, <1>4, <2>1 DEF ClaimedBy
  <2>4. \A v \in Threads : CountedAt(v)'
    BY <2>1, CountedFrame
  <2> QED BY <2>2, <2>3, <2>4
<1>5. Started => DOMAIN arena'.data = 0 .. ArenaBytes' - 1
  BY <1>1
<1>6. main' \notin {"plan", "returned"} => Planned' /\ PlannedCopies' =< MaxCopies
  BY <1>1 DEF LoadInv
<1> QED BY <1>1, <1>2, <1>3, <1>4, <1>5, <1>6 DEF LoadInv

\* A device error drops what is queued.
LEMMA DeviceBreaksLoads ==
  ASSUME CopyInv, LoadInv, DeviceBreaks, life' = life
  PROVE  LoadInv'
<1>1. /\ UNCHANGED <<manifest, main, result, held, staging, arena, next, worker,
                     outcome>>
      /\ stream' = NoStreams /\ broken' = TRUE /\ faults' = faults + 1 /\ held # {}
  BY DEF DeviceBreaks, Faulty
<1>2. main # "returned" /\ faults \in Nat
  BY <1>1 DEF CopyInv, Running, LoadInv, Causes
<1>3. \A v \in Threads : stream'[v] = <<>>
  BY <1>1 DEF NoStreams
<1>4. \A v \in Threads : AimedAt(v)' /\ LandingAt(v)'
  BY <1>1, <1>3, NothingQueued DEF AimedAt, LandingAt
<1>5. Started => \A s \in Shards : Arrived(s)'
  <2>1. Started => \A s \in Shards : Arrived(s)
    BY DEF LoadInv
  <2> QED BY <1>1, <2>1, ArrivedFrame
<1>6. Started => DOMAIN arena'.data = 0 .. ArenaBytes - 1
  BY <1>1 DEF LoadInv
<1> QED BY <1>1, <1>2, <1>3, <1>4, <1>5, <1>6, DeviceStep

\* A place of one tensor is outside the room of another.
LEMMA Outside ==
  ASSUME NEW x \in Nat, NEW p \in Nat, NEW y \in Nat, NEW r \in Nat,
         NEW b \in Nat, NEW t \in Nat, NEW n \in Nat,
         b < p, y =< t, t + n =< y + r, x + p =< y \/ y + r =< x
  PROVE  x + b \notin t .. t + n - 1
OBVIOUS

\* A copy brings a byte of the file to its place in the arena.
LEMMA ByteLands ==
  ASSUME Planned, NEW op, NEW i \in Indices, NEW b \in Nat, Covers(op, i, b),
         op.chunk.begin \in Nat
  PROVE  /\ ArenaOffset(i) + b \in op.at .. op.at + op.bytes - 1
         /\ op.chunk.begin + op.from + ((ArenaOffset(i) + b) - op.at) =
              Tensors[i].begin + b
<1>1. ArenaOffset(i) \in Nat /\ Tensors[i].begin \in Nat
  BY PlacesApart, TensorIs
<1>2. /\ op.at \in Nat /\ op.from \in Nat /\ op.bytes \in Nat
      /\ op.at =< ArenaOffset(i) + b /\ ArenaOffset(i) + b < op.at + op.bytes
      /\ op.chunk.begin + op.from + ArenaOffset(i) = Tensors[i].begin + op.at
  BY DEF Covers, Carries
<1> HIDE LoaderAssumption
<1>3. PICK x \in Nat, y \in Nat, u \in Nat, v \in Nat, z \in Nat, n \in Nat :
        /\ x = ArenaOffset(i) /\ y = Tensors[i].begin
        /\ u = op.chunk.begin /\ v = op.from /\ z = op.at /\ n = op.bytes
  BY <1>1, <1>2
<1>4. u + v + x = y + z /\ z =< x + b /\ x + b < z + n
  BY <1>2, <1>3
<1>5. x + b \in z .. z + n - 1
  BY <1>4
<1>6. u + v + ((x + b) - z) = y + b
  BY <1>4
<1> QED BY <1>3, <1>5, <1>6

\* A copy puts its bytes where they belong and no others anywhere else.
LEMMA CopyLands ==
  ASSUME Planned, NEW w, NEW op, NEW j \in Indices, Carries(op, j),
         staging[w][op.slot] = op.chunk, op.chunk.begin \in Nat,
         DOMAIN arena = {"live", "data"}, DOMAIN arena.data = 0 .. ArenaBytes - 1,
         arena' = [arena EXCEPT !.data = Copied(w, op)], manifest' = manifest
  PROVE  /\ arena'.live = arena.live /\ DOMAIN arena'.data = 0 .. ArenaBytes - 1
         /\ \A i \in Indices : \A b \in 0 .. Bytes(Tensors[i]) - 1 :
              /\ InArena(i, b) /\ (i # j \/ op.chunk.good) => InArena(i, b)'
              /\ op.chunk.good /\ Covers(op, i, b) => InArena(i, b)'
<1> DEFINE d == Copied(w, op)
           chunk == staging[w][op.slot]
<1>1. arena'.live = arena.live /\ arena'.data = d
  <2>1. arena' = [arena EXCEPT !.data = d]
    OBVIOUS
  <2> HIDE DEF d
  <2> QED BY <2>1
<1>2. /\ DOMAIN d = 0 .. ArenaBytes - 1
      /\ \A a \in 0 .. ArenaBytes - 1 :
           /\ a \notin op.at .. op.at + op.bytes - 1 => d[a] = arena.data[a]
           /\ a \in op.at .. op.at + op.bytes - 1 /\ op.chunk.good =>
                d[a] = <<op.chunk.shard, op.chunk.begin + op.from + (a - op.at)>>
  BY DEF Copied
<1> HIDE DEF d
<1>3. /\ op.at \in Nat /\ op.from \in Nat /\ op.bytes \in Nat
      /\ ArenaOffset(j) =< op.at
      /\ op.at + op.bytes =< ArenaOffset(j) + Bytes(Tensors[j])
  BY DEF Carries
<1>4. \A i \in Indices : /\ ArenaOffset(i) \in Nat /\ Bytes(Tensors[i]) \in Nat
                         /\ Tensors[i].begin \in Nat
                         /\ ArenaOffset(i) + Bytes(Tensors[i]) =< ArenaBytes
  BY PlacesApart, TensorIs
<1>5. ArenaBytes \in Nat /\ Tensors' = Tensors /\ Indices' = Indices
      /\ \A i : ArenaOffset(i)' = ArenaOffset(i)
  BY PlacesApart, PlanFixed
<1>6. ASSUME NEW i \in Indices, NEW b \in 0 .. Bytes(Tensors[i]) - 1
      PROVE  /\ InArena(i, b) /\ (i # j \/ op.chunk.good) => InArena(i, b)'
             /\ op.chunk.good /\ Covers(op, i, b) => InArena(i, b)'
  <2> DEFINE a == ArenaOffset(i) + b
             byte == <<Tensors[i].shard, Tensors[i].begin + b>>
  <2>1. a \in 0 .. ArenaBytes - 1 /\ b \in Nat
    <3>1. PICK o \in Nat, k \in Nat, n \in Nat :
            o = ArenaOffset(i) /\ k = Bytes(Tensors[i]) /\ n = ArenaBytes /\ o + k =< n
      BY <1>4, <1>5
    <3>2. b \in 0 .. k - 1
      BY <1>6, <3>1
    <3>3. o + k =< n
      BY <3>1
    <3>4. o + b \in 0 .. n - 1 /\ b \in Nat
      BY <3>2, <3>3
    <3> QED BY <3>1, <3>4
  <2>2. InArena(i, b) <=> arena.data[a] = byte
    BY DEF InArena
  <2>3. InArena(i, b)' <=> d[a] = byte
    BY <1>1, <1>5 DEF InArena
  <2>4. a \notin op.at .. op.at + op.bytes - 1 /\ InArena(i, b) => InArena(i, b)'
    <3> HIDE DEF a, byte
    <3> QED BY <1>2, <2>1, <2>2, <2>3
  <2>5. ASSUME op.chunk.good, Covers(op, i, b) PROVE InArena(i, b)'
    <3>1. op.chunk.shard = Tensors[i].shard
      BY <2>5 DEF Covers, Carries
    <3>2. /\ a \in op.at .. op.at + op.bytes - 1
          /\ op.chunk.begin + op.from + (a - op.at) = Tensors[i].begin + b
      BY <1>6, <2>1, <2>5, ByteLands
    <3>3. d[a] = <<op.chunk.shard, op.chunk.begin + op.from + (a - op.at)>>
      <4> HIDE DEF a
      <4> QED BY <1>2, <2>1, <2>5, <3>2
    <3>4. d[a] = byte
      BY <3>1, <3>2, <3>3
    <3> QED BY <2>3, <3>4
  <2>6. ASSUME i = j, a \in op.at .. op.at + op.bytes - 1
        PROVE  Covers(op, i, b)
    <3>1. op.at =< a /\ a < op.at + op.bytes
      <4>1. a \in Nat
        BY <1>4, <2>1
      <4> HIDE DEF a
      <4> QED BY <1>3, <2>6, <4>1
    <3> QED BY <2>6, <3>1 DEF Covers
  <2>7. i # j => a \notin op.at .. op.at + op.bytes - 1
    <3> SUFFICES ASSUME i # j PROVE a \notin op.at .. op.at + op.bytes - 1
      OBVIOUS
    <3>1. i < j \/ j < i
      <4>1. Indices \subseteq Int
        BY TextIs DEF Indices
      <4> QED BY <4>1
    <3>2. \/ ArenaOffset(i) + Bytes(Tensors[i]) =< ArenaOffset(j)
          \/ ArenaOffset(j) + Bytes(Tensors[j]) =< ArenaOffset(i)
      BY <3>1, PlacesApart
    <3>3. b < Bytes(Tensors[i])
      BY <1>4
    <3> QED BY <1>3, <1>4, <2>1, <3>2, <3>3, Outside
  <2> HIDE DEF a
  <2> QED BY <2>4, <2>5, <2>6, <2>7
<1> QED BY <1>1, <1>2, <1>6

\* The device runs the first of a queue: its bytes are in the arena, those of
\* the other shards are not disturbed.
LEMMA ExecuteLoads ==
  ASSUME CopyInv, LoadInv, NEW w \in Threads, Execute(w), life' = life
  PROVE  LoadInv'
<1> DEFINE q == stream[w]
           op == Head(q)
           s == worker[w].shard
<1>1. /\ q # <<>> /\ stream' = [stream EXCEPT ![w] = Tail(@)]
      /\ UNCHANGED <<manifest, main, result, held, staging, broken, next, worker,
                     outcome, faults>>
      /\ arena' = IF op.kind = "copy" /\ arena.live
                  THEN [arena EXCEPT !.data = Copied(w, op)] ELSE arena
  BY DEF Execute
<1>2. /\ IsSeq(q) /\ DOMAIN stream = Threads /\ DOMAIN arena = {"live", "data"}
      /\ w \in held /\ main # "returned"
  BY <1>1 DEF CopyInv, LoadTypes, WorkerType, Running
<1>3. /\ stream'[w] = Tail(q) /\ \A v \in Threads \ {w} : stream'[v] = stream[v]
  BY <1>1, <1>2
<1>4. /\ \A i \in DOMAIN Tail(q) : i + 1 \in DOMAIN q /\ Tail(q)[i] = q[i + 1]
      /\ \A i \in DOMAIN q : i > 1 => i - 1 \in DOMAIN Tail(q)
      /\ 1 \in DOMAIN q /\ op = q[1] /\ DOMAIN q \subseteq Nat \ {0}
  <2>1. /\ \A i \in DOMAIN Tail(q) : i + 1 \in DOMAIN q /\ Tail(q)[i] = q[i + 1]
        /\ \A i \in DOMAIN q : i > 1 => i - 1 \in DOMAIN Tail(q)
        /\ DOMAIN q = 1 .. Len(q) /\ Len(q) \in Nat
    BY <1>1, <1>2, TailFacts
  <2>2. op = q[1] /\ Len(q) # 0
    <3> DEFINE S == {q[i] : i \in DOMAIN q}
    <3>1. q \in Seq(S) /\ q # <<>>
      BY <1>1, <1>2 DEF IsSeq
    <3> HIDE DEF S, q
    <3> QED BY <3>1
  <2> HIDE DEF q
  <2> QED BY <2>1, <2>2
<1>5. \A i \in DOMAIN q : i # 1 =>
        \E k \in DOMAIN Tail(q) : Tail(q)[k] = q[i]
  <2> SUFFICES ASSUME NEW i \in DOMAIN q, i # 1
               PROVE  \E k \in DOMAIN Tail(q) : Tail(q)[k] = q[i]
    OBVIOUS
  <2> HIDE DEF q
  <2>1. i \in Nat /\ i > 1 /\ (i - 1) + 1 = i
    BY <1>4
  <2>2. i - 1 \in DOMAIN Tail(q)
    BY <1>4, <2>1
  <2>3. Tail(q)[i - 1] = q[i]
    BY <1>4, <2>1, <2>2
  <2> QED BY <2>2, <2>3
<1> HIDE DEF op
<1>6. arena'.live = arena.live
  <2> DEFINE d == Copied(w, op)
  <2>1. arena' = arena \/ arena' = [arena EXCEPT !.data = d]
    BY <1>1
  <2> HIDE DEF d
  <2> QED BY <1>2, <2>1
<1>7. broken \in BOOLEAN /\ faults \in Nat
  BY DEF LoadInv, Causes
<1>8. ASSUME Started
      PROVE  /\ DOMAIN arena'.data = 0 .. ArenaBytes - 1
             /\ \A t \in Shards : Arrived(t)'
             /\ \A v \in Threads : /\ AimedAt(v)' /\ LandingAt(v)'
                                   /\ worker[v].shard = 0 => stream'[v] = <<>>
  <2>1. /\ DOMAIN arena.data = 0 .. ArenaBytes - 1 /\ Claims
        /\ \A t \in Shards : Arrived(t)
        /\ \A v \in Threads : ClaimedBy(v) /\ AimedAt(v) /\ CountedAt(v) /\ LandingAt(v)
        /\ arena.live
    BY <1>8 DEF LoadInv, Started
  <2>2. Planned
    BY <1>2, <1>8 DEF LoadInv, Started
  <2>3. s # 0 /\ s \in Shards /\ outcome[s].status # "ok"
    BY <1>1, <2>1 DEF ClaimedBy
  <2>4. \A v \in Threads : worker[v].shard = 0 => stream'[v] = <<>>
    BY <1>3, <2>1, <2>3 DEF ClaimedBy
  <2>5. \A v \in Threads : AimedAt(v)'
    <3>1. AimedAt(w)'
      <4>1. \A n \in DOMAIN q : q[n].kind = "copy" =>
              /\ q[n].chunk.shard = s /\ (q[n].chunk.good \/ ~ worker[w].hash)
              /\ \E i \in Indices : Carries(q[n], i)
        BY <2>1 DEF AimedAt, IsCopy
      <4>2. \A n \in DOMAIN stream'[w] : stream'[w][n].kind = "copy" =>
              /\ stream'[w][n].chunk.shard = s
              /\ (stream'[w][n].chunk.good \/ ~ worker[w].hash)
              /\ \E i \in Indices : Carries(stream'[w][n], i)
        <5> HIDE DEF q, s
        <5> QED BY <1>3, <1>4, <4>1
      <4>3. manifest' = manifest /\ worker' = worker
        BY <1>1
      <4>4. Tensors' = Tensors /\ Indices' = Indices
            /\ \A i : ArenaOffset(i)' = ArenaOffset(i)
        BY <4>3, PlanFixed
      <4>5. \A o, i : Carries(o, i)' <=> Carries(o, i)
        BY <4>4 DEF Carries
      <4> QED BY <4>2, <4>3, <4>4, <4>5 DEF AimedAt, IsCopy
    <3>2. \A v \in Threads \ {w} : AimedAt(v)'
      BY <1>1, <1>3, <2>1, WorkerFrame
    <3> QED BY <3>1, <3>2
  \* What a worker has read is still in the arena or behind the first.
  <2>6. ASSUME \A i \in Index(s) : \A b \in 0 .. Bytes(Tensors[i]) - 1 :
                 worker[w].hash /\ ~ broken /\ worker[w].pc \in Busy =>
                   /\ InArena(i, b) => InArena(i, b)'
                   /\ op.kind = "copy" /\ Covers(op, i, b) => InArena(i, b)'
        PROVE  LandingAt(w)'
    <3> SUFFICES ASSUME worker[w].pc \in Busy, worker[w].hash, ~ broken,
                        NEW i \in Index(s), NEW b \in 0 .. Bytes(Tensors[i]) - 1,
                        Tensors[i].begin + b < worker[w].offset
                 PROVE  \/ InArena(i, b)'
                        \/ \E n \in DOMAIN Tail(q) :
                             Tail(q)[n].kind = "copy" /\ Covers(Tail(q)[n], i, b)
      <4>1. manifest' = manifest /\ worker' = worker /\ broken' = broken
        BY <1>1
      <4>2. Tensors' = Tensors /\ Index(s)' = Index(s)
            /\ \A i : ArenaOffset(i)' = ArenaOffset(i)
        BY <4>1, PlanFixed
      <4>3. \A o, i, b : Covers(o, i, b)' <=> Covers(o, i, b)
        BY <4>2 DEF Covers, Carries
      <4> HIDE DEF q
      <4> QED BY <1>3, <4>1, <4>2, <4>3 DEF LandingAt, IsCopy
    <3>1. \/ InArena(i, b)
          \/ \E n \in DOMAIN q : q[n].kind = "copy" /\ Covers(q[n], i, b)
      BY <2>1 DEF LandingAt, IsCopy
    <3>2. CASE InArena(i, b)
      BY <2>6, <3>2
    <3>3. ASSUME NEW n \in DOMAIN q, q[n].kind = "copy", Covers(q[n], i, b)
          PROVE  \/ InArena(i, b)'
                 \/ \E k \in DOMAIN Tail(q) :
                      Tail(q)[k].kind = "copy" /\ Covers(Tail(q)[k], i, b)
      <4>1. CASE n = 1
        BY <1>4, <2>6, <3>3, <4>1
      <4>2. CASE n # 1
        <5>1. PICK k \in DOMAIN Tail(q) : Tail(q)[k] = q[n]
          BY <1>5, <3>3, <4>2
        <5> QED BY <3>3, <5>1
      <4> QED BY <4>1, <4>2
    <3> QED BY <3>1, <3>2, <3>3
  <2>7. CASE op.kind # "copy"
    <3>1. arena' = arena
      BY <1>1, <2>7
    <3>2. \A t \in Shards : Arrived(t)'
      BY <1>1, <2>1, <3>1, ArrivedFrame
    <3>3. LandingAt(w)'
      <4>1. \A i \in Index(s) : \A b \in 0 .. Bytes(Tensors[i]) - 1 :
              InArena(i, b) => InArena(i, b)'
        BY <1>1, <3>1, PlanFixed DEF InArena
      <4> QED BY <2>6, <2>7, <4>1
    <3>4. \A v \in Threads \ {w} : LandingAt(v)'
      BY <1>1, <1>3, <2>1, <3>1, WorkerFrame
    <3> QED BY <2>1, <2>4, <2>5, <3>1, <3>2, <3>3, <3>4
  <2>8. CASE op.kind = "copy"
    <3>1. /\ staging[w][op.slot] = op.chunk /\ op.chunk.begin \in Nat
      <4>1. op.slot \in 0 .. StagingSlots - 1 /\ staging[w][op.slot] = op.chunk
        BY <1>4, <2>8 DEF CopyInv, Queued, Intact, IsCopy
      <4>2. staging[w] \in [0 .. StagingSlots - 1 -> Chunk]
        BY DEF CopyInv, LoadTypes, WorkerType
      <4>3. staging[w][op.slot] \in Chunk
        BY <4>1, <4>2
      <4> QED BY <4>1, <4>3 DEF Chunk
    <3>2. /\ op.chunk.shard = s /\ (op.chunk.good \/ ~ worker[w].hash)
          /\ \E i \in Indices : Carries(op, i)
      BY <1>4, <2>1, <2>8 DEF AimedAt, IsCopy
    <3>3. PICK j \in Indices : Carries(op, j)
      BY <3>2
    <3>4. Tensors[j].shard = s
      BY <3>2, <3>3 DEF Carries
    <3>5. arena' = [arena EXCEPT !.data = Copied(w, op)]
      BY <1>1, <2>1, <2>8
    <3>6. /\ DOMAIN arena'.data = 0 .. ArenaBytes - 1
          /\ \A i \in Indices : \A b \in 0 .. Bytes(Tensors[i]) - 1 :
               /\ InArena(i, b) /\ (i # j \/ op.chunk.good) => InArena(i, b)'
               /\ op.chunk.good /\ Covers(op, i, b) => InArena(i, b)'
      BY <1>1, <1>2, <2>1, <2>2, <3>1, <3>3, <3>5, CopyLands
    <3>7. ASSUME NEW t, t # s, NEW i \in Index(t), NEW b \in 0 .. Bytes(Tensors[i]) - 1
          PROVE  InArena(i, b) => InArena(i, b)'
      <4>1. i \in Indices /\ i # j
        BY <3>4, <3>7 DEF Index
      <4> QED BY <3>6, <4>1
    <3>8. \A t \in Shards : Arrived(t)'
      <4> SUFFICES ASSUME NEW t \in Shards, outcome[t].status = "ok"
                   PROVE  Arrived(t)'
        BY <1>1 DEF Arrived
      <4>1. t # s
        BY <2>3
      <4>2. Arrived(t)
        BY <2>1
      <4>3. \A i \in Index(t) : \A b \in 0 .. Bytes(Tensors[i]) - 1 : InArena(i, b)'
        BY <3>7, <4>1, <4>2 DEF Arrived
      <4> QED BY <1>1, <4>2, <4>3, PlanFixed DEF Arrived
    <3>9. LandingAt(w)'
      <4>1. \A i \in Index(s) : i \in Indices
        BY DEF Index
      <4> QED BY <2>6, <3>2, <3>6, <4>1
    <3>10. ASSUME NEW v \in Threads \ {w} PROVE LandingAt(v)'
      <4> SUFFICES ASSUME worker[v].pc \in Busy, worker[v].hash, ~ broken,
                          NEW i \in Index(worker[v].shard),
                          NEW b \in 0 .. Bytes(Tensors[i]) - 1,
                          Tensors[i].begin + b < worker[v].offset
                   PROVE  \/ InArena(i, b)'
                          \/ \E n \in DOMAIN stream[v] :
                               stream[v][n].kind = "copy" /\ Covers(stream[v][n], i, b)
        BY <1>1, <1>3, PlanFixed DEF LandingAt, IsCopy, Covers, Carries, InArena
      <4>1. worker[v].shard # s
        BY <2>1, <2>3 DEF Claims
      <4>2. \/ InArena(i, b)
            \/ \E n \in DOMAIN stream[v] :
                 stream[v][n].kind = "copy" /\ Covers(stream[v][n], i, b)
        BY <2>1 DEF LandingAt, IsCopy
      <4> QED BY <3>7, <4>1, <4>2
    <3> QED BY <2>4, <2>5, <3>6, <3>8, <3>9, <3>10
  <2> QED BY <2>7, <2>8
<1> QED BY <1>1, <1>2, <1>6, <1>7, <1>8, DeviceStep

\* A step of the calling thread that leaves the threads and the device alone.
LEMMA LoadingRests ==
  ASSUME CopyInv, LoadInv, Started,
         UNCHANGED <<manifest, staging, stream, broken, arena, next, worker, outcome>>
  PROVE  /\ DOMAIN arena'.data = 0 .. ArenaBytes' - 1 /\ Claims'
         /\ \A s \in Shards' : Arrived(s)'
         /\ \A v \in Threads : ClaimedBy(v)' /\ AimedAt(v)' /\ CountedAt(v)'
                               /\ LandingAt(v)'
<1>1. /\ DOMAIN arena.data = 0 .. ArenaBytes - 1 /\ Claims
      /\ \A s \in Shards : Arrived(s)
      /\ \A v \in Threads : ClaimedBy(v) /\ AimedAt(v) /\ CountedAt(v) /\ LandingAt(v)
      /\ next \in Nat
  BY DEF LoadInv, CopyInv, LoadTypes
<1>2. Shards' = Shards /\ ArenaBytes' = ArenaBytes
  BY PlanFixed
<1>3. Claims'
  BY <1>1, ClaimsFrame
<1>4. \A s \in Shards : Arrived(s)'
  BY <1>1, ArrivedFrame
<1>5. \A v \in Threads : AimedAt(v)' /\ CountedAt(v)' /\ LandingAt(v)'
  BY <1>1, WorkerFrame
<1>6. \A v \in Threads : ClaimedBy(v)'
  BY <1>1, WorkerFrame
<1> QED BY <1>1, <1>2, <1>3, <1>4, <1>5, <1>6

\* The plan is fixed once it is made.
LEMMA PlanRests ==
  ASSUME LoadInv, manifest' = manifest, main \notin {"plan", "returned"}
  PROVE  Planned' /\ PlannedCopies' =< MaxCopies
BY PlanFixed DEF LoadInv

\* Before the call every worker is unborn and owes nothing.
LEMMA NoWorkersIs ==
  ASSUME NEW w \in Threads
  PROVE  /\ NoWorkers[w].pc = "unborn" /\ NoWorkers[w].shard = 0
         /\ NoWorkers[w].hash = TRUE
BY DEF NoWorkers, NoWork

\* The plan is accepted or refused.
LEMMA PlanLoads ==
  ASSUME CopyInv, LoadInv, Plan, life = "load", life' = life
  PROVE  LoadInv'
<1>1. /\ main = "plan" /\ UNCHANGED <<manifest, held, staging, stream, broken, arena,
                                      next, worker, outcome>>
  BY DEF Plan, deviceVars, threadVars
<1>2. /\ result = "none" /\ worker = NoWorkers /\ next = 1 /\ ~ arena.live
      /\ faults \in Nat /\ broken \in BOOLEAN /\ (broken => faults > 0)
  BY <1>1 DEF LoadInv, Progress, Causes
<1>3. \/ ValidManifest /\ PlannedCopies =< MaxCopies /\ main' = "resources"
         /\ UNCHANGED <<result, faults>>
      \/ main' = "returned" /\ result' = "refused" /\ UNCHANGED faults
      \/ faults' = faults + 1 /\ main' = "returned" /\ result' = "failed"
  BY DEF Plan, Faulty
<1>4. ~ Started'
  BY <1>1, <1>2 DEF Started
<1>5. main' = "resources" => Planned' /\ PlannedCopies' =< MaxCopies
  <2>1. manifest \in Manifests
    BY DEF CopyInv, LoadTypes
  <2> QED BY <1>1, <1>3, <2>1, PlanFixed DEF Planned
<1>6. Causes'
  <2>1. \A w \in Threads : worker'[w].pc # "refused" /\ worker'[w].hash
    BY <1>1, <1>2, NoWorkersIs
  <2> QED BY <1>1, <1>2, <1>3, <1>4, <2>1 DEF Causes
<1>7. Progress'
  BY <1>1, <1>2, <1>3 DEF Progress
<1>8. main' \in {"resources", "returned"}
  BY <1>3
<1> QED BY <1>4, <1>5, <1>6, <1>7, <1>8 DEF LoadInv

\* A failing allocation unwinds a call that has started no thread.
LEMMA GivesUp ==
  ASSUME CopyInv, LoadInv, main = "resources", main' = "unwind", result' = "failed",
         life = "load", life' = life, faults' \in Nat, faults' >= faults, faults' > 0,
         UNCHANGED <<manifest, staging, stream, broken, arena, next, worker, outcome>>
  PROVE  LoadInv'
<1>1. ~ arena.live /\ broken \in BOOLEAN
  BY DEF LoadInv, Progress, Causes
<1>2. ~ Started'
  BY <1>1 DEF Started
<1>3. Planned' /\ PlannedCopies' =< MaxCopies
  BY PlanRests
<1>4. Causes'
  BY <1>1, <1>2 DEF Causes
<1>5. Progress'
  BY DEF Progress
<1> QED BY <1>2, <1>3, <1>4, <1>5 DEF LoadInv

\* Stream, events and staging of the next worker.
LEMMA AllocateWorkerLoads ==
  ASSUME CopyInv, LoadInv, AllocateWorker, life = "load", life' = life
  PROVE  LoadInv'
<1>1. /\ main = "resources" /\ UNCHANGED <<manifest, staging, stream, broken, arena,
                                           next, worker, outcome>>
  BY DEF AllocateWorker, deviceVars, threadVars
<1>2. CASE (Faulty \/ (broken /\ UNCHANGED faults)) /\ main' = "unwind"
           /\ result' = "failed"
  <2>1. faults' \in Nat /\ faults' >= faults /\ faults' > 0
    BY <1>1, <1>2, FaultsCount
  <2> QED BY <1>1, <1>2, <2>1, GivesUp
<1>3. CASE UNCHANGED <<main, result, faults>>
  <2>1. Planned' /\ PlannedCopies' =< MaxCopies
    BY <1>1, PlanRests
  <2>2. ~ Started' /\ ~ Started
    BY <1>1, <1>3 DEF Started
  <2>3. Causes'
    BY <1>1, <1>3, <2>2 DEF LoadInv, Causes
  <2>4. Progress'
    BY <1>1, <1>3 DEF LoadInv, Progress
  <2> QED BY <2>1, <2>2, <2>3, <2>4 DEF LoadInv
<1> QED BY <1>2, <1>3 DEF AllocateWorker

\* The arena, with every shard yet to be loaded.
LEMMA AllocateArenaLoads ==
  ASSUME CopyInv, LoadInv, AllocateArena, life = "load", life' = life
  PROVE  LoadInv'
<1>1. /\ main = "resources" /\ UNCHANGED <<manifest, held, staging, stream, broken,
                                           next, worker>>
      /\ Cardinality(held) = Min({Workers, Len(manifest.sizes)})
  BY DEF AllocateArena
<1>2. CASE (Faulty \/ (broken /\ UNCHANGED faults)) /\ main' = "unwind"
           /\ result' = "failed" /\ UNCHANGED <<arena, outcome>>
  <2>1. faults' \in Nat /\ faults' >= faults /\ faults' > 0
    BY <1>1, <1>2, FaultsCount
  <2> QED BY <1>1, <1>2, <2>1, GivesUp
<1>3. CASE /\ ~ broken
           /\ arena' = [live |-> TRUE,
                        data |-> [a \in 0 .. ArenaBytes - 1 |-> <<0, 0>>]]
           /\ outcome' = [s \in Shards |-> NoOutcome]
           /\ main' = "spawn" /\ UNCHANGED <<result, faults>>
  <2>1. /\ result = "none" /\ worker = NoWorkers /\ next = 1 /\ Planned
        /\ faults \in Nat /\ broken \in BOOLEAN
    BY <1>1 DEF LoadInv, Progress, Causes
  <2>2. Planned' /\ PlannedCopies' =< MaxCopies /\ Shards' = Shards
        /\ ArenaBytes' = ArenaBytes
    BY <1>1, PlanRests, PlanFixed
  <2>3. held # {}
    <3>1. Workers \in Nat \ {0} /\ Len(manifest.sizes) \in Nat /\ Len(manifest.sizes) # 0
      <4>1. manifest.sizes \in Seq(Nat \ {0}) /\ Shards # {}
        BY <2>1 DEF Planned, ValidManifest
      <4> QED BY <4>1 DEF Shards
    <3> DEFINE n == Len(manifest.sizes)
    <3>2. Workers \in Int /\ n \in Int /\ Workers # 0 /\ n # 0
      BY <3>1
    <3>3. Cardinality(held) = Min({Workers, n})
      BY <1>1
    <3> HIDE DEF n
    <3>4. Cardinality(held) # 0
      BY <3>2, <3>3, MinOfTwo
    <3> QED BY <3>4, FS_EmptySet
  <2>4. /\ arena'.live = TRUE /\ DOMAIN arena'.data = 0 .. ArenaBytes - 1
    BY <1>3
  <2>5. /\ DOMAIN outcome' = Shards
        /\ \A s \in Shards : "status" \in DOMAIN outcome'[s] /\ outcome'[s].status = "none"
    BY <1>3 DEF NoOutcome
  <2>6. \A w \in Threads : /\ worker'[w].pc = "unborn" /\ worker'[w].shard = 0
                           /\ worker'[w].hash = TRUE
    BY <1>1, <2>1, NoWorkersIs
  <2>7. Claims'
    <3>1. \A s \in Shards : ~ (s < next')
      BY <1>1, <2>1 DEF Shards
    <3> QED BY <2>2, <2>5, <2>6, <3>1 DEF Claims
  <2>8. \A s \in Shards' : Arrived(s)'
    BY <2>2, <2>5 DEF Arrived
  <2>9. \A w \in Threads : stream'[w] = <<>>
    <3>1. \A w \in Threads : worker[w].pc = "unborn"
      BY <2>1, NoWorkersIs
    <3> QED BY <1>1, <3>1 DEF CopyInv, Guarded, GuardedAt
  <2>10. \A w \in Threads : ClaimedBy(w)'
    BY <2>6, <2>9 DEF ClaimedBy, Busy
  <2>11. \A w \in Threads : CountedAt(w)' /\ LandingAt(w)'
    BY <2>6 DEF CountedAt, LandingAt, Busy
  <2>12. \A w \in Threads : AimedAt(w)'
    BY <2>9, NothingQueued DEF AimedAt
  <2>13. Causes'
    BY <1>1, <1>3, <2>1, <2>2, <2>5, <2>6 DEF Causes
  <2>14. Progress'
    BY <1>1, <1>3, <2>1, <2>3 DEF Progress
  <2> QED BY <2>2, <2>4, <2>7, <2>8, <2>10, <2>11, <2>12, <2>13, <2>14 DEF LoadInv
<1> QED BY <1>2, <1>3 DEF AllocateArena

\* A new thread owes nothing; one that cannot be created is a fault.
LEMMA SpawnLoads ==
  ASSUME CopyInv, LoadInv, Spawn, life = "load", life' = life
  PROVE  LoadInv'
<1>1. /\ main = "spawn" /\ Unborn # {}
      /\ UNCHANGED <<manifest, held, staging, stream, broken, arena, next, outcome>>
  BY DEF Spawn, deviceVars
<1>2. /\ Causes /\ Progress /\ Started /\ arena.live /\ faults \in Nat
      /\ held # {} /\ held \subseteq Threads
  BY <1>1 DEF LoadInv, Causes, Progress, Started, CopyInv, Running, LoadTypes
<1>3. Planned' /\ PlannedCopies' =< MaxCopies /\ Shards' = Shards
      /\ ArenaBytes' = ArenaBytes
  BY <1>1, PlanRests, PlanFixed
<1>4. CASE Faulty /\ main' = "join" /\ result' = "failed" /\ UNCHANGED worker
  <2>1. faults' \in Nat /\ faults' > 0
    BY <1>2, <1>4 DEF Faulty
  <2>2. Causes'
    BY <1>1, <1>2, <2>1 DEF Causes
  <2>3. Progress'
    BY <1>1, <1>2, <1>4 DEF Progress
  <2> QED BY <1>1, <1>2, <1>3, <1>4, <2>2, <2>3, LoadingRests DEF LoadInv
<1>5. CASE /\ worker' = [worker EXCEPT ![Min(Unborn)].pc = "start"]
           /\ UNCHANGED <<main, result, faults>>
  <2> DEFINE w == Min(Unborn)
  <2>1. w \in Unborn
    <3>1. Unborn \subseteq Nat
      <4>1. Threads \subseteq Nat
        BY DEF Threads
      <4> QED BY <1>2, <4>1 DEF Unborn
    <3> QED BY <1>1, <3>1, Least
  <2>2. w \in Threads /\ worker[w].pc = "unborn"
    BY <1>2, <2>1 DEF Unborn
  <2>3. worker' = [worker EXCEPT ![w].pc = "start"]
    BY <1>5
  <2> HIDE DEF w
  <2>4. DOMAIN worker = Threads /\ DOMAIN worker[w] = WorkFields /\ next \in Nat
    BY <2>2 DEF CopyInv, LoadTypes, WorkerType
  <2>5. /\ \A v \in Threads \ {w} : worker'[v] = worker[v]
        /\ worker'[w].pc = "start" /\ worker'[w].shard = worker[w].shard
        /\ worker'[w].hash = worker[w].hash
    BY <2>2, <2>3, <2>4 DEF WorkFields
  <2>6. /\ DOMAIN arena.data = 0 .. ArenaBytes - 1 /\ Claims
        /\ \A s \in Shards : Arrived(s)
        /\ \A v \in Threads : ClaimedBy(v) /\ AimedAt(v) /\ CountedAt(v) /\ LandingAt(v)
    BY <1>2 DEF LoadInv
  <2>7. Claims'
    <3>1. \A v \in Threads : /\ worker'[v].shard = worker[v].shard
                             /\ worker[v].pc \in Busy => worker'[v].pc \in Busy
      BY <2>2, <2>5 DEF Busy
    <3> QED BY <1>1, <2>6, <3>1, ClaimsFrame
  <2>8. \A s \in Shards : Arrived(s)'
    BY <1>1, <2>6, ArrivedFrame
  <2>9. worker[w].shard = 0 /\ stream[w] = <<>>
    BY <2>2, <2>6 DEF ClaimedBy, Busy
  <2>10. \A v \in Threads \ {w} : ClaimedBy(v)' /\ AimedAt(v)' /\ CountedAt(v)'
                                  /\ LandingAt(v)'
    BY <1>1, <2>4, <2>5, <2>6, WorkerFrame
  <2>11. worker'[w].hash \in BOOLEAN
    BY <2>2, <2>5, <2>6 DEF ClaimedBy
  <2>12. ASSUME NEW v \in Threads, v = w
         PROVE  ClaimedBy(v)' /\ AimedAt(v)' /\ CountedAt(v)' /\ LandingAt(v)'
    <3>1. /\ worker'[v].pc = "start" /\ worker'[v].shard = 0 /\ stream'[v] = <<>>
          /\ worker'[v].hash \in BOOLEAN
      BY <1>1, <2>5, <2>9, <2>11, <2>12
    <3>2. ClaimedBy(v)'
      BY <3>1 DEF ClaimedBy, Busy
    <3>3. CountedAt(v)' /\ LandingAt(v)'
      BY <3>1 DEF CountedAt, LandingAt, Busy
    <3>4. AimedAt(v)'
      BY <3>1, NothingQueued DEF AimedAt
    <3> QED BY <3>2, <3>3, <3>4
  <2>13. Causes'
    <3>1. \A v \in Threads :
            worker'[v].pc = "refused" \/ ~ worker'[v].hash => faults > 0
      BY <1>1, <1>2, <2>2, <2>5 DEF Causes
    <3> QED BY <1>1, <1>2, <1>3, <1>5, <3>1 DEF Causes
  <2>14. Progress'
    BY <1>1, <1>2, <1>5 DEF Progress
  <2>15. \A v \in Threads : ClaimedBy(v)' /\ AimedAt(v)' /\ CountedAt(v)' /\ LandingAt(v)'
    BY <2>10, <2>12
  <2> QED BY <1>1, <1>3, <2>6, <2>7, <2>8, <2>13, <2>14, <2>15 DEF LoadInv
<1> QED BY <1>4, <1>5 DEF Spawn

\* Every thread was created.
LEMMA SpawnedLoads ==
  ASSUME CopyInv, LoadInv, Spawned, life = "load", life' = life
  PROVE  LoadInv'
<1>1. /\ main = "spawn" /\ Unborn = {} /\ main' = "join"
      /\ UNCHANGED <<manifest, result, held, staging, stream, broken, arena, next,
                     worker, outcome, faults>>
  BY DEF Spawned, deviceVars, threadVars
<1>2. /\ Causes /\ Progress /\ Started /\ held # {}
  BY <1>1 DEF LoadInv, Progress, Started, CopyInv, Running
<1>3. Planned' /\ PlannedCopies' =< MaxCopies /\ Shards' = Shards
  BY <1>1, PlanRests, PlanFixed
<1>4. Causes'
  BY <1>1, <1>2, <1>3 DEF Causes
<1>5. Progress'
  BY <1>1, <1>2 DEF Progress, Unborn
<1> QED BY <1>1, <1>2, <1>3, <1>4, <1>5, LoadingRests DEF LoadInv

\* What the joined threads report: every shard was attempted, for a thread ends
\* only when none is left or when its own has failed, and shards are claimed in
\* order; and the statistics agree.
LEMMA VerdictIs ==
  ASSUME CopyInv, LoadInv, main = "join", result = "none",
         \A w \in held : worker[w].pc \in {"unborn", "ended", "refused"}
  PROVE  \/ Verdict = "failed" /\ faults > 0
         \/ Verdict = "ok" /\ \A s \in Shards : outcome[s].status = "ok"
<1>1. /\ Causes /\ Progress /\ Started /\ Planned
      /\ Claims /\ (\A s \in Shards : Arrived(s)) /\ \A v \in Threads : ClaimedBy(v)
  BY DEF LoadInv, Started, CopyInv, Running
<1>2. held # {} /\ held \subseteq Threads /\ \A w \in held : worker[w].pc # "unborn"
  BY <1>1 DEF Progress, CopyInv, LoadTypes
<1>3. CASE \E w \in held : worker[w].pc = "refused"
  BY <1>1, <1>2, <1>3 DEF Verdict, Causes
<1>4. CASE ~ \E w \in held : worker[w].pc = "refused"
  <2> DEFINE bad == {s \in Shards : outcome[s].status # "ok"}
  <2>1. \A w \in Threads : worker[w].pc \notin Busy
    <3>1. \A w \in held : worker[w].pc \notin Busy
      BY DEF Busy
    <3>2. \A w \in Threads \ held : worker[w].pc \in Idle
      BY DEF CopyInv, Running
    <3> QED BY <3>1, <3>2 DEF Busy, Idle
  <2>2. Shards \subseteq Nat \ {0} /\ next \in Nat /\ Len(manifest.sizes) \in Nat
    <3>1. manifest.sizes \in Seq(Nat \ {0})
      BY <1>1 DEF Planned
    <3> QED BY <3>1 DEF Shards, CopyInv, LoadTypes
  <2>3. CASE bad = {}
    <3>1. \A s \in Shards : outcome[s].status = "ok"
      BY <2>3
    <3>2. Agrees
      BY <1>1, <3>1, StatisticsAgree DEF Arrived, Claims
    <3>3. FirstBad = 0
      BY <2>3 DEF FirstBad
    <3> QED BY <1>4, <3>1, <3>2, <3>3 DEF Verdict
  <2>4. CASE bad # {}
    <3> DEFINE s == Min(bad)
    <3>1. FirstBad = s
      BY <2>4 DEF FirstBad
    <3>2. s \in bad /\ \A t \in bad : s =< t
      <4>1. bad \subseteq Nat
        BY <2>2
      <4> HIDE DEF bad
      <4> QED BY <2>4, <4>1, Least
    <3> HIDE DEF s
    <3>3. s \in Shards /\ outcome[s].status # "ok" /\ s # 0 /\ s \in Nat
      BY <2>2, <3>2
    <3>4. outcome[s].status # "none"
      <4> SUFFICES ASSUME outcome[s].status = "none" PROVE FALSE
        OBVIOUS
      <4>1. s >= next
        BY <1>1, <2>1, <2>2, <3>3 DEF Claims
      <4>2. PICK w \in held : worker[w].pc = "ended"
        BY <1>2, <1>4
      <4>3. CASE worker[w].shard = 0
        <5>1. next > Len(manifest.sizes)
          BY <1>1, <1>2, <4>2, <4>3 DEF ClaimedBy
        <5> QED BY <2>2, <3>3, <4>1, <5>1 DEF Shards
      <4>4. CASE worker[w].shard # 0
        <5> DEFINE f == worker[w].shard
        <5>1. f \in Shards /\ f < next /\ outcome[f].status = "failed"
          BY <1>1, <1>2, <2>1, <4>2, <4>4 DEF ClaimedBy
        <5>2. f \in bad
          BY <5>1
        <5>3. s =< f /\ f \in Nat
          BY <2>2, <3>2, <5>1, <5>2
        <5> HIDE DEF f
        <5> QED BY <2>2, <3>3, <4>1, <5>1, <5>3
      <4> QED BY <4>3, <4>4
    <3>5. outcome[s].status = "failed" /\ faults > 0
      BY <1>1, <3>3, <3>4 DEF Claims, Causes
    <3> QED BY <1>4, <3>1, <3>3, <3>5 DEF Verdict
  <2> QED BY <2>3, <2>4
<1> QED BY <1>3, <1>4

\* threads.join_all and the judgement.
LEMMA JoinLoads ==
  ASSUME CopyInv, LoadInv, Join, life = "load", life' = life
  PROVE  LoadInv'
<1>1. /\ main = "join" /\ main' = "unwind"
      /\ \A w \in held : worker[w].pc \in {"unborn", "ended", "refused"}
      /\ result' = IF result = "none" THEN Verdict ELSE result
      /\ UNCHANGED <<manifest, held, staging, stream, broken, arena, next, worker,
                     outcome, faults>>
  BY DEF Join, deviceVars, threadVars
<1>2. /\ Causes /\ Progress /\ Started /\ arena.live /\ result \in {"none", "failed"}
  BY <1>1 DEF LoadInv, Progress, Started, CopyInv, Running
<1>3. Planned' /\ PlannedCopies' =< MaxCopies /\ Shards' = Shards
  BY <1>1, PlanRests, PlanFixed
<1>4. \/ result' = "failed" /\ faults > 0
      \/ result' = "ok" /\ \A s \in Shards : outcome[s].status = "ok"
  BY <1>1, <1>2, VerdictIs DEF Causes
<1>5. Causes'
  BY <1>1, <1>2, <1>3, <1>4 DEF Causes, Started
<1>6. Progress'
  BY <1>1, <1>2, <1>3, <1>4 DEF Progress
<1> QED BY <1>1, <1>2, <1>3, <1>5, <1>6, LoadingRests DEF LoadInv

\* Unwinding: the stream of the worker is empty.
LEMMA FreeWorkerLoads ==
  ASSUME CopyInv, LoadInv, NEW w \in Threads, FreeWorker(w), life' = life
  PROVE  LoadInv'
<1>1. /\ main = "unwind" /\ stream[w] = <<>>
      /\ UNCHANGED <<manifest, main, result, stream, broken, arena, next, worker,
                     outcome, faults>>
  BY DEF FreeWorker, Drained, threadVars
<1>2. Planned' /\ PlannedCopies' =< MaxCopies /\ Shards' = Shards
      /\ ArenaBytes' = ArenaBytes /\ (Started' <=> Started)
  BY <1>1, PlanRests, PlanFixed DEF Started
<1>3. Causes'
  BY <1>1, <1>2 DEF LoadInv, Causes
<1>4. Progress'
  BY <1>1, <1>2 DEF LoadInv, Progress
<1>5. \A v \in Threads : worker[v].pc \notin Busy
  BY <1>1 DEF CopyInv, Running, Idle, Busy
<1>6. \A v \in Threads : CountedAt(v)' /\ LandingAt(v)'
  BY <1>1, <1>5 DEF CountedAt, LandingAt
<1>7. ASSUME Started
      PROVE  /\ DOMAIN arena'.data = 0 .. ArenaBytes' - 1 /\ Claims'
             /\ \A s \in Shards' : Arrived(s)'
             /\ \A v \in Threads : ClaimedBy(v)' /\ AimedAt(v)'
  <2>1. /\ DOMAIN arena.data = 0 .. ArenaBytes - 1 /\ Claims
        /\ \A s \in Shards : Arrived(s)
        /\ \A v \in Threads : ClaimedBy(v) /\ AimedAt(v)
    BY <1>7 DEF LoadInv
  <2>2. Claims'
    BY <1>1, <2>1, ClaimsFrame
  <2>3. \A s \in Shards : Arrived(s)'
    BY <1>1, <2>1, ArrivedFrame
  <2>4. \A v \in Threads : ClaimedBy(v)'
    BY <1>1, <1>2, <2>1 DEF ClaimedBy
  <2>5. \A v \in Threads : AimedAt(v)'
    BY <1>1, <2>1, AimedFrame
  <2> QED BY <1>1, <1>2, <2>1, <2>2, <2>3, <2>4, <2>5
<1> QED BY <1>2, <1>3, <1>4, <1>6, <1>7 DEF LoadInv

\* The return: every tensor is in the arena, or the arena is gone.
LEMMA ReturnLoads ==
  ASSUME CopyInv, LoadInv, Return, life = "load", life' = life
  PROVE  LoadInv'
<1>1. /\ main = "unwind" /\ main' = "returned"
      /\ arena' = IF result = "ok" THEN arena ELSE NoArena
      /\ faults' = IF result = "ok" THEN 0 ELSE faults
      /\ UNCHANGED <<manifest, result, broken>>
  BY DEF Return
<1>2. /\ Causes /\ Progress /\ Planned /\ result \in {"ok", "failed"}
      /\ broken \in BOOLEAN /\ faults \in Nat
  BY <1>1 DEF LoadInv, Progress, Causes
<1>3. ASSUME result = "ok" PROVE arena'.live /\ Resident'
  <2>1. arena.live /\ Started /\ \A s \in Shards : outcome[s].status = "ok"
    BY <1>1, <1>2, <1>3 DEF Progress, Started
  <2>2. \A s \in Shards : \A i \in Index(s) : \A b \in 0 .. Bytes(Tensors[i]) - 1 :
          InArena(i, b)
    BY <2>1 DEF LoadInv, Arrived
  <2>3. DOMAIN Tensors = Indices
    BY <1>2, TensorsIs
  <2>4. \A i \in Indices : Tensors[i].shard \in Shards /\ i \in Index(Tensors[i].shard)
    BY <1>2, TensorIs DEF Index
  <2>5. Resident
    BY <1>2, <2>2, <2>3, <2>4, OffsetsAligned DEF Resident, InArena
  <2>6. arena' = arena /\ manifest' = manifest
    BY <1>1, <1>3
  <2> QED BY <2>1, <2>5, <2>6, PlanFixed DEF Resident
<1>4. result # "ok" => ~ arena'.live
  BY <1>1 DEF NoArena
<1>5. Causes'
  BY <1>1, <1>2 DEF Causes
<1>6. Progress'
  BY <1>1, <1>2, <1>3, <1>4 DEF Progress
<1>7. ~ Started'
  BY <1>1 DEF Started
<1> QED BY <1>1, <1>5, <1>6, <1>7 DEF LoadInv

\* Every step of the loader.
LEMMA LoaderLoads ==
  ASSUME CopyInv, LoadInv, LoadNext, life = "load", life' = life
  PROVE  LoadInv'
<1>1. CASE Plan \/ AllocateWorker \/ AllocateArena \/ Spawn \/ Spawned \/ Join \/ Return
  BY <1>1, PlanLoads, AllocateWorkerLoads, AllocateArenaLoads, SpawnLoads,
     SpawnedLoads, JoinLoads, ReturnLoads
<1>2. CASE DeviceBreaks
  BY <1>2, DeviceBreaksLoads
<1>3. CASE \E w \in Threads : Execute(w) \/ WorkerStep(w) \/ FreeWorker(w)
  BY <1>3, ExecuteLoads, StartLoads, ClaimLoads, FillLoads, EnqueueLoads,
     AuthenticateLoads, SyncLoads, FreeWorkerLoads DEF WorkerStep
<1> QED BY <1>1, <1>2, <1>3 DEF LoadNext

\* Nothing is loading once the loader has returned.
LEMMA LoadOver ==
  ASSUME LoadInv, main = "returned",
         UNCHANGED <<manifest, main, broken, faults>>,
         (result' = result /\ arena' = arena) \/ result' = "moved",
         life' = "load" => life = "load" /\ result' = result,
         life' # "load" => \/ result' = "moved"
                           \/ life' = "gone" /\ result' \in {"refused", "failed"}
  PROVE  LoadInv'
<1>1. ~ Started'
  BY DEF Started
<1>2. Causes'
  BY DEF LoadInv, Causes
<1>3. Progress'
  <2>1. Progress
    BY DEF LoadInv
  <2>2. CASE result' = result /\ arena' = arena
    <3>1. Resident => Resident'
      BY <2>2, PlanFixed DEF Resident
    <3> QED BY <2>1, <2>2, <3>1 DEF Progress
  <2>3. CASE result' = "moved"
    BY <2>1, <2>3 DEF Progress
  <2> QED BY <2>2, <2>3
<1> QED BY <1>1, <1>2, <1>3 DEF LoadInv

\* The loader's part of the state is sound between any two steps of an engine.
THEOREM LoadInvariant == LifeSpec => []LoadInv
<1>1. LifeInit => LoadInv
  <2> SUFFICES ASSUME LifeInit PROVE LoadInv
    OBVIOUS
  <2>1. /\ main = "plan" /\ result = "none" /\ worker = NoWorkers /\ next = 1
        /\ arena = NoArena /\ broken = FALSE /\ faults = 0 /\ life = "load"
    BY DEF LifeInit, LoadInit
  <2>2. ~ Started
    BY <2>1 DEF Started
  <2>3. Causes
    BY <2>1, <2>2, NoWorkersIs DEF Causes
  <2>4. Progress
    BY <2>1 DEF Progress, NoArena
  <2> QED BY <2>1, <2>2, <2>3, <2>4 DEF LoadInv
<1>2. CopyInv /\ LoadInv /\ [LifeNext]_lifeVars => LoadInv'
  <2> SUFFICES ASSUME CopyInv, LoadInv, [LifeNext]_lifeVars PROVE LoadInv'
    OBVIOUS
  <2>1. life # "load" =>
          /\ main = "returned"
          /\ \/ result = "moved"
             \/ life = "gone" /\ result \in {"refused", "failed"}
    BY DEF CopyInv, Running, LoadInv, Progress
  <2>2. CASE LoadStep
    BY <2>2, LoaderLoads DEF LoadStep
  <2>3. CASE LoadReturned
    <3>1. /\ main = "returned" /\ life = "load" /\ life' # "load"
          /\ UNCHANGED <<manifest, main, broken, faults, arena>>
          /\ IF result = "ok" THEN result' = "moved"
             ELSE life' = "gone" /\ UNCHANGED result
      BY <2>3 DEF LoadReturned
    <3>2. result \in {"ok", "refused", "failed"}
      BY <3>1 DEF LoadInv, Progress
    <3> QED BY <3>1, <3>2, LoadOver
  <2>4. CASE Bind \/ CreateState \/ AssetStep \/ AssetsFail \/ CreateRunner
             \/ RunnerStep \/ DestroyMember \/ Destroyed
    <3>1. life # "load" /\ life # "gone" /\ life' # "load"
      BY <2>4 DEF Bind, CreateState, AssetStep, AssetsFail, CreateRunner, RunnerStep,
         DestroyMember, Destroyed, BuildFails
    <3>2. UNCHANGED <<manifest, main, result, broken, faults>>
      BY <2>4 DEF Bind, CreateState, AssetStep, AssetsFail, CreateRunner, RunnerStep,
         DestroyMember, Destroyed, loadVars
    <3> QED BY <2>1, <3>1, <3>2, LoadOver
  <2>5. CASE UNCHANGED lifeVars
    <3>1. UNCHANGED <<manifest, main, result, held, staging, stream, broken, arena,
                      next, worker, outcome, faults, life>>
      BY <2>5 DEF lifeVars, loadVars
    <3>2. Causes' /\ Progress'
      <4>1. Causes /\ Progress
        BY DEF LoadInv
      <4>2. Resident => Resident'
        BY <3>1, PlanFixed DEF Resident
      <4>3. Started' <=> Started
        BY <3>1 DEF Started
      <4>4. Shards' = Shards
        BY <3>1, PlanFixed
      <4>5. Causes'
        BY <3>1, <4>1, <4>3, <4>4 DEF Causes
      <4>6. Progress'
        BY <3>1, <4>1, <4>2, <4>4 DEF Progress
      <4> QED BY <4>5, <4>6
    <3>3. main' \notin {"plan", "returned"} => Planned' /\ PlannedCopies' =< MaxCopies
      BY <3>1, PlanFixed DEF LoadInv
    <3>4. Started' => Started
      BY <3>1 DEF Started
    <3> QED BY <3>1, <3>2, <3>3, <3>4, LoadingRests DEF LoadInv
  <2> QED BY <2>2, <2>3, <2>4, <2>5 DEF LifeNext
<1> QED BY <1>1, <1>2, EngineInvariant, PTL DEF LifeSpec

\* Every thread has one queue of its own, whatever is in it.
LEMMA QueuesStay == LifeSpec => []OneQueueEach
<1>1. LifeInit => OneQueueEach
  BY DEF LifeInit, LoadInit, OneQueueEach, NoStreams
<1>2. OneQueueEach /\ [LifeNext]_lifeVars => OneQueueEach'
  <2> SUFFICES ASSUME OneQueueEach, [LifeNext]_lifeVars PROVE OneQueueEach'
    OBVIOUS
  <2>1. \/ stream' = stream \/ stream' = NoStreams
        \/ \E w \in Threads : \E q : stream' = [stream EXCEPT ![w] = q]
    <3>1. CASE LoadStep
      <4>1. CASE \E w \in Threads : Execute(w)
        BY <4>1 DEF Execute
      <4>2. CASE \E w \in Threads : Enqueue(w)
        <5> PICK w \in Threads : Enqueue(w)
          BY <4>2
        <5> QED BY DEF Enqueue
      <4>3. CASE DeviceBreaks
        BY <4>3 DEF DeviceBreaks
      <4>4. CASE Plan \/ AllocateWorker \/ AllocateArena \/ Spawn \/ Spawned
                 \/ Join \/ Return
        BY <4>4 DEF Plan, AllocateWorker, AllocateArena, Spawn, Spawned, Join, Return,
           deviceVars
      <4>5. CASE \E w \in Threads : \/ Start(w) \/ Claim(w) \/ Fill(w)
                                    \/ Authenticate(w) \/ Sync(w) \/ FreeWorker(w)
        BY <4>5 DEF Start, Claim, Fill, Authenticate, Sync, FreeWorker, deviceVars
      <4> QED BY <3>1, <4>1, <4>2, <4>3, <4>4, <4>5 DEF LoadStep, LoadNext, WorkerStep
    <3>2. CASE LoadReturned
      BY <3>2 DEF LoadReturned
    <3>3. CASE Bind \/ CreateState \/ AssetStep \/ AssetsFail \/ CreateRunner
               \/ RunnerStep \/ DestroyMember \/ Destroyed
      BY <3>3 DEF Bind, CreateState, AssetStep, AssetsFail, CreateRunner, RunnerStep,
         DestroyMember, Destroyed, loadVars
    <3>4. CASE UNCHANGED lifeVars
      BY <3>4 DEF lifeVars, loadVars
    <3> QED BY <3>1, <3>2, <3>3, <3>4 DEF LifeNext
  <2> QED BY <2>1 DEF OneQueueEach, NoStreams
<1> QED BY <1>1, <1>2, PTL DEF LifeSpec

\* load_resident_weights: a successful call hands over an arena that holds the
\* bytes of every text tensor, a failed one frees it and had a cause, and the
\* two diagnostics for impossible cases are never reported - for every
\* checkpoint, chunk size, alignment and number of workers.
THEOREM LoadStaysSound == LifeSpec => []LoadIsSound
<1>1. CopyInv /\ LoadInv /\ OneQueueEach => LoadIsSound
  <2> SUFFICES ASSUME CopyInv, LoadInv, OneQueueEach PROVE LoadIsSound
    OBVIOUS
  <2>1. /\ result \in {"none", "ok", "refused", "failed", "moved"}
        /\ result = "failed" => faults > 0
    BY DEF LoadInv, Progress, Causes, CopyInv, LoadTypes
  <2>2. ASSUME main = "returned" PROVE held = {} /\ stream = NoStreams
    <3>1. held = {} /\ DOMAIN stream = Threads
      BY <2>2 DEF CopyInv, Running, LoadTypes
    <3>2. \A w \in Threads : stream[w] = <<>>
      BY <3>1 DEF CopyInv, Running
    <3> QED BY <3>1, <3>2 DEF NoStreams, OneQueueEach
  <2>3. main = "returned" => /\ result = "ok" => arena.live /\ Resident
                             /\ result \in {"refused", "failed"} => ~ arena.live
    BY DEF LoadInv, Progress
  <2> QED BY <2>1, <2>2, <2>3 DEF LoadIsSound
<1> QED BY <1>1, EngineInvariant, LoadInvariant, QueuesStay, PTL

=============================================================================
