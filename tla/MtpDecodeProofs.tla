-------------------------- MODULE MtpDecodeProofs --------------------------
(***************************************************************************)
(* Speculative decoding for every vocabulary, every greedy path and every  *)
(* number of requested tokens: what the client sees is what GreedyDecode   *)
(* allows, the committed state is that of the emitted tokens at every      *)
(* boundary, and no check of the transaction protocol rejects what the     *)
(* service itself did.                                                     *)
(***************************************************************************)
EXTENDS MtpDecode, TLAPS

(***************************************************************************)
(* The inductive invariant                                                 *)
(***************************************************************************)
InRound == {"propose", "verify", "commit", "emit", "finish"}
Verified == {"commit", "emit", "finish"}

\* What the client has is a prefix of the greedy path.
OutIsGreedy ==
  /\ path \in Abstract!Paths
  /\ \A i \in 1 .. Len(out) : out[i] = path[i]

\* Who may be where with what left of the request.
Control ==
  /\ pc = "done" <=> outcome # "running"
  /\ pc # "done" => ~fault
  /\ outcome = "failed" => fault
  /\ pc \notin {"initialize", "done"} => poisoned = {}
  /\ pc = "initialize" => "target" \notin poisoned
  /\ active <=> pc \in InRound
  /\ pc \in {"initialize", "first"} =>
       out = << >> /\ owner = 0 /\ length = 0 /\ rec = 0 /\ home = 0
  /\ pc = "first" => dpos = 0
  /\ pc \notin {"initialize", "first", "done"} => Len(out) >= 1
  /\ pc \in {"idle", "begin", "propose", "verify", "commit", "emit"} =>
       out[Len(out)] # Stop /\ ~refused
  /\ pc \in {"begin", "propose", "verify", "commit", "emit"} => Len(out) < MaxNew

TargetAt(n) == length = n /\ rec = n /\ Gdn = n /\ 1 .. n \subseteq kv
DraftAt(n) == dpos = n /\ 1 .. n \subseteq drows

\* Between rounds, and in one until the rows are verified.
Boundary ==
  /\ pc \in {"settle", "idle", "begin", "propose", "verify"} => TargetAt(Len(out) - 1)
  /\ pc \in {"settle", "idle", "begin"} => DraftAt(Len(out) - 1)

\* The first r inputs are on the greedy path.
OnPath(r) == \A i \in 1 .. r : inputs[i] = path[entry + i]

\* What a row computed from the greedy path left behind.
RowIs(r) ==
  snap[r] = entry + r /\ entry + r \in kv /\ preds[r] = path[entry + r + 1]

\* The draft when c rows are committed.
DraftCommitted(c) ==
  IF c = 0
    THEN dpos = RewindTo /\ 1 .. RewindTo \subseteq drows /\ prepared = NothingPrepared
    ELSE /\ DraftAt(entry + c) /\ ~seedCache
         /\ IF c >= 2 /\ ConfirmedTail >= 2
              THEN /\ prepared = [begin |-> entry + 1, rows |-> ConfirmedTail,
                                  done |-> c - 1]
                   /\ entry + 2 .. entry + 1 + ConfirmedTail \subseteq drows
              ELSE prepared = NothingPrepared

Committed(c) ==
  /\ c >= 1 /\ OnPath(c) /\ owner = c /\ length = entry + c /\ rec = entry + c

Proposing ==
  /\ ~verified /\ committed = 0 /\ entry = Len(out) - 1
  /\ rows = Count + 1 /\ Count >= 1 /\ inputs = <<Seed>>
  /\ DraftAt(entry) /\ ~seedCache

Verifying ==
  /\ ~verified /\ committed = 0 /\ entry = Len(out) - 1
  /\ Len(inputs) = rows /\ OnPath(1)
  /\ RewindTo =< dpos /\ 1 .. RewindTo \subseteq drows
  /\ ~seedCache => dpos = entry

Committing ==
  /\ verified /\ Len(inputs) = rows /\ Len(preds) = rows /\ OnPath(1)
  /\ \A r \in 1 .. rows : OnPath(r) => RowIs(r)
  /\ committed =< rows
  /\ DraftCommitted(committed)

Round ==
  /\ pc \in InRound => /\ snap[0] = entry /\ 1 .. entry \subseteq kv
                       /\ rows >= 1 /\ entry + rows =< MaxNew - 1
  /\ pc = "propose" => Proposing
  /\ pc = "verify" => Verifying
  /\ pc \in Verified => Committing
  /\ pc = "commit" => /\ Len(out) = entry + committed + 1
                      /\ committed < rows /\ OnPath(committed + 1)
  /\ pc = "emit" => Len(out) = entry + committed /\ Committed(committed)
  /\ pc = "finish" => Len(out) = entry + committed + 1 /\ Committed(committed)

MtpInv == TypeOK /\ OutIsGreedy /\ Control /\ Boundary /\ Round


\* The snapshot slots once the rows are verified.
Written ==
  [s \in Slots |-> IF s \in 1 .. rows THEN RowContent(inputs, s) ELSE snap[s]]

\* What commit_prefix(r) does to the draft.
DraftStep(r) ==
  /\ dpos' = IF UsesSeedRow(r) THEN dpos ELSE dpos + 1
  /\ IF UsesSeedRow(r) THEN UNCHANGED <<drows, prepared>>
     ELSE IF Prepares(r)
     THEN /\ prepared' = [begin |-> dpos, rows |-> ConfirmedTail, done |-> 1]
          /\ drows' = (drows \ (dpos + 1 .. dpos + ConfirmedTail)) \cup
                      {i \in dpos + 1 .. dpos + ConfirmedTail :
                         Reconciled(i, i - dpos + 1)}
     ELSE IF prepared.rows # 0
     THEN prepared' = [prepared EXCEPT !.done = r - 1] /\ UNCHANGED drows
     ELSE /\ prepared' = NothingPrepared
          /\ drows' = (drows \ {dpos + 1}) \cup {i \in {dpos + 1} : Reconciled(i, r)}

\* The draft once r rows are committed.
DraftAfter(r) ==
  /\ dpos' = entry + r /\ 1 .. entry + r \subseteq drows' /\ drows' \subseteq 1 .. Capacity + 1
  /\ IF r >= 2 /\ ConfirmedTail >= 2
       THEN /\ prepared' = [begin |-> entry + 1, rows |-> ConfirmedTail, done |-> r - 1]
            /\ entry + 2 .. entry + 1 + ConfirmedTail \subseteq drows'
       ELSE prepared' = NothingPrepared

-----------------------------------------------------------------------------
\* What is assumed of the constants, in the form the steps use.
LEMMA Constants ==
  /\ MaxNew \in Nat \ {0} /\ Capacity \in Nat /\ Capacity >= MaxNew - 1
  /\ DraftLength \in {2, 3} /\ Stop \in Token
BY MaxNewAssumption, CapacityAssumption, DraftLengthAssumption, StopAssumption

\* A round asks for at most three proposals, and leaves room for the token
\* the target adds.
LEMMA CountBound ==
  ASSUME TypeOK, Len(out) < MaxNew
  PROVE  Count \in 0 .. 3 /\ Count =< MaxNew - Len(out) - 1
<1>1. Remaining \in Int /\ Remaining >= 1 /\ Remaining = MaxNew - Len(out)
  BY Constants DEF Remaining, TypeOK
<1>2. OutputTailBudget(DraftLength, Remaining) \in {2, 3}
  BY Constants DEF OutputTailBudget
<1> QED BY <1>1, <1>2 DEF Count, Least

\* The pending token is on the greedy path.
LEMMA SeedOnPath ==
  ASSUME TypeOK, OutIsGreedy, Len(out) >= 1
  PROVE  Seed \in Token /\ Seed = path[Len(out)]
<1>1. out \in Seq(Token) /\ Len(out) \in Nat
  BY DEF TypeOK
<1>2. Len(out) \in 1 .. Len(out)
  BY <1>1
<1> QED BY <1>1, <1>2 DEF OutIsGreedy, Seed

\* The next request starts from a reset target.
LEMMA NextRequestKeeps ==
  ASSUME MtpInv, NextRequest
  PROVE  MtpInv' /\ [Abstract!Next]_(Abstract!vars)
<1>1. /\ pc = "done" /\ pc' = "initialize"
      /\ path' \in Abstract!Paths /\ out' = << >>
      /\ refused' \in BOOLEAN /\ ~refused' /\ outcome' = "running"
      /\ kv' = {} /\ rec' = 0 /\ home' = 0 /\ owner' = 0 /\ length' = 0
      /\ poisoned' = poisoned \ {"target"} /\ fault' \in BOOLEAN /\ ~fault'
      /\ refused' = FALSE
      /\ UNCHANGED <<snap, active, verified, rows, committed, entry, inputs,
                     preds, seedCache, dpos, drows, prepared>>
  BY DEF NextRequest, ResetTarget, request, target, transaction, draft
<1>2. TypeOK'
  BY <1>1, Constants DEF MtpInv, TypeOK, Control, OutIsGreedy, Slots, Content, NothingPrepared, Off, Abstract!Outcome, Abstract!Paths
<1>3. OutIsGreedy'
  BY <1>1 DEF MtpInv, OutIsGreedy
<1>4. Control'
  BY <1>1, Constants DEF MtpInv, TypeOK, Control, InRound
<1>5. Boundary'
  BY <1>1, Constants DEF MtpInv, TypeOK, Control, Boundary, TargetAt, DraftAt, Gdn
<1>6. Round'
  BY <1>1 DEF MtpInv, Round, InRound, Verified
<1>7. [Abstract!Next]_(Abstract!vars)
  BY <1>1 DEF MtpInv, Control, Abstract!Next, Abstract!NextRequest
<1> QED BY <1>2, <1>3, <1>4, <1>5, <1>6, <1>7 DEF MtpInv

\* The draft is rebuilt from the prompt.
LEMMA InitializeKeeps ==
  ASSUME MtpInv, Initialize
  PROVE  MtpInv' /\ [Abstract!Next]_(Abstract!vars)
<1>1. /\ pc = "initialize" /\ pc' = "first"
      /\ seedCache' \in BOOLEAN /\ ~seedCache'
      /\ dpos' = 0 /\ drows' = {} /\ prepared' = NothingPrepared
      /\ poisoned' = poisoned \ {"draft"}
      /\ UNCHANGED <<path, out, refused, outcome, kv, rec, home, snap, owner,
                     length, active, verified, rows, committed, entry,
                     inputs, preds, fault>>
  BY DEF Initialize, request, target, transaction, draft
<1>2. TypeOK'
  BY <1>1, Constants DEF MtpInv, TypeOK, Control, OutIsGreedy, Content, NothingPrepared, Off, Abstract!Outcome, Abstract!Paths
<1>3. OutIsGreedy'
  BY <1>1 DEF MtpInv, OutIsGreedy
<1>4. Control'
  BY <1>1, Constants DEF MtpInv, TypeOK, Control, InRound
<1>5. Boundary'
  BY <1>1, Constants DEF MtpInv, TypeOK, Control, Boundary, TargetAt, DraftAt, Gdn
<1>6. Round'
  BY <1>1 DEF MtpInv, Round, InRound, Verified
<1>7. [Abstract!Next]_(Abstract!vars)
  BY <1>1 DEF Abstract!vars
<1> QED BY <1>2, <1>3, <1>4, <1>5, <1>6, <1>7 DEF MtpInv

\* The probe cancels the rebuild.
LEMMA InitializeCancelledKeeps ==
  ASSUME MtpInv, InitializeCancelled
  PROVE  MtpInv' /\ [Abstract!Next]_(Abstract!vars)
<1>1. /\ pc = "initialize" /\ outcome' = "cancelled"
      /\ poisoned' = {"target", "draft"}
      /\ kv' = {} /\ rec' = Off /\ home' = Off
      /\ snap' = [s \in Slots |-> Off] /\ drows' = {} /\ pc' = "done"
      /\ active' \in BOOLEAN /\ ~active' /\ verified' \in BOOLEAN /\ ~verified'
      /\ seedCache' \in BOOLEAN /\ ~seedCache' /\ prepared' = NothingPrepared
      /\ rows' = 0 /\ committed' = 0 /\ entry' = 0 /\ inputs' = << >> /\ preds' = << >>
      /\ UNCHANGED <<path, out, refused, owner, length, dpos, fault>>
  BY DEF InitializeCancelled, Abort, Retire, request, target, transaction, draft
<1>2. TypeOK'
  BY <1>1, Constants DEF MtpInv, TypeOK, Control, OutIsGreedy, Slots, Content, NothingPrepared, Off, Abstract!Outcome, Abstract!Paths
<1>3. OutIsGreedy'
  BY <1>1 DEF MtpInv, OutIsGreedy
<1>4. Control'
  BY <1>1, Constants DEF MtpInv, TypeOK, Control, InRound
<1>5. Boundary'
  BY <1>1, Constants DEF MtpInv, TypeOK, Control, Boundary, TargetAt, DraftAt, Gdn
<1>6. Round'
  BY <1>1 DEF MtpInv, Round, InRound, Verified
<1>7. [Abstract!Next]_(Abstract!vars)
  BY <1>1 DEF MtpInv, Control, Abstract!Next, Abstract!Cancel, Abstract!Settled
<1> QED BY <1>2, <1>3, <1>4, <1>5, <1>6, <1>7 DEF MtpInv

\* The rebuild fails, and only because the device does.
LEMMA InitializeFailsKeeps ==
  ASSUME MtpInv, InitializeFails
  PROVE  MtpInv' /\ [Abstract!Next]_(Abstract!vars)
<1>1. /\ pc = "initialize" /\ outcome' = "failed"
      /\ fault' \in BOOLEAN /\ fault'
      /\ poisoned' = {"target", "draft"}
      /\ kv' = {} /\ rec' = Off /\ home' = Off
      /\ snap' = [s \in Slots |-> Off] /\ drows' = {} /\ pc' = "done"
      /\ active' \in BOOLEAN /\ ~active' /\ verified' \in BOOLEAN /\ ~verified'
      /\ seedCache' \in BOOLEAN /\ ~seedCache' /\ prepared' = NothingPrepared
      /\ rows' = 0 /\ committed' = 0 /\ entry' = 0 /\ inputs' = << >> /\ preds' = << >>
      /\ UNCHANGED <<path, out, refused, owner, length, dpos>>
  BY DEF InitializeFails, CanInitialize, MtpInv, Control, InRound, Abort, Retire, request, target, transaction, draft
<1>2. TypeOK'
  BY <1>1, Constants DEF MtpInv, TypeOK, Control, OutIsGreedy, Slots, Content, NothingPrepared, Off, Abstract!Outcome, Abstract!Paths
<1>3. OutIsGreedy'
  BY <1>1 DEF MtpInv, OutIsGreedy
<1>4. Control'
  BY <1>1, Constants DEF MtpInv, TypeOK, Control, InRound
<1>5. Boundary'
  BY <1>1, Constants DEF MtpInv, TypeOK, Control, Boundary, TargetAt, DraftAt, Gdn
<1>6. Round'
  BY <1>1 DEF MtpInv, Round, InRound, Verified
<1>7. [Abstract!Next]_(Abstract!vars)
  BY <1>1 DEF MtpInv, Control, Abstract!Next, Abstract!Fail
<1> QED BY <1>2, <1>3, <1>4, <1>5, <1>6, <1>7 DEF MtpInv

\* The token the prefill predicted.
LEMMA FirstTokenKeeps ==
  ASSUME MtpInv, FirstToken
  PROVE  MtpInv' /\ [Abstract!Next]_(Abstract!vars)
<1>1. /\ pc = "first" /\ pc' = "settle"
      /\ out' = <<path[1]>> /\ refused' \in BOOLEAN
      /\ UNCHANGED <<path, outcome, kv, rec, home, snap, owner, length,
                     active, verified, rows, committed, entry, inputs, preds,
                     seedCache, dpos, drows, prepared, poisoned, fault>>
  BY DEF FirstToken, request, target, transaction, draft
<1>2. TypeOK'
  BY <1>1, Constants DEF MtpInv, TypeOK, Control, OutIsGreedy, Content, NothingPrepared, Off, Abstract!Outcome, Abstract!Paths
<1>3. OutIsGreedy'
  BY <1>1 DEF MtpInv, OutIsGreedy
<1>4. Control'
  BY <1>1, Constants DEF MtpInv, TypeOK, Control, InRound
<1>5. Boundary'
  BY <1>1, Constants DEF MtpInv, TypeOK, Control, Boundary, TargetAt, DraftAt, Gdn
<1>6. Round'
  BY <1>1 DEF MtpInv, Round, InRound, Verified
<1>7. [Abstract!Next]_(Abstract!vars)
  BY <1>1 DEF MtpInv, Control, Abstract!Next, Abstract!Emit, Abstract!Settled
<1> QED BY <1>2, <1>3, <1>4, <1>5, <1>6, <1>7 DEF MtpInv

\* A stop token or a refusal ends the request.
LEMMA SettleKeeps ==
  ASSUME MtpInv, Settle
  PROVE  MtpInv' /\ [Abstract!Next]_(Abstract!vars)
<1>1. /\ pc = "settle"
      /\ IF Settled \in {"stop", "cancelled"} THEN outcome' = Settled /\ pc' = "done"
         ELSE pc' = "idle" /\ outcome' = outcome
      /\ UNCHANGED <<path, out, refused, kv, rec, home, snap, owner, length,
                     active, verified, rows, committed, entry, inputs, preds,
                     seedCache, dpos, drows, prepared, poisoned, fault>>
  BY DEF Settle, request, target, transaction, draft
<1>2. TypeOK'
  BY <1>1, Constants DEF MtpInv, TypeOK, Control, OutIsGreedy, Content, NothingPrepared, Off, Abstract!Outcome, Abstract!Paths
<1>3. OutIsGreedy'
  BY <1>1 DEF MtpInv, OutIsGreedy
<1>4. Control'
  BY <1>1, Constants DEF MtpInv, TypeOK, Control, InRound, Settled, Abstract!Settled
<1>5. Boundary'
  BY <1>1, Constants DEF MtpInv, TypeOK, Control, Boundary, TargetAt, DraftAt, Gdn
<1>6. Round'
  BY <1>1 DEF MtpInv, Round, InRound, Verified
<1>7. [Abstract!Next]_(Abstract!vars)
  BY <1>1, Constants
    DEF MtpInv, TypeOK, Control, Settled, Abstract!Settled, Abstract!Next, Abstract!Conclude,
        Abstract!vars
<1> QED BY <1>2, <1>3, <1>4, <1>5, <1>6, <1>7 DEF MtpInv

\* All requested tokens are there.
LEMMA LoopEndsKeeps ==
  ASSUME MtpInv, LoopEnds
  PROVE  MtpInv' /\ [Abstract!Next]_(Abstract!vars)
<1>1. /\ pc = "idle" /\ pc' = "done" /\ outcome' = "length"
      /\ Len(out) >= MaxNew
      /\ UNCHANGED <<path, out, refused, kv, rec, home, snap, owner, length,
                     active, verified, rows, committed, entry, inputs, preds,
                     seedCache, dpos, drows, prepared, poisoned, fault>>
  BY DEF LoopEnds, request, target, transaction, draft
<1>2. TypeOK'
  BY <1>1, Constants DEF MtpInv, TypeOK, Control, OutIsGreedy, Content, NothingPrepared, Off, Abstract!Outcome, Abstract!Paths
<1>3. OutIsGreedy'
  BY <1>1 DEF MtpInv, OutIsGreedy
<1>4. Control'
  BY <1>1, Constants DEF MtpInv, TypeOK, Control, InRound
<1>5. Boundary'
  BY <1>1, Constants DEF MtpInv, TypeOK, Control, Boundary, TargetAt, DraftAt, Gdn
<1>6. Round'
  BY <1>1 DEF MtpInv, Round, InRound, Verified
<1>7. [Abstract!Next]_(Abstract!vars)
  BY <1>1 DEF MtpInv, Control, Abstract!Next, Abstract!Conclude, Abstract!Settled
<1> QED BY <1>2, <1>3, <1>4, <1>5, <1>6, <1>7 DEF MtpInv

\* The probe cancels between two rounds.
LEMMA ProbeCancelsKeeps ==
  ASSUME MtpInv, ProbeCancels
  PROVE  MtpInv' /\ [Abstract!Next]_(Abstract!vars)
<1>1. /\ pc = "idle" /\ pc' = "done" /\ outcome' = "cancelled"
      /\ Len(out) < MaxNew
      /\ UNCHANGED <<path, out, refused, kv, rec, home, snap, owner, length,
                     active, verified, rows, committed, entry, inputs, preds,
                     seedCache, dpos, drows, prepared, poisoned, fault>>
  BY DEF ProbeCancels, request, target, transaction, draft
<1>2. TypeOK'
  BY <1>1, Constants DEF MtpInv, TypeOK, Control, OutIsGreedy, Content, NothingPrepared, Off, Abstract!Outcome, Abstract!Paths
<1>3. OutIsGreedy'
  BY <1>1 DEF MtpInv, OutIsGreedy
<1>4. Control'
  BY <1>1, Constants DEF MtpInv, TypeOK, Control, InRound
<1>5. Boundary'
  BY <1>1, Constants DEF MtpInv, TypeOK, Control, Boundary, TargetAt, DraftAt, Gdn
<1>6. Round'
  BY <1>1 DEF MtpInv, Round, InRound, Verified
<1>7. [Abstract!Next]_(Abstract!vars)
  BY <1>1, Constants DEF MtpInv, TypeOK, Control, Abstract!Next, Abstract!Cancel, Abstract!Settled
<1> QED BY <1>2, <1>3, <1>4, <1>5, <1>6, <1>7 DEF MtpInv

\* The option checks of run_round hold.
LEMMA StartRoundKeeps ==
  ASSUME MtpInv, StartRound
  PROVE  MtpInv' /\ [Abstract!Next]_(Abstract!vars)
<1>1. /\ pc = "idle" /\ pc' = "begin"
      /\ Len(out) < MaxNew
      /\ UNCHANGED <<path, out, refused, outcome, kv, rec, home, snap, owner,
                     length, active, verified, rows, committed, entry,
                     inputs, preds, seedCache, dpos, drows, prepared,
                     poisoned, fault>>
  BY Constants DEF StartRound, MtpInv, TypeOK, Control, Boundary, TargetAt, OptionsValid, Seed, Remaining, request, target, transaction, draft
<1>2. TypeOK'
  BY <1>1, Constants DEF MtpInv, TypeOK, Control, OutIsGreedy, Content, NothingPrepared, Off, Abstract!Outcome, Abstract!Paths
<1>3. OutIsGreedy'
  BY <1>1 DEF MtpInv, OutIsGreedy
<1>4. Control'
  BY <1>1, Constants DEF MtpInv, TypeOK, Control, InRound
<1>5. Boundary'
  BY <1>1, Constants DEF MtpInv, TypeOK, Control, Boundary, TargetAt, DraftAt, Gdn
<1>6. Round'
  BY <1>1 DEF MtpInv, Round, InRound, Verified
<1>7. [Abstract!Next]_(Abstract!vars)
  BY <1>1 DEF Abstract!vars
<1> QED BY <1>2, <1>3, <1>4, <1>5, <1>6, <1>7 DEF MtpInv

\* A round opens on the committed state.
LEMMA BeginKeeps ==
  ASSUME MtpInv, Begin
  PROVE  MtpInv' /\ [Abstract!Next]_(Abstract!vars)
<1>1. /\ pc = "begin" /\ pc' = (IF Count = 0 THEN "verify" ELSE "propose")
      /\ active' \in BOOLEAN /\ active' /\ verified' \in BOOLEAN /\ ~verified'
      /\ seedCache' \in BOOLEAN /\ ~seedCache' /\ committed' = 0
      /\ entry' = length /\ rows' = Count + 1
      /\ inputs' = <<Seed>> /\ preds' = << >> /\ prepared' = NothingPrepared
      /\ snap' = [snap EXCEPT ![0] = rec]
      /\ UNCHANGED <<path, out, refused, outcome, kv, rec, home, owner,
                     length, dpos, drows, poisoned, fault>>
  BY DEF Begin, request, target, transaction, draft
<1>a. /\ Count' = Count /\ Seed' = Seed
  BY <1>1 DEF Count, Seed, Remaining
<1>b. Len(out) >= 1 /\ Len(out) < MaxNew /\ TargetAt(Len(out) - 1) /\ DraftAt(Len(out) - 1)
  BY <1>1 DEF MtpInv, Control, Boundary
<1>c. Count \in 0 .. 3 /\ Count =< MaxNew - Len(out) - 1
  BY <1>b, CountBound DEF MtpInv
<1>d. Seed \in Token /\ Seed = path[Len(out)]
  BY <1>b, SeedOnPath DEF MtpInv
<1>e. snap' \in [Slots -> Content] /\ snap'[0] = rec /\ \A s \in Slots \ {0} : snap'[s] = snap[s]
  BY <1>1 DEF MtpInv, TypeOK, Slots
<1>f. length = Len(out) - 1 /\ rec = length /\ 1 .. length \subseteq kv /\ dpos = length
      /\ 1 .. dpos \subseteq drows /\ Gdn = length
  BY <1>b DEF TargetAt, DraftAt
<1>2. TypeOK'
  <2> /\ TypeOK /\ rows' \in 0 .. 4 /\ entry' \in 0 .. Capacity
    BY <1>1, <1>c DEF MtpInv, TypeOK
  <2>2. inputs' \in Seq(Token) /\ preds' \in Seq(Token)
    BY <1>1, <1>d
  <2> QED BY <1>1, <1>e, <2>2, Constants DEF TypeOK, NothingPrepared
<1>3. OutIsGreedy'
  BY <1>1 DEF MtpInv, OutIsGreedy
<1>4. Control'
  BY <1>1, Constants DEF MtpInv, TypeOK, Control, InRound
<1>5. Boundary'
  <2>1. Gdn' = Gdn
    BY <1>1, <1>e DEF Gdn, MtpInv, TypeOK
  <2> QED BY <1>1, <1>b, <2>1 DEF Boundary, TargetAt, DraftAt
<1>6. Round'
  <2>1. snap'[0] = entry' /\ 1 .. entry' \subseteq kv' /\ rows' >= 1 /\ entry' + rows' =< MaxNew - 1
    BY <1>1, <1>c, <1>e, <1>f, Constants DEF MtpInv, TypeOK
  <2>2. pc' = "propose" => Proposing'
    BY <1>1, <1>a, <1>b, <1>c, <1>f DEF Proposing, DraftAt
  <2>3. pc' = "verify" => Verifying'
    <3> HAVE pc' = "verify"
    <3>1. Count = 0 /\ rows' = 1
      BY <1>1, <1>c
    <3>2. OnPath(1)'
      BY <1>1, <1>d, <1>f DEF OnPath, MtpInv, TypeOK
    <3>3. RewindTo' = entry'
      BY <1>1 DEF RewindTo
    <3> QED BY <1>1, <1>f, <3>1, <3>2, <3>3 DEF Verifying
  <2> QED BY <1>1, <2>1, <2>2, <2>3 DEF Round, InRound, Verified
<1>7. [Abstract!Next]_(Abstract!vars)
  BY <1>1 DEF Abstract!vars
<1> QED BY <1>2, <1>3, <1>4, <1>5, <1>6, <1>7 DEF MtpInv

\* The draft proposes; only the row of the pending token is kept.
LEMMA ProposeKeeps ==
  ASSUME MtpInv, Propose
  PROVE  MtpInv' /\ [Abstract!Next]_(Abstract!vars)
<1>1. /\ pc = "propose" /\ pc' = "verify"
      /\ seedCache' \in BOOLEAN /\ seedCache' /\ prepared' = NothingPrepared
      /\ \E d \in Proposals, steps \in Int :
          /\ steps >= 1 /\ steps =< Count
          /\ inputs' = <<Seed>> \o d /\ rows' = Len(d) + 1 /\ dpos' = dpos + steps
          /\ drows' = (drows \ (dpos + 1 .. dpos + steps)) \cup
                      {i \in {entry + 1} : Seed = path[i] /\ snap[0] = entry}
      /\ UNCHANGED <<path, out, refused, outcome, kv, rec, home, snap, owner,
                     length, active, verified, committed, entry, preds,
                     poisoned, fault>>
  BY DEF Propose, request, target, transaction, draft
<1>b. /\ Len(out) >= 1 /\ Len(out) < MaxNew /\ TargetAt(Len(out) - 1) /\ Proposing
      /\ snap[0] = entry /\ 1 .. entry \subseteq kv /\ rows >= 1 /\ entry + rows =< MaxNew - 1
  BY <1>1 DEF MtpInv, Control, Boundary, Round, InRound
<1>c. Seed \in Token /\ Seed = path[Len(out)]
  BY <1>b, SeedOnPath DEF MtpInv
<1>d. /\ Count \in 0 .. 3 /\ rows = Count + 1 /\ entry = Len(out) - 1
      /\ dpos = entry /\ 1 .. entry \subseteq drows
  BY <1>b, CountBound DEF MtpInv, Proposing, DraftAt
<1>e. PICK d \in Proposals, steps \in Int :
        /\ steps >= 1 /\ steps =< Count
        /\ inputs' = <<Seed>> \o d /\ rows' = Len(d) + 1 /\ dpos' = dpos + steps
        /\ drows' = (drows \ (dpos + 1 .. dpos + steps)) \cup
                    {i \in {entry + 1} : Seed = path[i] /\ snap[0] = entry}
  BY <1>1
<1>f. d \in Seq(Token) /\ Len(d) \in 0 .. Count
  <2>1. PICK n \in 0 .. Count : d \in [1 .. n -> Token \ {Stop}]
    BY DEF Proposals
  <2> QED BY <2>1, <1>d
<1>g. entry \in Nat /\ entry + 1 = Len(out)
  BY <1>d DEF MtpInv, TypeOK
<1>h. drows' = (drows \ (entry + 1 .. entry + steps)) \cup {entry + 1}
  BY <1>b, <1>c, <1>d, <1>e, <1>g
<1>i. inputs' \in Seq(Token) /\ Len(inputs') = Len(d) + 1 /\ inputs'[1] = Seed
  <2>1. <<Seed>> \in Seq(Token) /\ Len(<<Seed>>) = 1
    BY <1>c
  <2> QED BY <1>c, <1>e, <1>f, <2>1
<1>2. TypeOK'
  <2>1. rows' \in 0 .. 4 /\ dpos' \in 0 .. Capacity + 1
    <3>1. rows' \in 0 .. 4
      <4>1. rows' = Len(d) + 1
        BY <1>e
      <4>2. Len(d) \in 0 .. Count /\ Count \in 0 .. 3
        BY <1>d, <1>f
      <4> QED BY <4>1, <4>2
    <3>2. dpos' \in 0 .. Capacity + 1
      BY <1>b, <1>d, <1>e, <1>f, <1>g, Constants
    <3> QED BY <3>1, <3>2
  <2>2. drows' \subseteq 1 .. Capacity + 1
    <3>1. drows \subseteq 1 .. Capacity + 1
      BY DEF MtpInv, TypeOK
    <3>2. entry + 1 \in 1 .. Capacity + 1
      BY <1>b, <1>d, <1>g, Constants
    <3> QED BY <1>h, <3>1, <3>2
  <2> QED BY <1>1, <1>i, <2>1, <2>2, Constants DEF MtpInv, TypeOK, NothingPrepared
<1>3. OutIsGreedy'
  BY <1>1 DEF MtpInv, OutIsGreedy
<1>4. Control'
  BY <1>1, Constants DEF MtpInv, TypeOK, Control, InRound
<1>5. Boundary'
  <2>1. Gdn' = Gdn
    BY <1>1 DEF Gdn
  <2> QED BY <1>1, <1>b, <2>1 DEF Boundary, TargetAt
<1>6. Round'
  <2>1. rows' >= 1 /\ entry + rows' =< MaxNew - 1 /\ Len(inputs') = rows'
    BY <1>b, <1>d, <1>e, <1>f, <1>g, <1>i, Constants
  <2>2. OnPath(1)'
    BY <1>1, <1>c, <1>g, <1>i DEF OnPath
  <2>3. RewindTo' = entry + 1
    BY <1>1 DEF RewindTo
  <2>4. RewindTo' =< dpos'
    BY <2>3, <1>d, <1>e, <1>g
  <2>5. 1 .. RewindTo' \subseteq drows'
    BY <2>3, <1>d, <1>h, <1>g
  <2>6. Verifying'
    BY <1>1, <1>b, <1>d, <2>1, <2>2, <2>4, <2>5 DEF Verifying, Proposing
  <2> QED BY <1>1, <1>b, <2>1, <2>6 DEF Round, InRound, Verified
<1>7. [Abstract!Next]_(Abstract!vars)
  BY <1>1 DEF Abstract!vars
<1> QED BY <1>2, <1>3, <1>4, <1>5, <1>6, <1>7 DEF MtpInv

\* The rows computed from the greedy path, and only those, hold it.
LEMMA VerifyKeeps ==
  ASSUME MtpInv, Verify
  PROVE  MtpInv' /\ [Abstract!Next]_(Abstract!vars)
<1>1. /\ pc = "verify" /\ pc' = "commit"
      /\ CanVerify /\ preds' \in Predictions
      /\ dpos' = RewindTo /\ prepared' = NothingPrepared /\ verified' \in BOOLEAN /\ verified'
      /\ kv' = (kv \ (entry + 1 .. entry + rows)) \cup
              {i \in entry + 1 .. entry + rows : Sound(inputs, i - entry)}
      /\ IF rows > 1 THEN snap' = Written /\ rec' = rec /\ home' = home /\ length' = length
         ELSE /\ rec' = RowContent(inputs, 1) /\ length' = length + 1
              /\ home' = IF owner = 0 THEN RowContent(inputs, 1) ELSE home
              /\ snap' = IF owner = 0 THEN Written
                         ELSE [Written EXCEPT ![owner] = RowContent(inputs, 1)]
      /\ UNCHANGED <<path, out, refused, outcome, owner, active, rows,
                     committed, entry, inputs, seedCache, drows, poisoned,
                     fault>>
  BY DEF Verify, Written, request, target, transaction, draft
<1>b. /\ Len(out) >= 1 /\ Len(out) < MaxNew /\ TargetAt(Len(out) - 1) /\ Verifying
      /\ snap[0] = entry /\ 1 .. entry \subseteq kv /\ rows >= 1 /\ entry + rows =< MaxNew - 1
  BY <1>1 DEF MtpInv, Control, Boundary, Round, InRound
<1>c. /\ entry \in Nat /\ rows \in 1 .. 4 /\ Len(inputs) = rows /\ inputs \in Seq(Token)
      /\ length = entry /\ entry = Len(out) - 1 /\ owner \in Slots
  BY <1>b DEF MtpInv, TypeOK, Verifying, TargetAt
<1>d. \A r \in 1 .. rows : Sound(inputs, r) <=> OnPath(r)
  BY <1>b, <1>c, Constants DEF Sound, OnPath, TargetAt, Verifying
<1>e. \A r \in 1 .. rows : RowContent(inputs, r) \in Content /\ (OnPath(r) => RowContent(inputs, r) = entry + r)
  BY <1>b, <1>c, <1>d, Constants DEF RowContent, Content, Off
<1>f. /\ Written \in [Slots -> Content] /\ Written[0] = entry
      /\ \A r \in 1 .. rows : Written[r] = RowContent(inputs, r)
  <2>1. snap \in [Slots -> Content]
    BY DEF MtpInv, TypeOK
  <2>2. \A s \in Slots : Written[s] = IF s \in 1 .. rows THEN RowContent(inputs, s) ELSE snap[s]
    BY DEF Written
  <2>3. \A s \in Slots : Written[s] \in Content
    BY <1>e, <2>1, <2>2
  <2>4. Written \in [Slots -> Content]
    BY <2>3 DEF Written
  <2>5. 0 \in Slots /\ 0 \notin 1 .. rows /\ 1 .. rows \subseteq Slots
    BY <1>c DEF Slots
  <2> QED BY <1>b, <2>2, <2>4, <2>5
<1>g. /\ snap' \in [Slots -> Content] /\ snap'[0] = entry
      /\ \A r \in 1 .. rows : snap'[r] = RowContent(inputs, r)
  <2>1. CASE rows > 1 \/ owner = 0
    BY <1>1, <1>f, <2>1
  <2>2. CASE rows = 1 /\ owner # 0
    <3> DEFINE W == Written
               x == RowContent(inputs, 1)
    <3>1. snap' = [W EXCEPT ![owner] = x]
      BY <1>1, <2>2
    <3>2. x \in Content /\ W[1] = x /\ W \in [Slots -> Content] /\ W[0] = entry
      BY <1>e, <1>f, <2>2
    <3>3. \A r \in 1 .. rows : r = 1
      BY <2>2
    <3> HIDE DEF W, x
    <3>4. snap' \in [Slots -> Content] /\ snap'[0] = entry /\ snap'[1] = x
      BY <3>1, <3>2, <1>c, <2>2 DEF Slots
    <3> QED BY <3>4, <3>3 DEF x
  <2> QED BY <1>c, <2>1, <2>2
<1>h. /\ preds' \in Seq(Token) /\ Len(preds') = rows
      /\ \A r \in 1 .. rows : OnPath(r) => preds'[r] = path[entry + r + 1]
  <2>1. preds' \in [1 .. rows -> Token]
    BY <1>1 DEF Predictions
  <2>2. \A r \in 1 .. rows : Sound(inputs, r) /\ entry + r < MaxNew => preds'[r] = path[entry + r + 1]
    BY <1>1 DEF Predictions
  <2>3. \A r \in 1 .. rows : entry + r < MaxNew
    BY <1>b, <1>c, Constants
  <2>4. preds' \in Seq(Token) /\ Len(preds') = rows
    BY <1>c, <2>1
  <2> QED BY <1>d, <2>2, <2>3, <2>4
<1>i. /\ 1 .. entry \subseteq kv' /\ \A r \in 1 .. rows : OnPath(r) => entry + r \in kv'
  <2>1. \A r \in 1 .. rows : entry + r \in entry + 1 .. entry + rows /\ (entry + r) - entry = r
    BY <1>c
  <2>2. \A i \in 1 .. entry : i \notin entry + 1 .. entry + rows
    BY <1>c
  <2> QED BY <1>1, <1>b, <1>d, <2>1, <2>2
<1>j. OnPath(1) /\ \A r \in 1 .. rows : OnPath(r)' <=> OnPath(r)
  BY <1>1, <1>b DEF OnPath, Verifying
<1>2. TypeOK'
  <2>1. kv' \subseteq 1 .. Capacity
    <3>1. kv \subseteq 1 .. Capacity
      BY DEF MtpInv, TypeOK
    <3>2. entry + 1 .. entry + rows \subseteq 1 .. Capacity
      BY <1>b, <1>c, Constants
    <3> QED BY <1>1, <3>1, <3>2
  <2>2. rec' \in Content /\ home' \in Content /\ length' \in 0 .. Capacity
    <3>1. RowContent(inputs, 1) \in Content
      BY <1>c, <1>e
    <3>2. length + 1 \in 0 .. Capacity
      BY <1>b, <1>c, Constants
    <3> QED BY <1>1, <3>1, <3>2 DEF MtpInv, TypeOK
  <2>3. dpos' \in 0 .. Capacity + 1
    BY <1>1, <1>b, <1>c, Constants DEF RewindTo
  <2> QED BY <1>1, <1>g, <1>h, <2>1, <2>2, <2>3, Constants DEF MtpInv, TypeOK, NothingPrepared
<1>3. OutIsGreedy'
  BY <1>1 DEF MtpInv, OutIsGreedy
<1>4. Control'
  BY <1>1, Constants DEF MtpInv, TypeOK, Control, InRound
<1>5. Boundary'
  BY <1>1 DEF Boundary
<1>6. Round'
  <2>1. \A r \in 1 .. rows : OnPath(r)' => RowIs(r)'
    BY <1>1, <1>e, <1>g, <1>h, <1>i, <1>j DEF RowIs
  <2>2. committed' = 0 /\ OnPath(1)'
    BY <1>1, <1>b, <1>c, <1>j DEF Verifying
  <2>3. DraftCommitted(committed)'
    BY <1>1, <1>b, <2>2 DEF DraftCommitted, RewindTo, Verifying
  <2>4. Committing'
    BY <1>1, <1>b, <1>c, <1>h, <2>1, <2>2, <2>3 DEF Committing
  <2>5. Len(out') = entry' + committed' + 1 /\ committed' < rows' /\ OnPath(committed + 1)'
    <3>1. committed' + 1 = 1
      BY <2>2
    <3> QED BY <1>1, <1>c, <2>2, <3>1 DEF OnPath
  <2> QED BY <1>1, <1>b, <1>g, <1>i, <2>4, <2>5 DEF Round, InRound, Verified
<1>7. [Abstract!Next]_(Abstract!vars)
  BY <1>1 DEF Abstract!vars
<1> QED BY <1>2, <1>3, <1>4, <1>5, <1>6, <1>7 DEF MtpInv

\* The rows the target confirms are exactly the rows on the greedy path.
LEMMA Chain ==
  ASSUME TypeOK, Committing, rows \in 1 .. 4
  PROVE  /\ ValidRows \in 1 .. rows /\ OnPath(ValidRows)
         /\ \A r \in 1 .. rows : OnPath(r) => r =< ValidRows
<1> DEFINE Confirms(n) == /\ \A i \in 2 .. n : inputs[i] = preds[i - 1]
                          /\ n < rows => inputs[n + 1] # preds[n]
           V == ValidRows
<1>1. \E n \in 1 .. rows : Confirms(n)
  <2>1. CASE rows = 1 \/ inputs[2] # preds[1]
    <3>1. Confirms(1)
      BY <2>1
    <3> QED BY <3>1
  <2>2. CASE rows >= 2 /\ inputs[2] = preds[1] /\ (rows = 2 \/ inputs[3] # preds[2])
    <3>1. \A i \in 2 .. 2 : i = 2 /\ i - 1 = 1
      OBVIOUS
    <3>2. Confirms(2)
      BY <2>2, <3>1
    <3> QED BY <2>2, <3>2
  <2>3. CASE rows >= 3 /\ inputs[2] = preds[1] /\ inputs[3] = preds[2] /\ (rows = 3 \/ inputs[4] # preds[3])
    <3>1. \A i \in 2 .. 3 : (i = 2 /\ i - 1 = 1) \/ (i = 3 /\ i - 1 = 2)
      OBVIOUS
    <3>2. Confirms(3)
      BY <2>3, <3>1
    <3> QED BY <2>3, <3>2
  <2>4. CASE rows = 4 /\ inputs[2] = preds[1] /\ inputs[3] = preds[2] /\ inputs[4] = preds[3]
    <3>1. \A i \in 2 .. 4 : (i = 2 /\ i - 1 = 1) \/ (i = 3 /\ i - 1 = 2) \/ (i = 4 /\ i - 1 = 3)
      OBVIOUS
    <3>2. Confirms(4)
      BY <2>4, <3>1
    <3> QED BY <2>4, <3>2
  <2> HIDE DEF Confirms
  <2> QED BY <2>1, <2>2, <2>3, <2>4
<1>2. V \in 1 .. rows /\ Confirms(V)
  BY <1>1 DEF ValidRows
<1> HIDE DEF V
<1>3. entry \in Nat /\ V \in Int
  BY <1>2 DEF TypeOK
<1>4. ASSUME NEW r \in 1 .. rows, OnPath(r), r < V
      PROVE  OnPath(r + 1)
  <2>1. inputs[r + 1] = preds[r]
    <3>1. r + 1 \in 2 .. V /\ (r + 1) - 1 = r
      BY <1>3, <1>4
    <3> QED BY <1>2, <3>1
  <2>2. preds[r] = path[entry + r + 1]
    BY <1>4 DEF Committing, RowIs
  <2>3. entry + r + 1 = entry + (r + 1)
    BY <1>3
  <2> QED BY <1>4, <2>1, <2>2, <2>3 DEF OnPath
<1>5. OnPath(V)
  <2>1. OnPath(1)
    BY DEF Committing
  <2>2. V >= 2 => OnPath(2)
    BY <2>1, <1>2, <1>3, <1>4
  <2>3. V >= 3 => OnPath(3)
    BY <2>2, <1>2, <1>3, <1>4
  <2>4. V >= 4 => OnPath(4)
    BY <2>3, <1>2, <1>3, <1>4
  <2> QED BY <2>1, <2>2, <2>3, <2>4, <1>2, <1>3
<1>6. ASSUME NEW r \in 1 .. rows, OnPath(r), r > V
      PROVE  FALSE
  <2>1. inputs[V + 1] # preds[V]
    BY <1>2, <1>3, <1>6
  <2>2. preds[V] = path[entry + V + 1]
    BY <1>2, <1>5 DEF Committing, RowIs
  <2>3. inputs[V + 1] = path[entry + (V + 1)]
    BY <1>2, <1>3, <1>6 DEF OnPath
  <2> QED BY <2>1, <2>2, <2>3, <1>3
<1> QED BY <1>2, <1>3, <1>5, <1>6 DEF V

\* The row commit_prefix(r) writes, prepares or publishes for the draft is the
\* one of the committed token, and commit_prefix never has to refuse.
LEMMA DraftStepWorks ==
  ASSUME TypeOK, Committing, rows \in 1 .. 4, snap[0] = entry, committed < rows,
         entry + rows =< MaxNew - 1, OnPath(committed + 1), DraftStep(committed + 1)
  PROVE  DraftAfter(committed + 1)
<1> DEFINE r == committed + 1
           T == ConfirmedTail
<1>1. /\ committed \in 0 .. 3 /\ r \in 1 .. rows /\ entry \in Nat
      /\ entry + r =< Capacity /\ drows \subseteq 1 .. Capacity + 1
  BY Constants DEF TypeOK
<1>2. /\ ValidRows \in 1 .. rows /\ OnPath(ValidRows) /\ r =< ValidRows /\ T = ValidRows - 1
      /\ T \in 0 .. 3
  BY <1>1, Chain DEF ConfirmedTail
<1>3. DraftCommitted(committed)
  BY DEF Committing
<1>4. \A n \in 1 .. ValidRows : inputs[n] = path[entry + n] /\ snap[n - 1] = entry + n - 1
  <2> SUFFICES ASSUME NEW n \in 1 .. ValidRows
               PROVE  inputs[n] = path[entry + n] /\ snap[n - 1] = entry + n - 1
    OBVIOUS
  <2>1. inputs[n] = path[entry + n]
    BY <1>2 DEF OnPath
  <2>2. CASE n = 1
    BY <1>1, <2>1, <2>2
  <2>3. CASE n > 1
    <3>1. n - 1 \in 1 .. rows /\ OnPath(n - 1)
      BY <1>1, <1>2, <2>3 DEF OnPath
    <3>2. snap[n - 1] = entry + (n - 1)
      BY <3>1 DEF Committing, RowIs
    <3> QED BY <1>1, <2>1, <3>2
  <2> QED BY <2>2, <2>3
<1>5. \A i \in Int : i - entry \in 1 .. ValidRows => Reconciled(i, i - entry)
  BY <1>1, <1>4 DEF Reconciled
<1> HIDE DEF T
<1>6. CASE committed = 0 /\ seedCache
  <2>1. UsesSeedRow(r) /\ dpos' = dpos /\ drows' = drows /\ prepared' = prepared
    BY <1>6 DEF DraftStep, UsesSeedRow
  <2>2. dpos = entry + 1 /\ 1 .. entry + 1 \subseteq drows /\ prepared = NothingPrepared
    BY <1>3, <1>6 DEF DraftCommitted, RewindTo
  <2> QED BY <1>1, <1>6, <2>1, <2>2 DEF DraftAfter, T
<1>7. CASE committed = 0 /\ ~seedCache
  <2>1. dpos = entry /\ 1 .. entry \subseteq drows /\ prepared = NothingPrepared
    BY <1>3, <1>7 DEF DraftCommitted, RewindTo
  <2>2. ~UsesSeedRow(r) /\ ~Prepares(r) /\ prepared.rows = 0
    BY <1>7, <2>1 DEF UsesSeedRow, Prepares, NothingPrepared
  <2>3. /\ dpos' = entry + 1 /\ prepared' = NothingPrepared
        /\ drows' = (drows \ {dpos + 1}) \cup {i \in {dpos + 1} : Reconciled(i, r)}
    BY <2>1, <2>2 DEF DraftStep
  <2>4. Reconciled(entry + 1, 1) /\ r = 1
    <3>1. entry + 1 \in Int /\ (entry + 1) - entry = 1 /\ 1 \in 1 .. ValidRows
      BY <1>1, <1>2
    <3> QED BY <1>5, <1>7, <3>1
  <2>5. drows' = drows \cup {entry + 1}
    BY <2>1, <2>3, <2>4
  <2>6. 1 .. entry + 1 \subseteq drows' /\ drows' \subseteq 1 .. Capacity + 1
    <3>1. \A i \in 1 .. entry + 1 : i \in 1 .. entry \/ i = entry + 1
      BY <1>1
    <3>2. entry + 1 \in 1 .. Capacity + 1
      BY <1>1, <1>7, Constants
    <3> QED BY <1>1, <2>1, <2>5, <3>1, <3>2
  <2> QED BY <1>7, <2>3, <2>4, <2>6 DEF DraftAfter
<1>8. CASE committed >= 1
  <2>1. /\ dpos = entry + committed /\ 1 .. entry + committed \subseteq drows /\ ~seedCache
        /\ IF committed >= 2 /\ T >= 2
             THEN /\ prepared = [begin |-> entry + 1, rows |-> T, done |-> committed - 1]
                  /\ entry + 2 .. entry + 1 + T \subseteq drows
             ELSE prepared = NothingPrepared
    BY <1>1, <1>3, <1>8 DEF DraftCommitted, DraftAt, T
  <2>2. ~UsesSeedRow(r) /\ dpos' = dpos + 1
    BY <2>1 DEF DraftStep, UsesSeedRow
  <2>3. CASE committed = 1 /\ T >= 2
    <3>1. /\ prepared' = [begin |-> dpos, rows |-> T, done |-> 1]
          /\ drows' = (drows \ (dpos + 1 .. dpos + T)) \cup
                      {i \in dpos + 1 .. dpos + T : Reconciled(i, i - dpos + 1)}
      BY <2>2, <2>3 DEF DraftStep, Prepares, T
    <3>2. dpos = entry + 1
      BY <2>1, <2>3
    <3>3. \A i \in entry + 2 .. entry + 1 + T : Reconciled(i, i - entry) /\ i - dpos + 1 = i - entry
      BY <1>1, <1>2, <1>5, <3>2
    <3>4. drows' = drows \cup (entry + 2 .. entry + 1 + T)
      BY <1>1, <1>2, <3>1, <3>2, <3>3
    <3>5. entry + 1 + T =< Capacity + 1
      BY <1>1, <1>2, Constants
    <3>6. 1 .. entry + 2 \subseteq drows' /\ drows' \subseteq 1 .. Capacity + 1
      <4>1. \A i \in 1 .. entry + 2 : i \in 1 .. entry + committed \/ i \in entry + 2 .. entry + 1 + T
        BY <1>1, <1>2, <2>3
      <4>2. entry + 2 .. entry + 1 + T \subseteq 1 .. Capacity + 1
        BY <1>1, <1>2, <3>5, Constants
      <4> QED BY <1>1, <2>1, <3>4, <4>1, <4>2
    <3>7. r = 2 /\ r - 1 = 1 /\ dpos' = entry + r
      BY <1>1, <2>2, <2>3, <3>2
    <3> QED BY <2>3, <3>1, <3>2, <3>4, <3>6, <3>7 DEF DraftAfter, T
  <2>4. CASE committed = 1 /\ ~(T >= 2)
    <3>1. /\ prepared' = NothingPrepared
          /\ drows' = (drows \ {dpos + 1}) \cup {i \in {dpos + 1} : Reconciled(i, r)}
      BY <2>1, <2>2, <2>4 DEF DraftStep, Prepares, T, NothingPrepared
    <3>2. dpos + 1 = entry + 2 /\ r = 2
      BY <1>1, <2>1, <2>4
    <3>3. Reconciled(entry + 2, 2)
      <4>1. entry + 2 \in Int /\ (entry + 2) - entry = 2 /\ 2 \in 1 .. ValidRows
        BY <1>1, <1>2, <3>2
      <4> QED BY <1>5, <4>1
    <3>4. drows' = drows \cup {entry + 2}
      BY <3>1, <3>2, <3>3
    <3>5. 1 .. entry + 2 \subseteq drows' /\ drows' \subseteq 1 .. Capacity + 1
      <4>1. \A i \in 1 .. entry + 2 : i \in 1 .. entry + committed \/ i = entry + 2
        BY <1>1, <2>4
      <4>2. entry + 2 \in 1 .. Capacity + 1
        BY <1>1, <2>4, Constants
      <4> QED BY <1>1, <2>1, <3>4, <4>1, <4>2
    <3> QED BY <2>2, <2>4, <3>1, <3>2, <3>5 DEF DraftAfter, T
  <2>5. CASE committed >= 2
    <3>1. T >= 2 /\ r # 2
      BY <1>1, <1>2, <2>5
    <3>2. prepared = [begin |-> entry + 1, rows |-> T, done |-> committed - 1]
      BY <2>1, <2>5, <3>1
    <3>3. prepared.rows # 0
      BY <1>2, <3>1, <3>2
    <3>4. prepared' = [prepared EXCEPT !.done = r - 1] /\ drows' = drows
      BY <2>2, <3>1, <3>3 DEF DraftStep, Prepares
    <3>5. prepared' = [begin |-> entry + 1, rows |-> T, done |-> r - 1]
      BY <3>2, <3>4
    <3>6. entry + r \in entry + 2 .. entry + 1 + T
      BY <1>1, <1>2, <2>5
    <3> QED BY <1>1, <2>1, <2>2, <2>5, <3>1, <3>4, <3>5, <3>6 DEF DraftAfter, T
  <2> QED BY <1>1, <1>8, <2>3, <2>4, <2>5
<1> QED BY <1>1, <1>6, <1>7, <1>8 DEF TypeOK

\* The next row of the greedy path becomes the live state.
LEMMA CommitPrefixKeeps ==
  ASSUME MtpInv, CommitPrefix
  PROVE  MtpInv' /\ [Abstract!Next]_(Abstract!vars)
<1>1. /\ pc = "commit" /\ pc' = "emit"
      /\ rec' = snap[committed + 1] /\ owner' = committed + 1 /\ length' = entry + (committed + 1)
      /\ committed' = committed + 1
      /\ seedCache' \in BOOLEAN /\ (seedCache' => seedCache /\ committed + 1 # 1)
      /\ DraftStep(committed + 1)
      /\ UNCHANGED <<path, out, refused, outcome, kv, home, snap, active,
                     verified, rows, entry, inputs, preds, poisoned, fault>>
  BY DEF CommitPrefix, CommittedSlot, CommittedLength, DraftStep, request, target, transaction, draft
<1>a. /\ Committing /\ snap[0] = entry /\ 1 .. entry \subseteq kv /\ rows >= 1
      /\ entry + rows =< MaxNew - 1 /\ Len(out) = entry + committed + 1 /\ committed < rows
      /\ OnPath(committed + 1)
  BY <1>1 DEF MtpInv, Round, InRound, Verified
<1>b. /\ rows \in 1 .. 4 /\ committed \in 0 .. 3 /\ entry \in Nat /\ committed + 1 \in 1 .. rows
  BY <1>a DEF MtpInv, TypeOK
<1>c. RowIs(committed + 1)
  BY <1>a, <1>b DEF Committing
<1>d. ValidRows \in 1 .. rows /\ OnPath(ValidRows) /\ committed + 1 =< ValidRows
  BY <1>a, <1>b, Chain DEF MtpInv
<1>e. ValidRows' = ValidRows /\ ConfirmedTail' = ConfirmedTail /\ ConfirmedTail = ValidRows - 1
  BY <1>1 DEF ValidRows, ConfirmedTail
<1>f. \A r \in 1 .. 4 : OnPath(r)' <=> OnPath(r)
  BY <1>1 DEF OnPath
<1>g. seedCache' \in BOOLEAN /\ ~seedCache'
  <2>1. committed # 0 => ~seedCache
    BY <1>a DEF Committing, DraftCommitted
  <2> QED BY <1>1, <1>b, <2>1
<1>h. DraftAfter(committed + 1)
  BY <1>1, <1>a, <1>b, DraftStepWorks DEF MtpInv
<1>2. TypeOK'
  <2>1. rec' \in Content /\ owner' \in Slots /\ length' \in 0 .. Capacity /\ committed' \in 0 .. 4
    <3>1. snap \in [Slots -> Content] /\ committed + 1 \in Slots
      BY <1>b DEF MtpInv, TypeOK, Slots
    <3> QED BY <1>1, <1>a, <1>b, <3>1, Constants
  <2>2. dpos' \in 0 .. Capacity + 1 /\ drows' \subseteq 1 .. Capacity + 1
    BY <1>a, <1>b, <1>h, Constants DEF DraftAfter
  <2>3. prepared' \in [begin : 0 .. Capacity + 1, rows : 0 .. 3, done : 0 .. 3]
    BY <1>a, <1>b, <1>d, <1>e, <1>h, Constants DEF DraftAfter, NothingPrepared
  <2> QED BY <1>1, <1>g, <2>1, <2>2, <2>3 DEF MtpInv, TypeOK
<1>3. OutIsGreedy'
  BY <1>1 DEF MtpInv, OutIsGreedy
<1>4. Control'
  BY <1>1, Constants DEF MtpInv, TypeOK, Control, InRound
<1>5. Boundary'
  BY <1>1 DEF Boundary
<1>6. Round'
  <2>1. \A r \in 1 .. rows : OnPath(r)' => RowIs(r)'
    <3> SUFFICES ASSUME NEW r \in 1 .. rows, OnPath(r)' PROVE RowIs(r)'
      OBVIOUS
    <3>1. OnPath(r)
      BY <1>b, <1>f
    <3>2. RowIs(r)
      BY <1>a, <3>1 DEF Committing
    <3> QED BY <1>1, <3>2 DEF RowIs
  <2>2. DraftCommitted(committed)'
    BY <1>1, <1>b, <1>e, <1>g, <1>h DEF DraftCommitted, DraftAfter, DraftAt
  <2>3. OnPath(1)' /\ committed' =< rows'
    BY <1>1, <1>a, <1>b, <1>f DEF Committing
  <2>4. Committing'
    BY <1>1, <1>a, <2>1, <2>2, <2>3 DEF Committing
  <2>5. Committed(committed)'
    <3>2. OnPath(committed)'
      BY <1>a, <1>1 DEF OnPath
    <3>3. rec' = entry' + committed' /\ owner' = committed' /\ length' = entry' + committed' /\ committed' >= 1
      BY <1>1, <1>b, <1>c DEF RowIs
    <3> QED BY <3>2, <3>3 DEF Committed
  <2>6. Len(out') = entry' + committed'
    BY <1>1, <1>a, <1>b
  <2> QED BY <1>1, <1>a, <2>4, <2>5, <2>6 DEF Round, InRound, Verified
<1>7. [Abstract!Next]_(Abstract!vars)
  BY <1>1 DEF Abstract!vars
<1> QED BY <1>2, <1>3, <1>4, <1>5, <1>6, <1>7 DEF MtpInv

\* The client gets the next token of the greedy path.
LEMMA EmitKeeps ==
  ASSUME MtpInv, Emit
  PROVE  MtpInv' /\ [Abstract!Next]_(Abstract!vars)
<1>1. /\ pc = "emit"
      /\ out' = Append(out, preds[committed]) /\ refused' \in BOOLEAN
      /\ pc' = IF Abstract!Settled(out', refused') = "running" /\ Accepted(committed, preds[committed])
              THEN "commit" ELSE "finish"
      /\ UNCHANGED <<path, outcome, kv, rec, home, snap, owner, length,
                     active, verified, rows, committed, entry, inputs, preds,
                     seedCache, dpos, drows, prepared, poisoned, fault>>
  BY DEF Emit, EmittedToken, request, target, transaction, draft
<1>a. /\ Committing /\ snap[0] = entry /\ 1 .. entry \subseteq kv /\ rows >= 1
      /\ entry + rows =< MaxNew - 1 /\ Len(out) = entry + committed /\ Committed(committed)
      /\ Len(out) < MaxNew /\ Len(out) >= 1
  BY <1>1 DEF MtpInv, Control, Round, InRound, Verified
<1>b. /\ committed \in 1 .. rows /\ rows \in 1 .. 4 /\ entry \in Nat /\ OnPath(committed)
      /\ out \in Seq(Token) /\ path \in [1 .. MaxNew -> Token]
  BY <1>a DEF MtpInv, TypeOK, Committed, Committing
<1>c. preds[committed] = path[Len(out) + 1]
  <2>1. preds[committed] = path[entry + committed + 1]
    BY <1>a, <1>b DEF Committing, RowIs
  <2> QED BY <1>a, <2>1
<1>d. Len(out) + 1 \in 1 .. MaxNew /\ path[Len(out) + 1] \in Token
  BY <1>a, <1>b, Constants
<1>e. out' = Append(out, path[Len(out) + 1])
  BY <1>1, <1>c
<1>f. /\ out' \in Seq(Token) /\ Len(out') = Len(out) + 1 /\ out'[Len(out')] = path[Len(out')]
      /\ \A i \in 1 .. Len(out) : out'[i] = out[i]
  BY <1>b, <1>d, <1>e
<1>g. /\ Gdn' = Gdn /\ ConfirmedTail' = ConfirmedTail /\ RewindTo' = RewindTo
  BY <1>1 DEF Gdn, ConfirmedTail, ValidRows, RewindTo
<1>h. pc' \in {"commit", "finish"}
  BY <1>1
<1>i. pc' = "commit" => /\ out'[Len(out')] # Stop /\ ~refused' /\ Len(out') < MaxNew
                        /\ committed < rows /\ inputs[committed + 1] = preds[committed]
  <2> HAVE pc' = "commit"
  <2>1. Abstract!Settled(out', refused') = "running" /\ Accepted(committed, preds[committed])
    BY <1>1
  <2>2. out' # << >>
    BY <1>a, <1>f
  <2> QED BY <2>1, <2>2, <1>a, <1>f, Constants DEF Abstract!Settled, Accepted
<1>2. TypeOK'
  BY <1>1, <1>d, <1>f, <1>h DEF MtpInv, TypeOK
<1>3. OutIsGreedy'
  <2>1. \A i \in 1 .. Len(out') : i \in 1 .. Len(out) \/ i = Len(out')
    BY <1>b, <1>f
  <2> QED BY <1>1, <1>f, <2>1 DEF MtpInv, OutIsGreedy
<1>4. Control'
  BY <1>1, <1>a, <1>f, <1>h, <1>i DEF MtpInv, TypeOK, Control, InRound
<1>5. Boundary'
  BY <1>h DEF Boundary
<1>6. Round'
  <2>1. \A r \in 1 .. 4 : (OnPath(r)' <=> OnPath(r)) /\ (RowIs(r)' <=> RowIs(r))
    BY <1>1 DEF OnPath, RowIs
  <2>2. \A r \in 0 .. 4 : DraftCommitted(r)' <=> DraftCommitted(r)
    BY <1>1, <1>g DEF DraftCommitted, DraftAt
  <2>3. Committing'
    <3>1. committed \in 0 .. 4 /\ committed' = committed
      BY <1>1, <1>b
    <3>2. DraftCommitted(committed)'
      BY <1>a, <1>1, <1>g DEF Committing, DraftCommitted, DraftAt
    <3>3. \A r \in 1 .. rows : OnPath(r)' => RowIs(r)'
      BY <1>a, <1>b, <2>1 DEF Committing
    <3>4. OnPath(1)'
      BY <1>a, <2>1 DEF Committing
    <3> QED BY <1>1, <1>a, <3>2, <3>3, <3>4 DEF Committing
  <2>4. Committed(committed)'
    BY <1>1, <1>a DEF Committed, OnPath
  <2>5. Len(out') = entry' + committed' + 1
    BY <1>1, <1>a, <1>b, <1>f
  <2>6. pc' = "commit" => committed' < rows' /\ OnPath(committed + 1)'
    <3> HAVE pc' = "commit"
    <3>1. inputs[committed + 1] = path[entry + (committed + 1)]
      <4>1. Len(out) + 1 = entry + (committed + 1)
        BY <1>a, <1>b
      <4> QED BY <1>c, <1>i, <4>1
    <3>2. \A i \in 1 .. committed + 1 : i \in 1 .. committed \/ i = committed + 1
      BY <1>b
    <3>3. OnPath(committed + 1)
      BY <1>b, <3>1, <3>2 DEF OnPath
    <3> QED BY <1>1, <1>i, <3>3 DEF OnPath
  <2> QED BY <1>1, <1>a, <1>h, <2>3, <2>4, <2>5, <2>6 DEF Round, InRound, Verified
<1>7. [Abstract!Next]_(Abstract!vars)
  <2>1. out # << >> /\ out[Len(out)] # Stop /\ ~refused /\ outcome = "running"
    BY <1>1, <1>a DEF MtpInv, Control
  <2>2. Abstract!Settled(out, refused) = "running"
    BY <1>a, <1>b, <2>1, Constants DEF Abstract!Settled
  <2> QED BY <1>1, <1>e, <2>1, <2>2 DEF Abstract!Next, Abstract!Emit
<1> QED BY <1>2, <1>3, <1>4, <1>5, <1>6, <1>7 DEF MtpInv

\* The transaction retires; only the owner's slot stays live.
LEMMA FinishKeeps ==
  ASSUME MtpInv, Finish
  PROVE  MtpInv' /\ [Abstract!Next]_(Abstract!vars)
<1>1. /\ pc = "finish" /\ pc' = "settle"
      /\ snap' = [s \in Slots |-> IF s = owner THEN snap[s] ELSE Off]
      /\ active' \in BOOLEAN /\ ~active' /\ verified' \in BOOLEAN /\ ~verified'
      /\ seedCache' \in BOOLEAN /\ ~seedCache' /\ prepared' = NothingPrepared
      /\ rows' = 0 /\ committed' = 0 /\ entry' = 0 /\ inputs' = << >> /\ preds' = << >>
      /\ UNCHANGED <<path, out, refused, outcome, kv, rec, home, owner,
                     length, dpos, drows, poisoned, fault>>
  BY DEF Finish, Retire, request, target, transaction, draft
<1>a. /\ Committing /\ 1 .. entry \subseteq kv /\ rows >= 1
      /\ entry + rows =< MaxNew - 1 /\ Len(out) = entry + committed + 1 /\ Committed(committed)
  BY <1>1 DEF MtpInv, Round, InRound, Verified
<1>b. /\ committed \in 1 .. rows /\ rows \in 1 .. 4 /\ entry \in Nat /\ OnPath(committed)
      /\ owner = committed /\ owner \in Slots /\ snap \in [Slots -> Content]
  BY <1>a DEF MtpInv, TypeOK, Committed, Committing
<1>c. snap' \in [Slots -> Content] /\ snap'[owner] = snap[owner]
  BY <1>1, <1>b DEF Content
<1>d. snap[owner] = entry + committed
  BY <1>a, <1>b DEF Committing, RowIs
<1>e. \A r \in 1 .. committed : entry + r \in kv
  <2> SUFFICES ASSUME NEW r \in 1 .. committed PROVE entry + r \in kv
    OBVIOUS
  <2>1. r \in 1 .. rows /\ OnPath(r)
    BY <1>b DEF OnPath
  <2> QED BY <1>a, <2>1 DEF Committing, RowIs
<1>f. 1 .. entry + committed \subseteq kv
  <2> SUFFICES ASSUME NEW i \in 1 .. entry + committed PROVE i \in kv
    OBVIOUS
  <2>1. CASE i =< entry
    BY <1>a, <1>b, <2>1
  <2>2. CASE i > entry
    <3>1. i - entry \in 1 .. committed /\ entry + (i - entry) = i
      BY <1>b, <2>2
    <3> QED BY <1>e, <3>1
  <2> QED BY <1>b, <2>1, <2>2
<1>2. TypeOK'
  BY <1>1, <1>c, Constants DEF MtpInv, TypeOK, NothingPrepared
<1>3. OutIsGreedy'
  BY <1>1 DEF MtpInv, OutIsGreedy
<1>4. Control'
  BY <1>1, Constants DEF MtpInv, TypeOK, Control, InRound
<1>5. Boundary'
  <2>1. Len(out) - 1 = entry + committed
    BY <1>a, <1>b
  <2>2. Gdn' = entry + committed
    BY <1>1, <1>b, <1>c, <1>d DEF Gdn
  <2>3. TargetAt(Len(out) - 1)'
    BY <1>1, <1>a, <1>f, <2>1, <2>2 DEF TargetAt, Committed
  <2>4. DraftAt(Len(out) - 1)'
    <3>1. DraftCommitted(committed) /\ committed # 0
      BY <1>a, <1>b DEF Committing
    <3> QED BY <1>1, <2>1, <3>1 DEF DraftAt, DraftCommitted
  <2> QED BY <1>1, <2>3, <2>4 DEF Boundary
<1>6. Round'
  BY <1>1 DEF MtpInv, Round, InRound, Verified
<1>7. [Abstract!Next]_(Abstract!vars)
  BY <1>1 DEF Abstract!vars
<1> QED BY <1>2, <1>3, <1>4, <1>5, <1>6, <1>7 DEF MtpInv

\* No call of a round is refused.
LEMMA CallsAccepted ==
  ASSUME MtpInv, pc \in {"begin", "propose", "verify", "commit", "finish"}
  PROVE  Accepts
<1>1. CASE pc = "begin"
  <2>1. /\ Len(out) >= 1 /\ Len(out) < MaxNew /\ TargetAt(Len(out) - 1) /\ DraftAt(Len(out) - 1)
        /\ poisoned = {} /\ ~active
    BY <1>1 DEF MtpInv, Control, Boundary, InRound
  <2>2. Count \in 0 .. 3 /\ Count =< MaxNew - Len(out) - 1
    BY <2>1, CountBound DEF MtpInv
  <2>3. Len(out) \in Nat
    BY DEF MtpInv, TypeOK
  <2>4. CanBegin
    BY <2>1, <2>2, <2>3, Constants DEF CanBegin, TargetAt, DraftAt
  <2> QED BY <1>1, <2>4 DEF Accepts
<1>2. CASE pc = "propose"
  <2>1. /\ Len(out) >= 1 /\ Len(out) < MaxNew /\ Proposing /\ entry + rows =< MaxNew - 1
        /\ poisoned = {} /\ active
    BY <1>2 DEF MtpInv, Control, Round, InRound
  <2>2. Count \in 0 .. 3 /\ entry \in Nat
    BY <2>1, CountBound DEF MtpInv, TypeOK
  <2>3. CanPropose
    BY <2>1, <2>2, Constants DEF CanPropose, Proposing, DraftAt
  <2> QED BY <1>2, <2>3 DEF Accepts
<1>3. CASE pc = "verify"
  <2>1. /\ Verifying /\ entry + rows =< MaxNew - 1 /\ poisoned = {} /\ active
        /\ TargetAt(Len(out) - 1)
    BY <1>3 DEF MtpInv, Control, Boundary, Round, InRound
  <2>2. entry \in Nat /\ rows \in Nat
    BY DEF MtpInv, TypeOK
  <2>3. CanVerify
    BY <2>1, <2>2, Constants DEF CanVerify, Verifying, TargetAt
  <2> QED BY <1>3, <2>3 DEF Accepts
<1>4. CASE pc = "commit"
  <2> DEFINE r == committed + 1
  <2>1. /\ Committing /\ rows >= 1 /\ entry + rows =< MaxNew - 1 /\ committed < rows
        /\ OnPath(committed + 1) /\ poisoned = {} /\ active
    BY <1>4 DEF MtpInv, Control, Round, InRound, Verified
  <2>2. /\ rows \in 1 .. 4 /\ committed \in 0 .. 3 /\ entry \in Nat /\ r \in 1 .. rows
    BY <2>1 DEF MtpInv, TypeOK
  <2>3. ValidRows \in 1 .. rows /\ r =< ValidRows /\ ConfirmedTail = ValidRows - 1
    BY <2>1, <2>2, Chain DEF MtpInv, ConfirmedTail
  <2>4. r > 1 => inputs[r] = preds[r - 1]
    <3> HAVE r > 1
    <3>1. committed \in 1 .. rows /\ OnPath(committed) /\ r - 1 = committed
      BY <2>1, <2>2 DEF OnPath
    <3>2. preds[committed] = path[entry + committed + 1]
      BY <2>1, <3>1 DEF Committing, RowIs
    <3>3. inputs[r] = path[entry + r] /\ entry + committed + 1 = entry + r
      BY <2>1, <2>2 DEF OnPath
    <3> QED BY <3>1, <3>2, <3>3
  <2>5. DraftReady(r)
    <3>1. DraftCommitted(committed)
      BY <2>1 DEF Committing
    <3>2. CASE committed = 0 /\ seedCache
      BY <2>2, <3>1, <3>2 DEF DraftReady, UsesSeedRow, DraftCommitted, RewindTo
    <3>3. CASE committed = 0 /\ ~seedCache
      <4>1. dpos = entry /\ prepared.rows = 0
        BY <3>1, <3>3 DEF DraftCommitted, RewindTo, NothingPrepared
      <4>2. ~UsesSeedRow(r) /\ ~Prepares(r)
        BY <3>3 DEF UsesSeedRow, Prepares
      <4>3. dpos < Capacity + 1
        BY <2>1, <2>2, <4>1, Constants
      <4> QED BY <4>1, <4>2, <4>3 DEF DraftReady
    <3>4. CASE committed = 1
      <4>1. dpos = entry + 1 /\ prepared.rows = 0 /\ ~seedCache /\ r = 2
        BY <3>1, <3>4 DEF DraftCommitted, DraftAt, NothingPrepared
      <4>2. CASE ConfirmedTail >= 2
        <5>1. ConfirmedTail =< Capacity + 1 - dpos
          BY <2>1, <2>2, <2>3, <4>1, Constants
        <5> QED BY <4>1, <4>2, <5>1 DEF DraftReady, Prepares
      <4>3. CASE ~(ConfirmedTail >= 2)
        <5>1. dpos < Capacity + 1 /\ ~UsesSeedRow(r) /\ ~Prepares(r)
          BY <2>1, <2>2, <4>1, <4>3, Constants DEF UsesSeedRow, Prepares
        <5> QED BY <4>1, <5>1 DEF DraftReady
      <4> QED BY <4>2, <4>3
    <3>5. CASE committed >= 2
      <4>1. ConfirmedTail \in Int /\ ConfirmedTail >= 2 /\ r - 1 =< ConfirmedTail
        BY <2>2, <2>3, <3>5
      <4>2. /\ dpos = entry + committed
            /\ prepared = [begin |-> entry + 1, rows |-> ConfirmedTail, done |-> committed - 1]
        BY <3>1, <3>5, <2>2, <4>1 DEF DraftCommitted, DraftAt
      <4>3. prepared.rows = ConfirmedTail /\ prepared.done = committed - 1 /\ prepared.begin = entry + 1
        BY <4>2
      <4>4. ~UsesSeedRow(r) /\ ~Prepares(r)
        BY <2>2, <3>5 DEF UsesSeedRow, Prepares
      <4>5. /\ prepared.rows # 0 /\ r - 1 = prepared.done + 1 /\ r - 1 =< prepared.rows
            /\ dpos = prepared.begin + prepared.done
        BY <2>2, <4>1, <4>2, <4>3
      <4> QED BY <4>4, <4>5 DEF DraftReady
    <3> QED BY <2>2, <3>2, <3>3, <3>4, <3>5
  <2>6. CanCommit(r)
    <3>1. entry + r =< Capacity /\ r =< rows
      BY <2>1, <2>2, Constants
    <3> QED BY <2>1, <2>4, <2>5, <3>1 DEF CanCommit, Committing
  <2> QED BY <1>4, <2>6 DEF Accepts
<1>5. CASE pc = "finish"
  <2>1. Committing /\ Committed(committed) /\ active
    BY <1>5 DEF MtpInv, Control, Round, InRound, Verified
  <2>2. committed # 0
    BY <2>1 DEF Committed, MtpInv, TypeOK
  <2>3. dpos = length
    BY <2>1, <2>2 DEF Committing, DraftCommitted, DraftAt, Committed
  <2>4. CanFinish
    BY <2>1, <2>2, <2>3 DEF CanFinish, Committing, Committed
  <2> QED BY <1>5, <2>4 DEF Accepts
<1> QED BY <1>1, <1>2, <1>3, <1>4, <1>5

\* A call of the round fails, and only because the device does.
LEMMA CallFailsKeeps ==
  ASSUME MtpInv, CallFails
  PROVE  MtpInv' /\ [Abstract!Next]_(Abstract!vars)
<1>1. /\ pc \in {"begin", "propose", "verify", "commit", "finish"}
      /\ outcome' = "failed" /\ fault' \in BOOLEAN /\ fault'
      /\ poisoned' = {"target", "draft"}
      /\ kv' = {} /\ rec' = Off /\ home' = Off
      /\ snap' = [s \in Slots |-> Off] /\ drows' = {} /\ pc' = "done"
      /\ active' \in BOOLEAN /\ ~active' /\ verified' \in BOOLEAN /\ ~verified'
      /\ seedCache' \in BOOLEAN /\ ~seedCache' /\ prepared' = NothingPrepared
      /\ rows' = 0 /\ committed' = 0 /\ entry' = 0 /\ inputs' = << >> /\ preds' = << >>
      /\ UNCHANGED <<path, out, refused, owner, length, dpos>>
  BY CallsAccepted DEF CallFails, Abort, Retire, request, target, transaction, draft
<1>2. TypeOK'
  BY <1>1, Constants DEF MtpInv, TypeOK, Control, OutIsGreedy, Slots, Content, NothingPrepared, Off, Abstract!Outcome, Abstract!Paths
<1>3. OutIsGreedy'
  BY <1>1 DEF MtpInv, OutIsGreedy
<1>4. Control'
  BY <1>1, Constants DEF MtpInv, TypeOK, Control, InRound
<1>5. Boundary'
  BY <1>1, Constants DEF MtpInv, TypeOK, Control, Boundary, TargetAt, DraftAt, Gdn
<1>6. Round'
  BY <1>1 DEF MtpInv, Round, InRound, Verified
<1>7. [Abstract!Next]_(Abstract!vars)
  BY <1>1 DEF MtpInv, Control, Abstract!Next, Abstract!Fail
<1> QED BY <1>2, <1>3, <1>4, <1>5, <1>6, <1>7 DEF MtpInv

-----------------------------------------------------------------------------
\* The first request starts in a state the invariant allows.
LEMMA MtpInit ==
  ASSUME Init
  PROVE  MtpInv /\ Abstract!Init
<1>1. /\ path \in Abstract!Paths /\ out = << >> /\ refused \in BOOLEAN /\ ~refused
      /\ outcome = "running" /\ pc = "initialize"
      /\ kv = {} /\ rec = 0 /\ home = 0 /\ owner = 0 /\ length = 0
      /\ snap = [s \in Slots |-> Off]
      /\ active \in BOOLEAN /\ ~active /\ verified \in BOOLEAN /\ seedCache \in BOOLEAN
      /\ rows = 0 /\ committed = 0 /\ entry = 0 /\ inputs = << >> /\ preds = << >>
      /\ dpos = 0 /\ drows = {} /\ prepared = NothingPrepared
      /\ poisoned = {} /\ fault \in BOOLEAN /\ ~fault
  BY DEF Init
<1>2. TypeOK
  BY <1>1, Constants DEF TypeOK, Content, Slots, NothingPrepared, Off, Abstract!Outcome, Abstract!Paths
<1>3. OutIsGreedy
  BY <1>1 DEF OutIsGreedy
<1>4. Control
  BY <1>1 DEF Control, InRound
<1>5. Boundary /\ Round
  BY <1>1 DEF Boundary, Round, InRound, Verified
<1>6. Abstract!Init
  BY DEF Init, Abstract!Init
<1> QED BY <1>2, <1>3, <1>4, <1>5, <1>6 DEF MtpInv

\* A step that changes nothing.
LEMMA MtpStutters ==
  ASSUME MtpInv, UNCHANGED vars
  PROVE  MtpInv' /\ UNCHANGED Abstract!vars
<1>1. UNCHANGED <<path, out, refused, outcome, pc, kv, rec, home, snap, owner, length,
                  active, verified, rows, committed, entry, inputs, preds, seedCache,
                  dpos, drows, prepared, poisoned, fault>>
  BY DEF vars, request, target, transaction, draft
<1>2. TypeOK' /\ OutIsGreedy' /\ Control'
  BY <1>1 DEF MtpInv, TypeOK, OutIsGreedy, Control
<1>3. /\ Gdn' = Gdn /\ RewindTo' = RewindTo /\ Count' = Count /\ Seed' = Seed
      /\ ConfirmedTail' = ConfirmedTail
  BY <1>1 DEF Gdn, RewindTo, Count, Seed, Remaining, ConfirmedTail, ValidRows
<1>4. Boundary'
  BY <1>1, <1>3 DEF MtpInv, Boundary, TargetAt, DraftAt
<1>5. Round'
  <2>1. (Proposing => Proposing') /\ (Verifying => Verifying')
    BY <1>1, <1>3 DEF Proposing, Verifying, DraftAt, OnPath
  <2>2. Committing => Committing'
    BY <1>1, <1>3 DEF Committing, OnPath, RowIs, DraftCommitted, DraftAt
  <2>3. (Committed(committed) => Committed(committed)') /\ (OnPath(committed + 1) => OnPath(committed + 1)')
    BY <1>1 DEF Committed, OnPath
  <2> QED BY <1>1, <2>1, <2>2, <2>3 DEF MtpInv, Round
<1> QED BY <1>1, <1>2, <1>4, <1>5 DEF MtpInv, Abstract!vars

\* Every step keeps the invariant and is a step of greedy decoding or
\* invisible to the client.
LEMMA MtpStep ==
  ASSUME MtpInv, [Next]_vars
  PROVE  MtpInv' /\ [Abstract!Next]_(Abstract!vars)
<1>1. CASE Next
  BY <1>1, NextRequestKeeps, InitializeKeeps, InitializeCancelledKeeps, InitializeFailsKeeps,
     FirstTokenKeeps, SettleKeeps, LoopEndsKeeps, ProbeCancelsKeeps, StartRoundKeeps,
     BeginKeeps, ProposeKeeps, VerifyKeeps, CommitPrefixKeeps, EmitKeeps, FinishKeeps,
     CallFailsKeeps
  DEF Next
<1>2. CASE UNCHANGED vars
  BY <1>2, MtpStutters
<1> QED BY <1>1, <1>2

-----------------------------------------------------------------------------
(***************************************************************************)
(* The theorems                                                            *)
(***************************************************************************)
\* The target state, the draft and the transaction follow the greedy path
\* through every round, however the draft proposes and whichever call fails.
THEOREM MtpInvariant == Spec => []MtpInv
<1>1. Init => MtpInv
  BY MtpInit
<1>2. MtpInv /\ [Next]_vars => MtpInv'
  BY MtpStep
<1> QED BY <1>1, <1>2, PTL DEF Spec

\* At the boundaries of a round the KV rows, the convolution state, the GDN
\* state - in the arena or in the slot commit_prefix left it in - and the draft
\* rows are those of the emitted tokens without the pending one.
THEOREM NothingRejectedStays == Spec => []StateMatchesOutput
<1>1. MtpInv => StateMatchesOutput
  <2> SUFFICES ASSUME MtpInv PROVE StateMatchesOutput
    OBVIOUS
  <2>1. pc \in {"idle", "begin", "propose"} => TargetAt(Len(out) - 1)
    BY DEF MtpInv, Boundary
  <2>2. pc \in {"idle", "begin"} => DraftAt(Len(out) - 1) /\ TargetAt(Len(out) - 1)
    BY DEF MtpInv, Boundary
  <2>3. TargetMatchesOutput
    BY <2>1 DEF TargetMatchesOutput, TargetAt
  <2>4. DraftMatchesTarget
    BY <2>2 DEF DraftMatchesTarget, DraftAt, TargetAt
  <2> QED BY <2>3, <2>4 DEF StateMatchesOutput, MtpInv
<1> QED BY <1>1, MtpInvariant, PTL

\* No precondition of begin, propose, verify, commit_prefix or finish, and no
\* option check of run_round, turns down what the service itself did: a failed
\* request is a failed device operation.
THEOREM OnlyTheDeviceFails == Spec => []FailsOnlyOnFault
<1>1. MtpInv => FailsOnlyOnFault
  BY DEF MtpInv, Control, FailsOnlyOnFault
<1> QED BY <1>1, MtpInvariant, PTL

\* Speculation is invisible: what the client is given, and how the request
\* ends, is what the ordinary greedy loop allows.
THEOREM SpeculationIsInvisible == Spec => ImplementsGreedy
<1>1. Init => Abstract!Init
  BY MtpInit
<1>2. MtpInv /\ [Next]_vars => [Abstract!Next]_(Abstract!vars)
  BY MtpStep
<1> QED BY <1>1, <1>2, MtpInvariant, PTL DEF Spec, ImplementsGreedy, Abstract!Spec

=============================================================================
