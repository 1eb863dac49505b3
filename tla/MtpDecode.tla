----------------------------- MODULE MtpDecode -----------------------------
(* Multi-token prediction: the decode loop of mtp_detail::Service, the       *)
(* transaction protocol of run_round and its only production backend,        *)
(* TargetTransaction with the Draft model (mtp_service_internal.cpp,         *)
(* mtp_control.cpp, mtp_device_internal.cpp, mtp_verify_internal.cpp).       *)
(*                                                                           *)
(* A round lets a cheap draft model propose up to three tokens, runs the     *)
(* target model on the pending token and the proposals at once, and commits  *)
(* the rows one by one as long as the target agrees.  The target state is    *)
(* spread over KV rows that are overwritten in place, a convolution state    *)
(* that is copied from a snapshot slot, and a GDN state that is not copied:  *)
(* committing row r makes slot r the owner of the live GDN state.            *)
(*                                                                           *)
(* What a piece of device memory holds is abstracted to the one thing that   *)
(* matters, which prefix of the greedy path it was computed from: a number   *)
(* k stands for "the prompt and path[1..k]" and Off for anything else, on    *)
(* which the target's argmax is arbitrary.  Positions count from the end of  *)
(* the prompt: the target's current_position() is prompt + length, the       *)
(* draft's position() is prompt - 1 + dpos.                                  *)
EXTENDS Integers, Sequences

CONSTANTS Token, Stop, MaxNew,
          DraftLength,   \* Service::length_, 2 or 3
          Capacity       \* max_sequence_length() - prompt

ASSUME StopAssumption == Stop \in Token
ASSUME MaxNewAssumption == MaxNew \in Nat \ {0}
ASSUME DraftLengthAssumption == DraftLength \in {2, 3}
\* generate_tokenized refuses a request whose prompt + max_new_tokens - 1
\* exceeds max_sequence_length().
ASSUME CapacityAssumption == Capacity \in Nat /\ Capacity >= MaxNew - 1

VARIABLES
  path, out, refused, outcome,   \* as in GreedyDecode
  pc,
  kv,        \* the KV rows that hold path[i] in the context path[1..i-1]
  rec,       \* the live convolution state and final hidden row
  home,      \* the GDN region of the request arena
  snap,      \* the snapshot slots 0..4 (slot 0 only has the entry hidden row)
  owner,     \* the slot that owns the live GDN state, 0 for the arena
  length,    \* RequestState::sequence_length_
  active, verified, rows, committed, entry,   \* of TargetTransaction
  inputs,    \* inputs_: the pending token and the proposals
  preds,     \* predictions_
  seedCache, \* seed_cache_valid_
  dpos,      \* Draft position
  drows,     \* the draft KV rows that hold path[i] with the target's hidden
             \* row of path[1..i-1]
  prepared,  \* Draft prepared_begin, prepared_rows and prepared_committed
             \* (prepared_tail_rows_ is zero exactly when prepared.rows is)
  poisoned,  \* which of the target runner and the draft are poisoned
  fault      \* history: a device operation of this request failed

request == <<path, out, refused, outcome>>
target == <<kv, rec, home, snap, owner, length>>
transaction == <<active, verified, rows, committed, entry, inputs, preds,
                 seedCache>>
draft == <<dpos, drows, prepared>>
vars == <<request, pc, target, transaction, draft, poisoned, fault>>

Off == -1
Content == {Off} \cup 0 .. MaxNew
Slots == 0 .. 4
NothingPrepared == [begin |-> 0, rows |-> 0, done |-> 0]

\* The variables path, out, refused and outcome are the abstract ones.
Abstract == INSTANCE GreedyDecode WITH
  Token <- Token, Stop <- Stop, MaxNew <- MaxNew,
  path <- path, out <- out, refused <- refused, outcome <- outcome

(***************************************************************************)
(* Derived state                                                           *)
(***************************************************************************)
Settled == Abstract!Settled(out, refused)

Seed == out[Len(out)]

Remaining == MaxNew - Len(out)

\* The live GDN state, wherever it is.
Gdn == IF owner = 0 THEN home ELSE snap[owner]

\* output_tail_budget
OutputTailBudget(configured, remaining) ==
  IF configured = 3 /\ remaining # 4 THEN 2 ELSE configured

Least(a, b) == IF a =< b THEN a ELSE b

CountNoBonusRow ==
  Least(OutputTailBudget(DraftLength, Remaining), Remaining)

\* The number of proposals asked for: there must be room for the correction
\* or bonus token.
Count == Least(OutputTailBudget(DraftLength, Remaining), Remaining - 1)

\* Row r of the verification is computed from the greedy prefix: everything
\* it reads is, and so are the tokens fed in.
Sound(ins, r) ==
  /\ 1 .. entry \subseteq kv
  /\ rec = entry
  /\ Gdn = entry
  /\ entry + r =< MaxNew
  /\ \A i \in 1 .. r : ins[i] = path[entry + i]

\* What slot r holds once row r has been computed.
RowContent(ins, r) == IF Sound(ins, r) THEN entry + r ELSE Off

(***************************************************************************)
(* begin, propose, verify, commit_prefix, finish: what each call requires  *)
(* before it touches the device.  A call whose condition fails returns     *)
(* false, exactly as one whose device operation fails.                     *)
(***************************************************************************)
OptionsValid ==
  /\ Seed # Stop
  /\ Remaining # 0
  /\ Capacity - length >= Remaining

CanBegin ==
  /\ ~active
  /\ "target" \notin poisoned
  /\ dpos = length
  /\ Count + 1 \in 1 .. 4
  /\ Count + 1 =< Capacity - length

CanPropose ==
  /\ active /\ ~verified
  /\ Count + 1 = rows
  /\ dpos = entry
  /\ "draft" \notin poisoned
  /\ dpos + Count =< Capacity + 1

\* Where verify rewinds the draft to: the row of the pending token survives
\* if the proposal computed it.
RewindTo == IF seedCache THEN entry + 1 ELSE entry

CanVerify ==
  /\ active /\ ~verified
  /\ Len(inputs) = rows
  /\ rows > 1 => length = entry
  /\ length + rows =< Capacity
  /\ RewindTo =< dpos
  /\ {"target", "draft"} \cap poisoned = {}

\* The rows whose proposals the target confirms, counted from the first.
ValidRows ==
  CHOOSE n \in 1 .. rows :
    /\ \A i \in 2 .. n : inputs[i] = preds[i - 1]
    /\ n < rows => inputs[n + 1] # preds[n]

ConfirmedTail == ValidRows - 1

\* commit_prefix(2) writes all the confirmed draft rows at once.
Prepares(r) == r = 2 /\ ConfirmedTail >= 2

UsesSeedRow(r) == r = 1 /\ seedCache

\* What the draft's part of commit_prefix(r) requires: the row of the pending
\* token is reused, or the confirmed rows are prepared, or the next prepared
\* row is published, or one row is appended.
DraftReady(r) ==
  \/ UsesSeedRow(r) /\ dpos = entry + 1
  \/ Prepares(r) /\ prepared.rows = 0 /\ ConfirmedTail =< Capacity + 1 - dpos
  \/ /\ ~UsesSeedRow(r) /\ ~Prepares(r) /\ prepared.rows # 0
     /\ r - 1 = prepared.done + 1
     /\ r - 1 =< prepared.rows
     /\ dpos = prepared.begin + prepared.done
  \/ /\ ~UsesSeedRow(r) /\ ~Prepares(r) /\ prepared.rows = 0
     /\ dpos < Capacity + 1

CanCommit(r) ==
  /\ active /\ verified
  /\ r =< rows
  /\ r > 1 => inputs[r] = preds[r - 1]
  /\ "draft" \notin poisoned
  /\ DraftReady(r)
  /\ entry + r =< Capacity

CanFinish ==
  /\ active /\ verified
  /\ committed # 0
  /\ length = entry + committed
  /\ dpos = length

Accepts ==
  CASE pc = "begin"   -> CanBegin
    [] pc = "propose" -> CanPropose
    [] pc = "verify"  -> CanVerify
    [] pc = "commit"  -> CanCommit(committed + 1)
    [] pc = "finish"  -> CanFinish

(***************************************************************************)
(* A request                                                               *)
(***************************************************************************)
\* begin_ordinary_request resets the whole request state (an MTP engine has
\* a layer-major memory profile, for which select_request_reset always asks
\* for the conservative reset) and the whole-request prefill consumes the
\* prompt.  The snapshot slots and the draft are left as they are.
ResetTarget ==
  /\ kv' = {}
  /\ rec' = 0
  /\ home' = 0
  /\ owner' = 0
  /\ length' = 0
  /\ poisoned' = poisoned \ {"target"}
  /\ UNCHANGED snap

NextRequest ==
  /\ pc = "done"
  /\ path' \in Abstract!Paths
  /\ out' = << >>
  /\ refused' = FALSE
  /\ outcome' = "running"
  /\ pc' = "initialize"
  /\ ResetTarget
  /\ fault' = FALSE
  /\ UNCHANGED <<transaction, draft>>

Init ==
  /\ path \in Abstract!Paths
  /\ out = << >> /\ refused = FALSE /\ outcome = "running"
  /\ pc = "initialize"
  /\ kv = {} /\ rec = 0 /\ home = 0 /\ owner = 0 /\ length = 0
  /\ snap = [s \in Slots |-> Off]
  /\ active = FALSE /\ verified = FALSE /\ seedCache = FALSE
  /\ rows = 0 /\ committed = 0 /\ entry = 0
  /\ inputs = << >> /\ preds = << >>
  /\ dpos = 0 /\ drows = {} /\ prepared = NothingPrepared
  /\ poisoned = {} /\ fault = FALSE

CanInitialize == owner = 0 /\ ~active /\ "target" \notin poisoned

\* Service::initialize: rebuild the draft KV from the prompt.
Initialize ==
  /\ pc = "initialize"
  /\ CanInitialize
  /\ pc' = "first"
  /\ seedCache' = FALSE
  /\ dpos' = 0 /\ drows' = {} /\ prepared' = NothingPrepared
  /\ poisoned' = poisoned \ {"draft"}
  /\ UNCHANGED <<request, target, active, verified, rows, committed, entry,
                 inputs, preds, fault>>

\* What a retired transaction leaves in these members is overwritten by begin
\* and verify before it is read again.
Retire ==
  /\ active' = FALSE /\ verified' = FALSE /\ seedCache' = FALSE
  /\ prepared' = NothingPrepared
  /\ rows' = 0 /\ committed' = 0 /\ entry' = 0
  /\ inputs' = << >> /\ preds' = << >>

\* TargetTransaction::abort: drain the device and poison everything.  The
\* contents of the interrupted state are uncertain.
Abort ==
  /\ poisoned' = {"target", "draft"}
  /\ kv' = {} /\ rec' = Off /\ home' = Off
  /\ snap' = [s \in Slots |-> Off]
  /\ drows' = {}
  /\ Retire
  /\ pc' = "done"
  /\ UNCHANGED <<owner, length, dpos>>

\* The cancellation probe answers true while the draft KV is rebuilt.
InitializeCancelled ==
  /\ pc = "initialize"
  /\ CanInitialize
  /\ Abort
  /\ outcome' = "cancelled"
  /\ UNCHANGED <<path, out, refused, fault>>

\* The device fails, or the transaction is not in a state to start from (in
\* which case nothing is touched).
InitializeFails ==
  /\ pc = "initialize"
  /\ outcome' = "failed"
  /\ fault' = CanInitialize
  /\ IF CanInitialize THEN Abort
     ELSE pc' = "done" /\ UNCHANGED <<target, transaction, draft, poisoned>>
  /\ UNCHANGED <<path, out, refused>>

\* commit_token of the token the prefill predicted.
FirstToken ==
  /\ pc = "first"
  /\ out' = <<path[1]>>
  /\ refused' \in BOOLEAN
  /\ pc' = "settle"
  /\ UNCHANGED <<path, outcome, target, transaction, draft, poisoned, fault>>

\* After the first token and after every round: a stop token or a refusal
\* ends the request, anything else goes back to the head of the loop.
Settle ==
  /\ pc = "settle"
  /\ IF Settled \in {"stop", "cancelled"}
     THEN outcome' = Settled /\ pc' = "done"
     ELSE pc' = "idle" /\ UNCHANGED outcome
  /\ UNCHANGED <<path, out, refused, target, transaction, draft, poisoned,
                 fault>>

LoopEnds ==
  /\ pc = "idle"
  /\ Len(out) >= MaxNew
  /\ outcome' = "length"
  /\ pc' = "done"
  /\ UNCHANGED <<path, out, refused, target, transaction, draft, poisoned,
                 fault>>

ProbeCancels ==
  /\ pc = "idle"
  /\ Len(out) < MaxNew
  /\ outcome' = "cancelled"
  /\ pc' = "done"
  /\ UNCHANGED <<path, out, refused, target, transaction, draft, poisoned,
                 fault>>

(***************************************************************************)
(* A round                                                                 *)
(***************************************************************************)
StartRound ==
  /\ pc = "idle"
  /\ Len(out) < MaxNew
  /\ pc' = IF OptionsValid THEN "begin" ELSE "done"
  /\ outcome' = IF OptionsValid THEN outcome ELSE "failed"
  /\ UNCHANGED <<path, out, refused, target, transaction, draft, poisoned,
                 fault>>

Begin ==
  /\ pc = "begin"
  /\ CanBegin
  /\ active' = TRUE
  /\ seedCache' = FALSE
  /\ verified' = FALSE
  /\ committed' = 0
  /\ entry' = length
  /\ rows' = Count + 1
  /\ inputs' = <<Seed>>
  /\ preds' = << >>
  /\ prepared' = NothingPrepared
  /\ snap' = [snap EXCEPT ![0] = rec]
  /\ pc' = IF Count = 0 THEN "verify" ELSE "propose"
  /\ UNCHANGED <<request, kv, rec, home, owner, length, dpos, drows, poisoned,
                 fault>>

Proposals == UNION {[1 .. n -> Token \ {Stop}] : n \in 0 .. Count}

\* propose_eos_bounded: run the draft on the pending token and then on its
\* own predictions, until it predicts the stop token (which is dropped), is
\* no longer confident, or has made Count proposals.  Each draft step writes
\* one draft KV row, the first with the target's hidden row.
Propose ==
  /\ pc = "propose"
  /\ CanPropose
  /\ \E d \in Proposals, stopped \in BOOLEAN :
       LET steps == IF stopped THEN Len(d) + 1 ELSE Len(d)
           new == dpos + 1 .. dpos + steps
       IN /\ steps >= 1 /\ steps =< Count
          /\ inputs' = <<Seed>> \o d
          /\ rows' = Len(d) + 1
          /\ dpos' = dpos + steps
          /\ drows' = (drows \ new) \cup
                      {i \in {entry + 1} : Seed = path[i] /\ snap[0] = entry}
  /\ seedCache' = TRUE
  /\ prepared' = NothingPrepared
  /\ pc' = "verify"
  /\ UNCHANGED <<request, target, active, verified, committed, entry, preds,
                 poisoned, fault>>

\* The target's argmax after each row: the next token of the greedy path
\* where the row was computed from it, and arbitrary elsewhere.
Predictions ==
  {p \in [1 .. rows -> Token] :
     \A r \in 1 .. rows :
       Sound(inputs, r) /\ entry + r < MaxNew => p[r] = path[entry + r + 1]}

\* The rows land in slots 1..rows.  A round without proposals takes the
\* ordinary single step, which updates the live state in place and advances
\* the sequence before it is snapshot.
Verify ==
  /\ pc = "verify"
  /\ CanVerify
  /\ preds' \in Predictions
  /\ LET row(r) == RowContent(inputs, r)
         written == [s \in Slots |-> IF s \in 1 .. rows THEN row(s) ELSE snap[s]]
     IN /\ kv' = (kv \ (entry + 1 .. entry + rows))
                  \cup {i \in entry + 1 .. entry + rows :
                          Sound(inputs, i - entry)}
        /\ IF rows > 1
           THEN snap' = written /\ UNCHANGED <<rec, home, length>>
           ELSE /\ rec' = row(1)
                /\ length' = length + 1
                /\ home' = IF owner = 0 THEN row(1) ELSE home
                /\ snap' = IF owner = 0 THEN written
                           ELSE [written EXCEPT ![owner] = row(1)]
  /\ dpos' = RewindTo
  /\ prepared' = NothingPrepared
  /\ verified' = TRUE
  /\ pc' = "commit"
  /\ UNCHANGED <<request, owner, active, rows, committed, entry, inputs,
                 seedCache, drows, poisoned, fault>>

ReconciledFromOwnRow(i, r) == inputs[r] = path[i] /\ snap[r] = i - 1

\* The draft row at position i, written from input r and the hidden row of
\* slot r - 1, matches the committed sequence.
Reconciled(i, r) == inputs[r] = path[i] /\ snap[r - 1] = i - 1

\* The slot commit_prefix(r) copies from and makes the GDN owner.
CommittedSlot(r) == r

\* Counted from where the round began, however many rows came before.
CommittedLength(r) == entry + r

CommitPrefix ==
  /\ pc = "commit"
  /\ LET r == committed + 1
         appended == dpos + 1
     IN /\ CanCommit(r)
        /\ rec' = snap[CommittedSlot(r)]
        /\ owner' = CommittedSlot(r)
        /\ length' = CommittedLength(r)
        /\ committed' = r
        /\ seedCache' = (seedCache /\ r # 1)
        /\ dpos' = IF UsesSeedRow(r) THEN dpos ELSE dpos + 1
        /\ IF UsesSeedRow(r) THEN UNCHANGED <<drows, prepared>>
           ELSE IF Prepares(r)
           THEN /\ prepared' = [begin |-> dpos, rows |-> ConfirmedTail, done |-> 1]
                /\ drows' = (drows \ (dpos + 1 .. dpos + ConfirmedTail)) \cup
                            {i \in dpos + 1 .. dpos + ConfirmedTail :
                               Reconciled(i, i - dpos + 1)}
           ELSE IF prepared.rows # 0
           THEN prepared' = [prepared EXCEPT !.done = r - 1] /\ UNCHANGED drows
           ELSE /\ prepared' = NothingPrepared
                /\ drows' = (drows \ {appended}) \cup
                            {i \in {appended} : Reconciled(i, r)}
  /\ pc' = "emit"
  /\ UNCHANGED <<request, kv, home, snap, active, verified, rows, entry, inputs,
                 preds, poisoned, fault>>

\* Row r was proposed and the target agrees with the proposal.
Accepted(r, token) == r < rows /\ inputs[r + 1] = token

DraftedToken(r) == IF r < rows THEN inputs[r + 1] ELSE preds[r]

EmittedToken(r) == preds[r]

\* The observer is called after the commit.  The round goes on while the
\* request does and the proposal was right.
Emit ==
  /\ pc = "emit"
  /\ LET token == EmittedToken(committed)
     IN /\ out' = Append(out, token)
        /\ refused' \in BOOLEAN
        /\ pc' = IF /\ Abstract!Settled(out', refused') = "running"
                    /\ Accepted(committed, token)
                 THEN "commit" ELSE "finish"
  /\ UNCHANGED <<path, outcome, target, transaction, draft, poisoned, fault>>

\* Between rounds only the slot that owns the GDN state is live; the others
\* may hold anything.
Finish ==
  /\ pc = "finish"
  /\ CanFinish
  /\ Retire
  /\ snap' = [s \in Slots |-> IF s = owner THEN snap[s] ELSE Off]
  /\ pc' = "settle"
  /\ UNCHANGED <<request, kv, rec, home, owner, length, dpos, drows, poisoned,
                 fault>>

\* A backend call returns false, because it does not accept the call or
\* because the device fails: the round aborts and the request fails.
CallFails ==
  /\ pc \in {"begin", "propose", "verify", "commit", "finish"}
  /\ fault' = Accepts
  /\ Abort
  /\ outcome' = "failed"
  /\ UNCHANGED <<path, out, refused>>

Next ==
  \/ NextRequest \/ Initialize \/ InitializeCancelled \/ InitializeFails
  \/ FirstToken \/ Settle \/ LoopEnds \/ ProbeCancels
  \/ StartRound \/ Begin \/ Propose \/ Verify \/ CommitPrefix \/ Emit \/ Finish
  \/ CallFails

Spec == Init /\ [][Next]_vars

(***************************************************************************)
(* Properties                                                              *)
(***************************************************************************)
\* The types of the variables.
TypeOK ==
  /\ path \in [1 .. MaxNew -> Token]
  /\ out \in Seq(Token) /\ Len(out) =< MaxNew
  /\ refused \in BOOLEAN
  /\ outcome \in Abstract!Outcome
  /\ pc \in {"initialize", "first", "settle", "idle", "begin", "propose",
             "verify", "commit", "emit", "finish", "done"}
  /\ kv \subseteq 1 .. Capacity
  /\ rec \in Content /\ home \in Content
  /\ snap \in [Slots -> Content]
  /\ owner \in Slots
  /\ length \in 0 .. Capacity
  /\ active \in BOOLEAN /\ verified \in BOOLEAN /\ seedCache \in BOOLEAN
  /\ rows \in 0 .. 4 /\ committed \in 0 .. 4 /\ entry \in 0 .. Capacity
  /\ inputs \in Seq(Token) /\ preds \in Seq(Token)
  /\ dpos \in 0 .. Capacity + 1 /\ drows \subseteq 1 .. Capacity + 1
  /\ prepared \in [begin : 0 .. Capacity + 1, rows : 0 .. 3, done : 0 .. 3]
  /\ poisoned \subseteq {"target", "draft"}
  /\ fault \in BOOLEAN

\* Speculation is invisible: whatever the draft proposes, the client sees the
\* greedy continuation that the ordinary decode loop would have produced, and
\* the same precedence of stop, refusal and length (run_round: "No
\* speculative token may reach a client").
ImplementsGreedy == Abstract!Spec

\* At every boundary of a running request the committed target state - KV
\* rows, convolution state, the GDN state wherever it lives - is that of
\* exactly the tokens given to the client except the pending one, however
\* many proposals were rejected before (commit_prefix: "selects the exact
\* prefix's KV, Conv, GDN and hidden state").
TargetMatchesOutput ==
  pc \in {"idle", "begin", "propose"} =>
    /\ length = Len(out) - 1
    /\ rec = length /\ Gdn = length /\ 1 .. length \subseteq kv

\* The draft is reconciled after every round: it holds one row for each
\* committed token, each computed from the target's hidden row and none from
\* the draft's own recursion.
DraftMatchesTarget ==
  pc \in {"idle", "begin"} => dpos = length /\ 1 .. dpos \subseteq drows

\* At the boundaries of a round nothing of a rejected proposal is left, in the
\* target or in the draft.
StateMatchesOutput == TypeOK /\ TargetMatchesOutput /\ DraftMatchesTarget

\* The checks of begin, propose, verify, commit_prefix and finish, and the
\* option checks of run_round, never reject what the service itself did: a
\* request fails only when the device does.
FailsOnlyOnFault == outcome = "failed" => fault

=============================================================================
