---------------------------- MODULE GreedyDecode ----------------------------
(* What a decode loop of the engine promises, whichever loop runs: the       *)
(* tokens given to the observer are the target model's greedy continuation   *)
(* of the prompt, one at a time and in order, up to the first stop token,    *)
(* the first refusal of the observer or the requested number of tokens.      *)
(* It is also, step for step, the ordinary loop of                           *)
(* run_generation_control_impl (reference_engine_control.cpp), which         *)
(* the engine runs when no MTP service is active.  MtpDecode implements it.  *)
EXTENDS Naturals, Sequences

CONSTANTS Token,   \* token ids
          Stop,    \* options.stop_token_id
          MaxNew   \* options.max_new_tokens, at least one

VARIABLES
  path,     \* the greedy continuation of this request's prompt: after the
            \* prompt and path[1..k] the target's argmax is path[k + 1]
  out,      \* control.generated_token_ids
  refused,  \* the last committed_token callback returned false
  outcome   \* "running", or how the request ended

vars == <<path, out, refused, outcome>>

Outcome == {"running", "stop", "cancelled", "length", "failed"}

\* The greedy continuations.  What follows the stop token is never asked for.
Paths ==
  {p \in [1 .. MaxNew -> Token] :
     \A i \in 1 .. MaxNew - 1 : p[i] = Stop => p[i + 1] = Stop}

\* How the tokens committed so far settle the request.  The stop token takes
\* precedence over a refusal, and a refusal over the length limit.
Settled(tokens, no) ==
  IF tokens = << >> THEN "running"
  ELSE IF tokens[Len(tokens)] = Stop THEN "stop"
  ELSE IF no THEN "cancelled"
  ELSE IF Len(tokens) >= MaxNew THEN "length"
  ELSE "running"

Init ==
  /\ path \in Paths
  /\ out = << >>
  /\ refused = FALSE
  /\ outcome = "running"

\* commit_token: push the target's next token and call the observer.
Emit ==
  /\ outcome = "running"
  /\ Settled(out, refused) = "running"
  /\ out' = Append(out, path[Len(out) + 1])
  /\ refused' \in BOOLEAN
  /\ UNCHANGED <<path, outcome>>

Conclude ==
  /\ outcome = "running"
  /\ Settled(out, refused) # "running"
  /\ outcome' = Settled(out, refused)
  /\ UNCHANGED <<path, out, refused>>

\* The cancellation probe answers true at a token boundary.
Cancel ==
  /\ outcome = "running"
  /\ Settled(out, refused) = "running"
  /\ outcome' = "cancelled"
  /\ UNCHANGED <<path, out, refused>>

\* The runner reports a failure.
Fail ==
  /\ outcome = "running"
  /\ outcome' = "failed"
  /\ UNCHANGED <<path, out, refused>>

NextRequest ==
  /\ outcome # "running"
  /\ path' \in Paths
  /\ out' = << >>
  /\ refused' = FALSE
  /\ outcome' = "running"

Next == Emit \/ Conclude \/ Cancel \/ Fail \/ NextRequest

Spec == Init /\ [][Next]_vars

=============================================================================
