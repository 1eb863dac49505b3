------------------------------ MODULE MCEngine ------------------------------
(***************************************************************************)
(* EngineLifetime for TLC: two shards whose text tensors start and end      *)
(* inside chunks, a checkpoint the plan refuses, and the options and        *)
(* builds that differ in the layouts they select.                           *)
(***************************************************************************)
EXTENDS EngineLifetime

Tensor(n, s, b, e, text) ==
  [name |-> n, shard |-> s, begin |-> b, end |-> e, text |-> text]

MCManifests == {
  [sizes |-> <<5, 3>>,
   tensors |-> {Tensor("a", 1, 1, 3, TRUE), Tensor("b", 1, 3, 4, FALSE),
                Tensor("c", 1, 4, 5, TRUE), Tensor("d", 2, 0, 3, TRUE)}],
  [sizes |-> <<5, 3>>,
   tensors |-> {Tensor("a", 1, 1, 3, TRUE), Tensor("b", 1, 2, 4, FALSE),
                Tensor("d", 2, 0, 3, TRUE)}]}

\* Flags that cannot matter are fixed: the environment of a release binary, a
\* startup or service binary without the Marlin inventories or for a tactic
\* other than the one they are about, the rest for the reference backend.  The
\* decode layouts of a testing binary do not depend on the tactic: one tiled and
\* one whole-request tactic stand for all.
MCRoutes ==
  {r \in Route :
     /\ ~r.testing => r.admitted = {}
     /\ r.testing => r.tactic \in {"exact", "parity"} /\ ~r.service
     /\ r.startup => r.fp8 /\ r.tactic = "whole_core"
     /\ r.service => r.tactic = "whole_core"
     /\ ~r.sm87 => r.tactic = "exact" /\ ~r.whole /\ ~r.chunk512 /\ ~r.fp8
                   /\ ~r.nvfp4 /\ ~r.testing}
=============================================================================
