-------------------------- MODULE DecoderDataflow --------------------------
(* What any schedule of a prefill must respect, whatever its order: the      *)
(* state of a decoder layer (KV cache or GDN state) may only cover positions *)
(* whose input, the output of the layer below, has been computed; a layer's  *)
(* output may only cover positions its state covers; and the request is      *)
(* committed once, when the top layer has produced the last position.        *)
EXTENDS Integers

CONSTANT Layers

VARIABLES
  first, final,   \* the positions of the prompt are first .. final - 1
  state,          \* state[l]: the positions below it are in the layer's state
  output,         \* output[l]: the positions below it have left the layer
  committed

vars == <<first, final, state, output, committed>>

LayerSet == 0 .. Layers - 1

\* How far the input of a layer has been computed.
Input(l) == IF l = 0 THEN final ELSE output[l - 1]

Init ==
  /\ first \in Nat /\ final \in Nat /\ first < final
  /\ state = [l \in LayerSet |-> first]
  /\ output = [l \in LayerSet |-> first]
  /\ committed = FALSE

\* Some positions enter the state of a layer, and some of those that are in
\* it leave the layer.
Advance(l) ==
  /\ ~committed
  /\ \E s \in state[l] .. Input(l) : \E o \in output[l] .. s :
       /\ state' = [state EXCEPT ![l] = s]
       /\ output' = [output EXCEPT ![l] = o]
  /\ UNCHANGED <<first, final, committed>>

Commit ==
  /\ ~committed
  /\ \A l \in LayerSet : output[l] = final
  /\ committed' = TRUE
  /\ UNCHANGED <<first, final, state, output>>

Next == Commit \/ \E l \in LayerSet : Advance(l)

Spec == Init /\ [][Next]_vars
=============================================================================
