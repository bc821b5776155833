---------------------------- MODULE MCReconciler ----------------------------
(* Small instances of Reconciler for TLC.                                  *)
EXTENDS Reconciler, TLC

Between0And1 == {[min |-> 0, max |-> 1]}
Draining == {[min |-> 0, max |-> 1], [min |-> 0, max |-> 0]}
Between0And1Or2 == {[min |-> 0, max |-> m] : m \in 1 .. 2}
AlwaysTwo == {[min |-> 2, max |-> 2]}

\* What the listener hands over is read by StartReconcile only, and nobody
\* sees the difference if it arrives while the loop rests instead of earlier.
ListenAtRest == (desired' # desired \/ inbox' # inbox) => pc = "idle" \/ pc' = "down"

NamesSymmetry == Permutations(Names)
=============================================================================
