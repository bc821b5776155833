----------------------------- MODULE MCLifecycle -----------------------------
(* Small instances of LifecycleRefinement for TLC.                         *)
EXTENDS LifecycleRefinement, MCReconciler
=============================================================================
