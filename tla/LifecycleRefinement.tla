------------------------- MODULE LifecycleRefinement -------------------------
(***************************************************************************)
(* The reconciler keeps the promise of RunnerLifecycle, seen through what  *)
(* there is on GitHub and on Oxide under each name.                        *)
(***************************************************************************)
EXTENDS Reconciler

\* Three facts make the stage of a runner; a job needs a registration.
StageOf(isRegistered, hasInstance, hasDisk) ==
  IF hasInstance THEN IF isRegistered THEN "ready" ELSE "retired"
  ELSE IF hasDisk THEN IF isRegistered THEN "stranded" ELSE "leftover"
  ELSE IF isRegistered THEN "registered" ELSE "unused"

Stage(n) ==
  IF job[n] = "running" THEN "working"
  ELSE StageOf(n \in registered, n \in Existing, disk[n] # "absent")

stages == [n \in Names |-> Stage(n)]

Lifecycle ==
  INSTANCE RunnerLifecycle
    WITH stage <- stages, Interference <- "operator" \in Disturbances

\* Whatever the process knows, forgets or mistakes, crashes and outages
\* included, every runner lives the life of RunnerLifecycle.
ImplementsLifecycle == Lifecycle!Spec

=============================================================================
