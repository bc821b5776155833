--------------------------- MODULE RunnerLifecycle ---------------------------
(***************************************************************************)
(* What the scaler promises about every runner, as GitHub and the Oxide    *)
(* control plane see it (internal/scaler/doc.go): a name is registered     *)
(* before its instance is created, is taken out of the registrations       *)
(* before the instance is deleted and out of the way before its disk is,   *)
(* and nothing is ever created under a name that has left something behind.*)
(***************************************************************************)
CONSTANTS
  Names,          \* runner names; shared by registration, instance and disk
  Interference    \* whether somebody else deletes instances as well

VARIABLE
  stage           \* stage[n]: what there is under the name n

Stages ==
  {"unused",      \* nothing, or nothing yet
   "registered",  \* a registration only
   "ready",       \* a registration and an instance
   "working",     \* and a job that is running
   "retired",     \* an instance that no job can reach any more
   "leftover",    \* a disk only
   "stranded"}    \* a registration and a disk

TypeOK == stage \in [Names -> Stages]

Moves(n, from, to) ==
  /\ stage[n] \in from
  /\ \E there \in to : stage' = [stage EXCEPT ![n] = there]

\* provisionRunner registers the runner first.
Register(n) == Moves(n, {"unused"}, {"registered"})

\* Then it creates the instance.  The registration may be gone when a creation
\* arrives late.
Create(n) == Moves(n, {"registered"}, {"ready"}) \/ Moves(n, {"unused"}, {"retired"})

\* GitHub sends the one job of an ephemeral runner, and lets go of the runner
\* with it, whatever is left of it by then.
Assign(n) == Moves(n, {"ready"}, {"working"})
Finish(n) ==
  Moves(n, {"working"}, {"retired"} \union (IF Interference THEN {"leftover", "unused"} ELSE {}))

\* The first step of a teardown; GitHub never lets go of a runner at work.
Unregister(n) ==
  \/ Moves(n, {"registered"}, {"unused"})
  \/ Moves(n, {"ready"}, {"retired"})
  \/ Moves(n, {"stranded"}, {"leftover"})

\* The second step; the disk may have been removed when it was faulted.
DeleteInstance(n) == Moves(n, {"retired"}, {"leftover", "unused"})

\* The third step.
DeleteDisk(n) == Moves(n, {"leftover"}, {"unused"})

Interfere(n) == Interference /\ Moves(n, {"ready"}, {"stranded", "registered"})

Init == stage = [n \in Names |-> "unused"]

Next ==
  \E n \in Names :
    \/ Register(n) \/ Create(n) \/ Assign(n) \/ Finish(n)
    \/ Unregister(n) \/ DeleteInstance(n) \/ DeleteDisk(n) \/ Interfere(n)

Spec == Init /\ [][Next]_stage

=============================================================================
